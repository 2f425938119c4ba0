----------------------------- MODULE MCLibraries -----------------------------
(***************************************************************************)
(* The libraries that both devices use: the framework's event queue        *)
(* (QEQueue), its time events (QTimeEvt) and its state machines (QHsm),    *)
(* the serial console (SerialApi) and the radio's driver (Mirf).           *)
(*                                                                         *)
(* A behaviour is of one of the five and leaves the others as they start,  *)
(* as none touches another's state.  Events are alike, and so are time     *)
(* events.                                                                 *)
(***************************************************************************)
EXTENDS QEQueue, TLC

CONSTANTS
  TimeEvts, null, Ticks,
  States, top, MaxDepth,
  InSize, OutSize, ErrorLength, Lengths, Chars, MaxInput,
  RxFifoSize, MaxPackets

VARIABLES
  component,  \* which of the five
  time_head, m_next, m_ctr, m_interval, refCtr_, cursor, posted, before,
  super, m_state, stable, hsm_failed, active, last,
  available, in_index, out_index, failing_to_write, reading, typed, printed, flooded,
  unit, at, changing, PTX, prim_rx, rx_dr, tx_ds, max_rt, rx_fifo, tx_fifo, arrived, stale

Time == INSTANCE QTimeEvt WITH head <- time_head
Hsm == INSTANCE QHsm WITH failed <- hsm_failed
Console == INSTANCE SerialApi
Radio == INSTANCE Mirf

timeVars == <<time_head, m_next, m_ctr, m_interval, refCtr_, cursor, posted, before>>
hsmVars == <<super, m_state, stable, hsm_failed, active, last>>
consoleVars == <<available, in_index, out_index, failing_to_write, reading, typed, printed,
                 flooded>>
radioVars == <<unit, at, changing, PTX, prim_rx, rx_dr, tx_ds, max_rt, rx_fifo, tx_fifo,
               arrived, stale>>

LibrariesAssumption ==
  Time!TimeAssumption /\ Hsm!HsmAssumption /\ Console!ConsoleAssumption /\ Radio!MirfAssumption

ASSUME MCAssumption == LibrariesAssumption

Symmetry == Permutations(Evts) \cup Permutations(TimeEvts)

-----------------------------------------------------------------------------

\* Where no state machine runs there is one tree of states, as good as any, and
\* where no radio runs one device.
MCInit ==
  /\ component \in {"queue", "time events", "dispatch", "console", "radio"}
  /\ Init /\ Time!Init /\ Hsm!Init /\ Console!Init /\ Radio!Init
  /\ component # "dispatch" => super = [s \in States |-> top]
  /\ component # "radio" => unit = "Txr"

Of(c, Step, others) == component = c /\ Step /\ UNCHANGED <<component, others>>

MCNext ==
  \/ Of("queue", Next, <<timeVars, hsmVars, consoleVars, radioVars>>)
  \/ Of("time events", Time!Next, <<vars, hsmVars, consoleVars, radioVars>>)
  \/ Of("dispatch", Hsm!Next, <<vars, timeVars, consoleVars, radioVars>>)
  \/ Of("console", Console!Next, <<vars, timeVars, hsmVars, radioVars>>)
  \/ Of("radio", Radio!Next, <<vars, timeVars, hsmVars, consoleVars>>)

MCSpec == MCInit /\ [][MCNext]_<<component, vars, timeVars, hsmVars, consoleVars, radioVars>>

-----------------------------------------------------------------------------
(* The properties of the components that are instantiated.                 *)

\* The types; the indices of the console stay in its buffers, the reference
\* count of a time event is the number of its links, an armed one is linked, and
\* the list ends (qp.cpp:1587).
LibrariesTypeOK ==
  TypeOK /\ Time!TypeOK /\ Time!Linked /\ Hsm!TypeOK /\ Console!TypeOK /\ Radio!TypeOK

\* The list that the interrupt walks posts what it should (qp_port.h:1886).
TimersSpec == Time!TimersSpec

\* A transition exits and enters what it should, in order (qp.cpp:243).
ExitsAndEntries == Hsm!ExitsAndEntries

\* The console's input is what was typed and its output what was printed, as far
\* as the buffers take it (serial_api.cpp:32).
BuffersKept == Console!BuffersKept

\* The radio listens between calls, reads what nobody sent only after it has been
\* told to forget, and leaves nothing behind (Mirf.cpp:133).
DriverKept == Radio!DriverKept

=============================================================================
