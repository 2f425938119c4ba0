-------------------------------- MODULE Mirf --------------------------------
(***************************************************************************)
(* The radio's driver (Mirf.cpp) under radio_run and radio_set_channel of  *)
(* either device, with the chip beside it, which receives and sends        *)
(* between any two commands, but nothing while CE is low: what is done     *)
(* with CE low is one step.                                                *)
(*                                                                         *)
(* A device may be reset at any time.  The chip keeps its power and state. *)
(***************************************************************************)
EXTENDS Naturals, Sequences

CONSTANTS
  RxFifoSize,   \* packets the chip can hold
  MaxPackets    \* packets that arrive (a bound)

MirfAssumption == RxFifoSize \in Nat /\ MaxPackets \in Nat

VARIABLES
  unit,      \* the device: only the hand unit, Txr, sends
  at,        \* the command of the driver that is next; "loop" between calls
  changing,  \* in the loop of radio_set_channel that reads what is left
  PTX,       \* the driver's: a packet is being sent
  prim_rx,   \* CONFIG
  rx_dr, tx_ds, max_rt,   \* STATUS
  rx_fifo, tx_fifo,
  arrived,   \* how many packets have been received
  stale      \* RX_DR may stand for packets that are gone

loopVars == <<at, changing, PTX>>
rxVars == <<rx_dr, rx_fifo, arrived>>
txVars == <<prim_rx, tx_ds, max_rt, tx_fifo>>
vars == <<unit, loopVars, rxVars, txVars, stale>>

TypeOK ==
  /\ unit \in {"Txr", "Rxr"}
  /\ at \in {"loop", "check", "read", "clear", "config", "flush", "sending", "sent"}
  /\ changing \in BOOLEAN /\ PTX \in BOOLEAN /\ prim_rx \in BOOLEAN
  /\ rx_dr \in BOOLEAN /\ tx_ds \in BOOLEAN /\ max_rt \in BOOLEAN
  /\ rx_fifo \in Seq(1..MaxPackets) /\ Len(rx_fifo) <= RxFifoSize
  /\ tx_fifo \in {"none", "packet", "given up"}
  /\ arrived \in 0..MaxPackets
  /\ stale \in BOOLEAN

\* radio_init ends with radio_set_channel, in which only the hand unit first
\* reads what is left.
Starting(u, where, reading) ==
  IF u = "Txr" THEN where = "loop" /\ reading ELSE where = "config" /\ ~reading

Init ==
  /\ unit \in {"Txr", "Rxr"}
  /\ at \in {"loop", "config"} /\ changing \in BOOLEAN
  /\ Starting(unit, at, changing)
  /\ PTX = FALSE /\ prim_rx = FALSE
  /\ rx_dr = FALSE /\ tx_ds = FALSE /\ max_rt = FALSE
  /\ rx_fifo = <<>> /\ tx_fifo = "none"
  /\ arrived = 0 /\ stale = FALSE

-----------------------------------------------------------------------------
(* The chip.                                                               *)

Arrive ==
  /\ prim_rx
  /\ Len(rx_fifo) < RxFifoSize /\ arrived < MaxPackets
  /\ arrived' = arrived + 1
  /\ rx_fifo' = Append(rx_fifo, arrived')
  /\ rx_dr' = TRUE
  /\ UNCHANGED <<unit, loopVars, txVars, stale>>

\* The packet is acknowledged, or has been repeated as often as the chip does;
\* until that is cleared it sends nothing more.
Transmit ==
  /\ ~prim_rx /\ tx_fifo # "none" /\ ~max_rt
  /\ \/ tx_ds' = TRUE /\ tx_fifo' = "none" /\ UNCHANGED max_rt
     \/ max_rt' = TRUE /\ tx_fifo' = "given up" /\ UNCHANGED tx_ds
  /\ UNCHANGED <<unit, loopVars, rxVars, prim_rx, stale>>

-----------------------------------------------------------------------------
(* Receiving: _get_radio_packet.                                           *)

\* (Mutant) The packets in the receiver are not looked at.
DataReadyByStatus ==
  /\ at = "loop" /\ ~PTX
  /\ \/ rx_dr /\ at' = "read" /\ UNCHANGED changing
     \/ ~rx_dr /\ at' = (IF changing THEN "config" ELSE "loop") /\ changing' = FALSE
  /\ UNCHANGED <<unit, PTX, rxVars, txVars, stale>>

\* dataReady, STATUS.
DataReady ==
  /\ at = "loop" /\ ~PTX
  /\ at' = (IF rx_dr THEN "read" ELSE "check")
  /\ UNCHANGED <<unit, changing, PTX, rxVars, txVars, stale>>

\* dataReady, FIFO_STATUS.  When nothing is left radio_set_channel goes on, if
\* the channel is another.
RxFifoEmpty ==
  /\ at = "check"
  /\ \/ rx_fifo # <<>> /\ at' = "read" /\ UNCHANGED changing
     \/ rx_fifo = <<>> /\ at' = (IF changing THEN "config" ELSE "loop") /\ changing' = FALSE
  /\ UNCHANGED <<unit, PTX, rxVars, txVars, stale>>

\* getData, R_RX_PAYLOAD: from an empty receiver it is whatever the chip gives.
ReadPayload ==
  /\ at = "read"
  /\ at' = "clear"
  /\ rx_fifo' = (IF rx_fifo = <<>> THEN <<>> ELSE Tail(rx_fifo))
  /\ UNCHANGED <<unit, changing, PTX, rx_dr, arrived, txVars, stale>>

\* (Mutant) The flag of the packet that has been read is left.
ClearNothing ==
  /\ at = "clear"
  /\ at' = "loop"
  /\ stale' = FALSE
  /\ UNCHANGED <<unit, changing, PTX, rxVars, txVars>>

\* getData, STATUS: whatever has come since is no longer in the flag.
ClearDataReady ==
  /\ at = "clear"
  /\ at' = "loop"
  /\ rx_dr' = FALSE /\ stale' = FALSE
  /\ UNCHANGED <<unit, changing, PTX, rx_fifo, arrived, txVars>>

-----------------------------------------------------------------------------
(* Sending: _send_radio_packet.                                            *)

\* send: PTX is never set here, so it does not wait.
Send ==
  /\ unit = "Txr" /\ at = "loop" /\ ~changing
  /\ PTX' = TRUE /\ prim_rx' = FALSE
  /\ tx_fifo' = "packet"
  /\ at' = "sending"
  /\ UNCHANGED <<unit, changing, rxVars, tx_ds, max_rt, stale>>

\* isSending, when it is over: powerUpRx.
IsSending ==
  /\ at = "sending" /\ (tx_ds \/ max_rt)
  /\ PTX' = FALSE /\ prim_rx' = TRUE
  /\ at' = "sent"
  /\ UNCHANGED <<unit, changing, rxVars, tx_ds, max_rt, tx_fifo, stale>>

\* (Mutant) powerUpRx leaves the flag of a packet that was given up.
ClearSentOnly ==
  /\ at = "sent"
  /\ tx_ds' = FALSE
  /\ at' = "loop"
  /\ UNCHANGED <<unit, changing, PTX, rxVars, prim_rx, max_rt, tx_fifo, stale>>

\* powerUpRx, STATUS.
ClearSent ==
  /\ at = "sent"
  /\ tx_ds' = FALSE /\ max_rt' = FALSE
  /\ at' = "loop"
  /\ UNCHANGED <<unit, changing, PTX, rxVars, prim_rx, tx_fifo, stale>>

-----------------------------------------------------------------------------

\* radio_set_channel: the hand unit reads what is left, and does no more if it
\* is on that channel; the motor unit does not read.
SetChannel ==
  /\ at = "loop" /\ ~changing
  /\ IF unit = "Txr" THEN changing' = TRUE /\ UNCHANGED at
                     ELSE at' = "config" /\ UNCHANGED changing
  /\ UNCHANGED <<unit, PTX, rxVars, txVars, stale>>

\* (Mutant) config does not turn the chip to receiving.
ConfigSending ==
  /\ at = "config"
  /\ PTX' = FALSE
  /\ tx_ds' = FALSE /\ max_rt' = FALSE
  /\ at' = "flush"
  /\ UNCHANGED <<unit, changing, rxVars, prim_rx, tx_fifo, stale>>

\* config: powerUpRx.
Config ==
  /\ at = "config"
  /\ PTX' = FALSE /\ prim_rx' = TRUE
  /\ tx_ds' = FALSE /\ max_rt' = FALSE
  /\ at' = "flush"
  /\ UNCHANGED <<unit, changing, rxVars, tx_fifo, stale>>

\* config: flushRx, which leaves RX_DR as it is.
FlushRx ==
  /\ at = "flush"
  /\ rx_fifo' = <<>> /\ stale' = TRUE
  /\ at' = "loop"
  /\ UNCHANGED <<unit, changing, PTX, rx_dr, arrived, txVars>>

\* A reset: nobody waits any more for what is being sent, and a packet may have
\* been read whose flag is not cleared.
Reset ==
  /\ PTX' = FALSE
  /\ at' \in {"loop", "config"} /\ changing' \in BOOLEAN
  /\ Starting(unit, at', changing')
  /\ tx_fifo' = (IF tx_fifo = "packet" THEN "given up" ELSE tx_fifo)
  /\ stale' = (stale \/ at = "clear")
  /\ UNCHANGED <<unit, rxVars, prim_rx, tx_ds, max_rt>>

Next ==
  \/ Arrive \/ Transmit
  \/ DataReady \/ RxFifoEmpty \/ ReadPayload \/ ClearDataReady
  \/ Send \/ IsSending \/ ClearSent
  \/ SetChannel \/ Config \/ FlushRx \/ Reset

Spec == Init /\ [][Next]_vars

-----------------------------------------------------------------------------
(* Properties.                                                             *)

\* Between calls the chip receives, the last packet is sent or given up, and
\* none of its flags is left: with one left, isSending would be over before the
\* next packet is out, and the next send throws that away (Mirf.cpp:221).
Listens ==
  at = "loop" /\ ~changing
    => ~PTX /\ prim_rx /\ ~tx_ds /\ ~max_rt /\ tx_fifo # "packet"

\* A packet that nobody sent is read at most once after RX_DR has been left to
\* stand for packets that were thrown away, never otherwise (Mirf.cpp:141).
OnlyStale == at = "read" /\ rx_fifo = <<>> => stale

\* The hand unit changes to another channel only when no packet of the old one
\* is left, although RX_DR says nothing of those that came while the last was
\* read (Mirf.cpp:165).
NothingLeft == [][changing /\ ~changing' => rx_fifo = <<>>]_vars

DriverKept == [](Listens /\ OnlyStale) /\ NothingLeft

=============================================================================
