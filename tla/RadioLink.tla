------------------------------ MODULE RadioLink ------------------------------
(***************************************************************************)
(* The radio link: the hand unit's ring of messages (Txr/radio.cpp) with   *)
(* what is put into it (Txr/ao_Txr.cpp, Txr/serial_api.cpp), the chips,    *)
(* and the motor unit's handling of what arrives (Rxr/radio.cpp).          *)
(*                                                                         *)
(* The hand unit sends one packet and waits until the chip has got the     *)
(* acknowledgement or has given up (Mirf::isSending).  Either way it goes  *)
(* on: nothing is sent again but the settings, four times a second.  A     *)
(* packet is delivered once, in order, or lost; both units restart.        *)
(* Nothing keeps the ring from overflowing: its write index then passes    *)
(* the read index, and all that was in it is gone.                         *)
(*                                                                         *)
(* A setting is what is sent for it, of the acceleration a quarter; the    *)
(* motor unit's are those it has got, which its controller then clamps.    *)
(* A target carries a stamp, which no packet of the code has.              *)
(***************************************************************************)
EXTENDS Naturals, Sequences

CONSTANTS
  RingSize,    \* RADIO_OUT_BUFFER_SIZE
  FifoSize,    \* packets the receiving chip holds
  Positions,   \* what targets are sent
  SettingSeq,  \* max_speed, accel and current_level, in the order they are sent
  ReloadSeq,   \* the same, in the order SERIAL_RELOAD_CONFIG sends them
  Values,      \* of the settings
  DefaultValue,\* the motor unit's own, after a restart
  MaxSteps     \* turns of the wheel, changes, commands, restarts (a bound)

Settings == {SettingSeq[i] : i \in DOMAIN SettingSeq}

ASSUME LinkAssumption ==
  /\ RingSize \in Nat \ {0, 1}
  /\ FifoSize \in Nat \ {0}
  /\ 0 \in Positions
  /\ SettingSeq \in Seq(Settings) /\ Len(SettingSeq) < RingSize
  /\ ReloadSeq \in Seq(Settings) /\ Len(ReloadSeq) < RingSize
  /\ DefaultValue \in Values
  /\ MaxSteps \in Nat

VARIABLES
  pos,          \* cur_pos_
  calibrating,  \* in uncalibrated or flashing
  values,       \* the settings of the hand unit
  ring, read_index, write_index,   \* radio_state of the hand unit
  fifo,         \* the receiving chip's packets
  rx,           \* the motor unit: initialised, target, settings
  stamp,        \* the targets queued so far
  sent,         \* the newest target queued
  intact,       \* the newest target has not been lost, nor the motor unit
                \* restarted or given another one
  steps         \* the bounded steps that are left

txVars == <<pos, calibrating, values>>
ringVars == <<ring, read_index, write_index>>
markVars == <<stamp, sent>>
vars == <<txVars, ringVars, fifo, rx, markVars, intact, steps>>

ReInit == [type |-> "RE_INIT_POSITION"]
Query == [type |-> "GET"]
TargetSet(p, n) == [type |-> "TARGET_POSITION_SET", val |-> p, stamp |-> n]
SettingSet(k, v) == [type |-> "SETTING_SET", key |-> k, val |-> v]

Packets ==
  {ReInit, Query}
    \cup {TargetSet(p, n) : p \in Positions, n \in 0..MaxSteps}
    \cup {SettingSet(k, v) : k \in Settings, v \in Values}

NoPacket == [type |-> "none"]

\* The motor unit as controller_init leaves it.
RxStart == [initialised |-> FALSE, target |-> 0, stamp |-> 0,
            values |-> [k \in Settings |-> DefaultValue]]

TypeOK ==
  /\ pos \in Positions
  /\ calibrating \in BOOLEAN
  /\ values \in [Settings -> Values]
  /\ ring \in [0..(RingSize - 1) -> Packets \cup {NoPacket}]
  /\ read_index \in 0..(RingSize - 1)
  /\ write_index \in 0..(RingSize - 1)
  /\ fifo \in Seq(Packets) /\ Len(fifo) <= FifoSize
  /\ rx \in [initialised : BOOLEAN, target : Positions, stamp : 0..MaxSteps,
             values : [Settings -> Values]]
  /\ stamp \in 0..MaxSteps
  /\ sent \in Positions
  /\ intact \in BOOLEAN
  /\ steps \in 0..MaxSteps

Init ==
  /\ pos = 0 /\ calibrating = FALSE
  /\ values \in [Settings -> Values]
  /\ ring = [i \in 0..(RingSize - 1) |-> NoPacket]
  /\ read_index = 0 /\ write_index = 0
  /\ fifo = <<>>
  /\ rx = RxStart
  /\ stamp = 0 /\ sent = 0
  /\ intact = FALSE
  /\ steps = MaxSteps

-----------------------------------------------------------------------------
(* The ring.                                                               *)

Backlog == (write_index + RingSize - read_index) % RingSize

\* The packets in the ring, the next to be sent first.
Queued == [i \in 1..Backlog |-> ring[(read_index + i - 1) % RingSize]]

\* Whether n more packets leave those in the ring where they are.
Room(n) == Backlog + n < RingSize

\* radio_queue_message for each packet; nothing tests whether there is room.
QueueMessages(packets) ==
  /\ ring' = [i \in 0..(RingSize - 1) |->
                LET n == ((i + RingSize - write_index) % RingSize) + 1
                IN  IF n <= Len(packets) THEN packets[n] ELSE ring[i]]
  /\ write_index' = (write_index + Len(packets)) % RingSize
  /\ UNCHANGED read_index

\* Packets that are no targets.
QueueOthers(packets) ==
  /\ QueueMessages(packets)
  /\ intact' = (intact /\ Room(Len(packets)))
  /\ UNCHANGED markVars

QueueTarget(p) ==
  /\ QueueMessages(<<TargetSet(p, stamp + 1)>>)
  /\ stamp' = stamp + 1
  /\ sent' = p
  /\ intact' = Room(1)

\* What is sent for the settings in seq.
SettingPackets(seq) == [i \in DOMAIN seq |-> SettingSet(seq[i], values[seq[i]])]

Step == steps > 0 /\ steps' = steps - 1

-----------------------------------------------------------------------------
(* The hand unit.                                                          *)

\* The wheel, the slider or a saved position gives another position.
Move ==
  /\ Step
  /\ \E p \in Positions \ {pos} : pos' = p /\ QueueTarget(p)
  /\ UNCHANGED <<calibrating, values, fifo, rx>>

\* Entering play_back_mode sends the position again.
PlayBack ==
  /\ Step
  /\ ~calibrating
  /\ QueueTarget(pos)
  /\ UNCHANGED <<txVars, fifo, rx>>

\* Entering uncalibrated: the position is 0 from here on.
Calibrate ==
  /\ Step
  /\ calibrating' = TRUE
  /\ pos' = 0
  /\ QueueMessages(<<ReInit>>)
  /\ intact' = FALSE
  /\ UNCHANGED <<values, fifo, rx, markVars>>

\* The second calibration press, and the wait that follows.
Calibrated ==
  /\ calibrating
  /\ calibrating' = FALSE
  /\ UNCHANGED <<pos, values, ringVars, fifo, rx, markVars, intact, steps>>

\* The wheel, another preset or a reset to the defaults.
ChangeSetting ==
  /\ Step
  /\ \E k \in Settings, v \in Values :
       values[k] # v /\ values' = [values EXCEPT ![k] = v]
  /\ UNCHANGED <<pos, calibrating, ringVars, fifo, rx, markVars, intact>>

\* (Mutant) The last of the settings is not sent.
SpeedAndAccelTimeoutShort ==
  /\ QueueOthers(SettingPackets(SubSeq(SettingSeq, 1, Len(SettingSeq) - 1)))
  /\ UNCHANGED <<txVars, fifo, rx, steps>>

\* SPEED_AND_ACCEL_TIMEOUT_SIG, four times a second.
SpeedAndAccelTimeout ==
  /\ QueueOthers(SettingPackets(SettingSeq))
  /\ UNCHANGED <<txVars, fifo, rx, steps>>

\* SERIAL_MAX_SPEED_SET, SERIAL_ACCEL_SET and SERIAL_CURRENT_LEVEL_SET send what
\* was typed, and keep what comes of it: of an acceleration, its rounding.
SerialSetting ==
  /\ Step
  /\ \E k \in Settings, v, kept \in Values :
       QueueOthers(<<SettingSet(k, v)>>) /\ values' = [values EXCEPT ![k] = kept]
  /\ UNCHANGED <<pos, calibrating, fifo, rx>>

\* SERIAL_RELOAD_CONFIG.
SerialReload ==
  /\ Step
  /\ QueueOthers(SettingPackets(ReloadSeq))
  /\ UNCHANGED <<txVars, fifo, rx>>

\* What asks the motor unit for something: its version, role, channel or target.
SerialQuery ==
  /\ Step
  /\ QueueOthers(<<Query>>)
  /\ UNCHANGED <<txVars, fifo, rx>>

\* SERIAL_TARGET_POSITION_SET: cur_pos_ is not told.
SerialTarget ==
  /\ Step
  /\ \E p \in Positions : QueueTarget(p)
  /\ UNCHANGED <<txVars, fifo, rx>>

\* (Mutant) The index is not wrapped.
DequeueUnwrapped ==
  /\ Backlog > 0
  /\ read_index' = read_index + 1
  /\ UNCHANGED <<ring, write_index, txVars, rx, markVars, steps>>

\* radio_run: the packet leaves the ring whether it arrives or not.
Dequeue ==
  /\ Backlog > 0
  /\ read_index' = (read_index + 1) % RingSize
  /\ UNCHANGED <<ring, write_index, txVars, rx, markVars, steps>>

Deliver ==
  /\ Dequeue
  /\ Len(fifo) < FifoSize
  /\ fifo' = Append(fifo, ring[read_index])
  /\ UNCHANGED intact

\* MAX_RT: no acknowledgement, or the receiving chip is full.
Lose ==
  /\ Dequeue
  /\ LET p == ring[read_index]
     IN  intact' = (intact /\ ~(p.type = "TARGET_POSITION_SET" /\ p.stamp = stamp))
  /\ UNCHANGED fifo

StartRing(packets) ==
  /\ ring' = [i \in 0..(RingSize - 1) |-> IF i < Len(packets) THEN packets[i + 1] ELSE NoPacket]
  /\ read_index' = 0
  /\ write_index' = Len(packets)

\* Txr::initial: into calibration, or into the mode the lever selects with the
\* calibration that was stored.
TxRestart ==
  /\ Step
  /\ values' \in [Settings -> Values]
  /\ \/ /\ calibrating' = TRUE /\ pos' = 0
        /\ StartRing(<<ReInit>>)
        /\ intact' = FALSE
        /\ UNCHANGED markVars
     \/ /\ calibrating' = FALSE
        /\ pos' \in Positions
        /\ \/ StartRing(<<>>) /\ intact' = FALSE /\ UNCHANGED markVars
           \/ /\ StartRing(<<TargetSet(pos', stamp + 1)>>)
              /\ stamp' = stamp + 1 /\ sent' = pos' /\ intact' = TRUE
  /\ UNCHANGED <<fifo, rx>>

-----------------------------------------------------------------------------
(* The motor unit.                                                         *)

\* (Mutant) A target of an uninitialised unit is ignored.
ProcessedIgnoring(p) ==
  CASE p.type = "SETTING_SET" -> [rx EXCEPT !.values[p.key] = p.val]
    [] p.type = "RE_INIT_POSITION" -> [rx EXCEPT !.initialised = FALSE]
    [] p.type = "GET" -> rx
    [] OTHER -> IF rx.initialised THEN [rx EXCEPT !.target = p.val, !.stamp = p.stamp]
                ELSE [rx EXCEPT !.initialised = TRUE, !.stamp = p.stamp]

\* _process_packet: the first target says where the motor is, the others are
\* moves; either way it is the target from then on.  What is asked for is queued,
\* and never sent (_send_radio_packet is empty).
Processed(p) ==
  CASE p.type = "SETTING_SET" -> [rx EXCEPT !.values[p.key] = p.val]
    [] p.type = "RE_INIT_POSITION" -> [rx EXCEPT !.initialised = FALSE]
    [] p.type = "GET" -> rx
    [] OTHER -> [rx EXCEPT !.initialised = TRUE, !.target = p.val, !.stamp = p.stamp]

\* (Mutant) radio_run takes the packet that came last.
ReceiveLast ==
  /\ fifo # <<>>
  /\ rx' = Processed(fifo[Len(fifo)])
  /\ fifo' = SubSeq(fifo, 1, Len(fifo) - 1)
  /\ UNCHANGED <<txVars, ringVars, markVars, intact, steps>>

\* radio_run of the motor unit.
Receive ==
  /\ fifo # <<>>
  /\ rx' = Processed(Head(fifo))
  /\ fifo' = Tail(fifo)
  /\ UNCHANGED <<txVars, ringVars, markVars, intact, steps>>

\* The console of the motor unit: a setting, or a target that the hand unit does
\* not know of.
RxSerial ==
  /\ Step
  /\ \/ /\ \E k \in Settings, v \in Values : rx' = [rx EXCEPT !.values[k] = v]
        /\ UNCHANGED intact
     \/ /\ \E p \in Positions : rx' = [rx EXCEPT !.initialised = TRUE, !.target = p]
        /\ intact' = FALSE
  /\ UNCHANGED <<txVars, ringVars, fifo, markVars>>

\* setup: the chip's packets are flushed, and nothing is remembered.
RxRestart ==
  /\ Step
  /\ fifo' = <<>>
  /\ rx' = [RxStart EXCEPT !.stamp = rx.stamp]
  /\ intact' = FALSE
  /\ UNCHANGED <<txVars, ringVars, markVars>>

\* radio_set_channel of the motor unit, to the channel it has or another and back.
RxSetChannel ==
  /\ Step
  /\ fifo' = <<>>
  /\ intact' = FALSE
  /\ UNCHANGED <<txVars, ringVars, rx, markVars>>

Others ==
  \/ Move \/ PlayBack \/ Calibrate \/ Calibrated \/ ChangeSetting
  \/ SerialSetting \/ SerialReload \/ SerialQuery \/ SerialTarget
  \/ TxRestart \/ Receive \/ RxSerial \/ RxRestart \/ RxSetChannel

Next == Others \/ SpeedAndAccelTimeout \/ Deliver \/ Lose

Spec == Init /\ [][Next]_vars

\* For what must happen: the motor unit's loop reads the chip faster than packets
\* can come, and what is lost is lost in the air; and the hand unit's sends more
\* in the quarter of a second between two timeouts than they queue.
LoseInAir == Lose /\ Len(fifo) < FifoSize
TimelyTimeout == SpeedAndAccelTimeout /\ Room(Len(SettingSeq))

TimelyNext == Others \/ TimelyTimeout \/ Deliver \/ LoseInAir

DeliverSetting(k) == Deliver /\ ring[read_index].type = "SETTING_SET" /\ ring[read_index].key = k

\* The loop of either unit goes on, the timeout comes again, and no setting is
\* lost for ever.
FairSpec ==
  /\ Init /\ [][TimelyNext]_vars
  /\ WF_vars(Deliver \/ LoseInAir)
  /\ WF_vars(Receive)
  /\ WF_vars(TimelyTimeout)
  /\ \A k \in Settings : SF_vars(DeliverSetting(k))

-----------------------------------------------------------------------------
(* Properties.                                                             *)

Drained ==
  /\ \A i \in 1..Backlog : Queued[i].type # "TARGET_POSITION_SET"
  /\ \A i \in 1..Len(fifo) : fifo[i].type # "TARGET_POSITION_SET"

\* Once the ring and the chip hold no target, the motor unit's target is the
\* newest that was queued, unless that one packet was lost on the way or in an
\* overflow, or the motor unit restarted, changed channel or was given another by
\* its own console since: no older one follows it (radio.cpp:74, Rxr/radio.cpp:256).
TargetArrives == Drained /\ intact => rx.initialised /\ rx.target = sent

\* No target is executed after a newer one, across restarts of either unit and
\* overflows of the ring (radio.cpp:51).
InOrder == [][rx'.stamp >= rx.stamp]_vars

\* The motor unit has in the end got the hand unit's settings, whatever was lost,
\* restarted or typed on the way (ao_Txr.cpp:390).
SettingsConverge == <>[](rx.values = values)

=============================================================================
