------------------------------- MODULE Timers -------------------------------
(***************************************************************************)
(* What time events promise (libraries/qp/qp_port.h:1886): one that is     *)
(* armed is posted once after its ticks, or every so many ticks, until it  *)
(* is disarmed, and a tick posts no other.                                 *)
(***************************************************************************)
EXTENDS Integers

CONSTANTS TimeEvts, Ticks

VARIABLES
  ctr,       \* the ticks left, 0 of one that is not armed
  interval,  \* 0 of one-shot time events
  posted     \* what the last tick posted

Init ==
  /\ ctr = [t \in TimeEvts |-> 0]
  /\ interval = [t \in TimeEvts |-> 0]
  /\ posted = {}

Arm ==
  \E t \in TimeEvts, n \in Ticks, i \in Ticks \cup {0} :
    /\ ctr[t] = 0
    /\ ctr' = [ctr EXCEPT ![t] = n]
    /\ interval' = [interval EXCEPT ![t] = i]
    /\ UNCHANGED posted

Disarm ==
  /\ \E t \in TimeEvts : ctr' = [ctr EXCEPT ![t] = 0]
  /\ UNCHANGED <<interval, posted>>

Tick ==
  /\ posted' = {t \in TimeEvts : ctr[t] = 1}
  /\ ctr' = [t \in TimeEvts |->
               IF t \in posted' THEN interval[t] ELSE IF ctr[t] = 0 THEN 0 ELSE ctr[t] - 1]
  /\ UNCHANGED interval

Next == Arm \/ Disarm \/ Tick

Spec == Init /\ [][Next]_<<ctr, interval, posted>>

=============================================================================
