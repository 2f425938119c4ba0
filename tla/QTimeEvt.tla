------------------------------ MODULE QTimeEvt ------------------------------
(***************************************************************************)
(* The framework's time events (libraries/qp/qp.cpp): a linked list that   *)
(* QF::tick walks in the interrupt.  Disarming only clears the counter and *)
(* leaves the time event in the list until the next tick; its reference    *)
(* count says whether it is linked, so that arming it again does not link  *)
(* it twice.                                                               *)
(*                                                                         *)
(* The program arms and disarms in the loop with interrupts off, and the   *)
(* interrupt ticks from the first time event to the last before the loop   *)
(* goes on.  Posting into the queue is module QEQueue's.                   *)
(***************************************************************************)
EXTENDS Integers, FiniteSets

CONSTANTS
  TimeEvts,  \* the time events of the program
  null,      \* the null pointer
  Ticks      \* what they are armed for

TimeAssumption == null \notin TimeEvts /\ Ticks \subseteq Nat \ {0}

VARIABLES
  head,                       \* QF_timeEvtListHead_
  m_next, m_ctr, m_interval,
  refCtr_,                    \* how many times it is linked
  cursor,                     \* "idle", or t and prev of the walk
  posted,                     \* what this tick has posted, or the last
  before                      \* the counters, and what was posted, when it began

list == <<head, m_next, refCtr_>>
vars == <<list, m_ctr, m_interval, cursor, posted, before>>

Pointer == TimeEvts \cup {null}
Idle == [walking |-> FALSE, t |-> null, prev |-> null]

TypeOK ==
  /\ head \in Pointer
  /\ m_next \in [TimeEvts -> Pointer]
  /\ \A t \in TimeEvts : m_ctr[t] \in Nat
  /\ m_interval \in [TimeEvts -> Ticks \cup {0}]
  /\ refCtr_ \in [TimeEvts -> 0..1]
  /\ cursor \in [walking : BOOLEAN, t : Pointer, prev : Pointer]

Init ==
  /\ head = null
  /\ m_next = [t \in TimeEvts |-> null]
  /\ m_ctr = [t \in TimeEvts |-> 0]
  /\ m_interval = [t \in TimeEvts |-> 0]
  /\ refCtr_ = [t \in TimeEvts |-> 0]
  /\ cursor = Idle
  /\ posted = {}
  /\ before = [ctr |-> m_ctr, posted |-> {}]

Push(t) ==
  /\ m_next' = [m_next EXCEPT ![t] = head]
  /\ head' = t
  /\ refCtr_' = [refCtr_ EXCEPT ![t] = @ + 1]

-----------------------------------------------------------------------------
(* The loop.                                                               *)

\* (Mutant) A time event that is still linked is linked again.
ArmAlways ==
  /\ ~cursor.walking
  /\ \E t \in TimeEvts, n \in Ticks, i \in Ticks \cup {0} :
       /\ m_ctr[t] = 0
       /\ m_ctr' = [m_ctr EXCEPT ![t] = n]
       /\ m_interval' = [m_interval EXCEPT ![t] = i]
       /\ Push(t)
  /\ UNCHANGED <<cursor, posted, before>>

\* postIn and postEvery, which call arm_; arming an armed one fails an assertion.
Arm ==
  /\ ~cursor.walking
  /\ \E t \in TimeEvts, n \in Ticks, i \in Ticks \cup {0} :
       /\ m_ctr[t] = 0
       /\ m_ctr' = [m_ctr EXCEPT ![t] = n]
       /\ m_interval' = [m_interval EXCEPT ![t] = i]
       /\ IF refCtr_[t] = 0 THEN Push(t) ELSE UNCHANGED list
  /\ UNCHANGED <<cursor, posted, before>>

Disarm ==
  /\ ~cursor.walking
  /\ \E t \in TimeEvts : m_ctr' = [m_ctr EXCEPT ![t] = 0]
  /\ UNCHANGED <<list, m_interval, cursor, posted, before>>

-----------------------------------------------------------------------------
(* QF::tick.                                                               *)

Tick ==
  /\ ~cursor.walking
  /\ cursor' = [walking |-> TRUE, t |-> head, prev |-> null]
  /\ posted' = {}
  /\ before' = [ctr |-> m_ctr, posted |-> posted]
  /\ UNCHANGED <<list, m_ctr, m_interval>>

\* (Mutant) What is removed becomes the predecessor.
RemoveAndKeep(t) ==
  /\ IF t = head
     THEN head' = m_next[t] /\ UNCHANGED m_next
     ELSE m_next' = [m_next EXCEPT ![cursor.prev] = m_next[t]] /\ UNCHANGED head
  /\ refCtr_' = [refCtr_ EXCEPT ![t] = @ - 1]
  /\ cursor' = [cursor EXCEPT !.t = m_next[t], !.prev = t]

\* The walk goes on from the link the time event had.
Remove(t) ==
  /\ IF t = head
     THEN head' = m_next[t] /\ UNCHANGED m_next
     ELSE m_next' = [m_next EXCEPT ![cursor.prev] = m_next[t]] /\ UNCHANGED head
  /\ refCtr_' = [refCtr_ EXCEPT ![t] = @ - 1]
  /\ cursor' = [cursor EXCEPT !.t = m_next[t]]

Keep(t) ==
  /\ cursor' = [cursor EXCEPT !.t = m_next[t], !.prev = t]
  /\ UNCHANGED list

\* A disarmed one is removed.
RemoveDisarmed ==
  /\ cursor.walking /\ cursor.t # null
  /\ m_ctr[cursor.t] = 0
  /\ Remove(cursor.t)
  /\ UNCHANGED <<m_ctr, m_interval, posted, before>>

CountDown ==
  /\ cursor.walking /\ cursor.t # null
  /\ m_ctr[cursor.t] > 1
  /\ m_ctr' = [m_ctr EXCEPT ![cursor.t] = @ - 1]
  /\ Keep(cursor.t)
  /\ UNCHANGED <<m_interval, posted, before>>

\* A periodic one starts again, and a one-shot one is removed.
Expire ==
  /\ cursor.walking /\ cursor.t # null
  /\ m_ctr[cursor.t] = 1
  /\ m_ctr' = [m_ctr EXCEPT ![cursor.t] = m_interval[cursor.t]]
  /\ posted' = posted \cup {cursor.t}
  /\ IF m_interval[cursor.t] # 0 THEN Keep(cursor.t) ELSE Remove(cursor.t)
  /\ UNCHANGED <<m_interval, before>>

TickEnds ==
  /\ cursor.walking /\ cursor.t = null
  /\ cursor' = Idle
  /\ UNCHANGED <<list, m_ctr, m_interval, posted, before>>

-----------------------------------------------------------------------------

Next ==
  \/ Arm \/ Disarm
  \/ Tick \/ RemoveDisarmed \/ CountDown \/ Expire \/ TickEnds

Spec == Init /\ [][Next]_vars

-----------------------------------------------------------------------------
(* Properties.                                                             *)

Links(t) ==
  Cardinality({p \in TimeEvts : refCtr_[p] > 0 /\ m_next[p] = t}) + (IF head = t THEN 1 ELSE 0)

\* The reference count is the number of links to a time event, an armed one has
\* its link, so that no tick passes it by or counts it twice, and the list ends,
\* so that the interrupt does (qp.cpp:1811, 1587).
Linked ==
  /\ \A t \in TimeEvts : refCtr_[t] = Links(t) /\ (m_ctr[t] # 0 => refCtr_[t] = 1)
  /\ \A S \in (SUBSET TimeEvts) \ {{}} : \E t \in S : refCtr_[t] = 0 \/ m_next[t] \notin S

\* During the walk nothing has happened yet; at its end, the tick has.
P == INSTANCE Timers WITH ctr      <- IF cursor.walking THEN before.ctr ELSE m_ctr,
                          interval <- m_interval,
                          posted   <- IF cursor.walking THEN before.posted ELSE posted

\* Time events are posted when they should be (qp_port.h:1886).
TimersSpec == P!Spec

=============================================================================
