------------------------------- MODULE QEQueue -------------------------------
(***************************************************************************)
(* The event queue of the framework (libraries/qp/qp.cpp): a front event   *)
(* and a ring that is filled and emptied downwards.  QActive::postFIFO,    *)
(* postLIFO and get_ are the same code as QEQueue's.  Each runs within a   *)
(* critical section, so it is one action; the interrupt and the loop call  *)
(* them in any order.                                                      *)
(***************************************************************************)
EXTENDS Naturals, Sequences

CONSTANTS
  Evts,    \* the events
  NoEvt,   \* the null pointer
  End      \* qLen, the length of the ring

ASSUME QueueAssumption ==
  /\ End \in Nat
  /\ NoEvt \notin Evts

VARIABLES
  front,    \* m_frontEvt
  ring,     \* m_ring
  head,     \* m_head, where the next event goes
  tail,     \* m_tail, where the next event comes from
  nFree,    \* m_nFree
  nMin,     \* m_nMin
  got,      \* what get has returned
  failed    \* the assertion of a post has failed

vars == <<front, ring, head, tail, nFree, nMin, got, failed>>

TypeOK ==
  /\ front \in Evts \cup {NoEvt}
  /\ ring \in [0..(End - 1) -> Evts \cup {NoEvt}]
  /\ head \in 0..End /\ (End > 0 => head < End)
  /\ tail \in 0..End /\ (End > 0 => tail < End)
  /\ nFree \in 0..End
  /\ nMin \in 0..End
  /\ got \in Evts \cup {NoEvt}
  /\ failed \in BOOLEAN

\* QEQueue::init
Init ==
  /\ front = NoEvt
  /\ ring = [i \in 0..(End - 1) |-> NoEvt]
  /\ head = 0 /\ tail = 0
  /\ nFree = End /\ nMin = End
  /\ got = NoEvt
  /\ failed = FALSE

\* (Mutants) The index is not wrapped, as an octet; the wrap is one short.
DownUnwrapped(i) == (i + 255) % 256

DownShort(i) == IF i = 0 THEN End - 2 ELSE i - 1

\* The next slot of the ring: to m_end when it is 0, and one down.
Down(i) == IF i = 0 THEN End - 1 ELSE i - 1

Up(i) == IF i + 1 = End THEN 0 ELSE i + 1

\* The counting that both posts do.
TakeRoom ==
  /\ nFree' = nFree - 1
  /\ nMin' = IF nMin > nFree - 1 THEN nFree - 1 ELSE nMin

Post(e) == ~failed /\ UNCHANGED <<got, failed>>

\* An empty queue is delivered to directly, by either post.
PostDirect(e) ==
  /\ Post(e)
  /\ front = NoEvt
  /\ front' = e
  /\ UNCHANGED <<ring, head, tail, nFree, nMin>>

PostFIFO(e) ==
  /\ Post(e)
  /\ front # NoEvt
  /\ nFree # 0
  /\ ring' = [ring EXCEPT ![head] = e]
  /\ head' = Down(head)
  /\ TakeRoom
  /\ UNCHANGED <<front, tail>>

\* (Mutant) The new event goes behind the front event.
PostLIFOBehind(e) ==
  /\ Post(e)
  /\ front # NoEvt
  /\ nFree # 0
  /\ tail' = Up(tail)
  /\ ring' = [ring EXCEPT ![Up(tail)] = e]
  /\ TakeRoom
  /\ UNCHANGED <<front, head>>

PostLIFO(e) ==
  /\ Post(e)
  /\ front # NoEvt
  /\ nFree # 0
  /\ tail' = Up(tail)
  /\ ring' = [ring EXCEPT ![Up(tail)] = front]
  /\ front' = e
  /\ TakeRoom
  /\ UNCHANGED head

\* The assertion of either post.
Overflow ==
  /\ ~failed
  /\ front # NoEvt
  /\ nFree = 0
  /\ failed' = TRUE
  /\ UNCHANGED <<front, ring, head, tail, nFree, nMin, got>>

Get ==
  /\ ~failed
  /\ got' = front
  /\ IF nFree # End
     THEN /\ front' = ring[tail]
          /\ tail' = Down(tail)
          /\ nFree' = nFree + 1
     ELSE /\ front' = NoEvt
          /\ UNCHANGED <<tail, nFree>>
  /\ UNCHANGED <<ring, head, nMin, failed>>

\* Q_onAssert restarts the program, whose start initialises the queue.
Reset ==
  /\ failed
  /\ front' = NoEvt
  /\ ring' = [i \in 0..(End - 1) |-> NoEvt]
  /\ head' = 0 /\ tail' = 0
  /\ nFree' = End /\ nMin' = End
  /\ got' = NoEvt
  /\ failed' = FALSE

Next ==
  \/ \E e \in Evts : PostDirect(e) \/ PostFIFO(e) \/ PostLIFO(e)
  \/ Overflow \/ Get \/ Reset

Spec == Init /\ [][Next]_vars

-----------------------------------------------------------------------------
(* Properties.                                                             *)

\* The slot i places behind slot t.
Slot(t, i) == IF i <= t THEN t - i ELSE t + End - i

Used == End - nFree

\* The two indices and the count agree, and the ring is used only behind a
\* front event (qp.cpp:680, 724: what get tests to see whether it is empty).
RingOK ==
  /\ head = Slot(tail, Used)
  /\ front = NoEvt => Used = 0
  /\ \A i \in 0..(End - 1) : i < Used => ring[Slot(tail, i)] # NoEvt

\* The events in the queue, the next one first.
Events ==
  [i \in 1..(IF front = NoEvt THEN 0 ELSE Used + 1) |->
     IF i = 1 THEN front ELSE ring[Slot(tail, i - 2)]]

Q == INSTANCE BoundedQueue WITH Capacity <- End, queue <- Events, margin <- nMin

\* The ring is a queue: nothing is lost, doubled or overtaken, however the two
\* posts and get follow each other around its end (qp.cpp:689, 796, 724).
QueueSpec == Q!Spec

=============================================================================
