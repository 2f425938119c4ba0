----------------------------- MODULE BoundedQueue -----------------------------
(***************************************************************************)
(* What an event queue of the framework promises (libraries/qp/qp.cpp): a  *)
(* sequence of at most Capacity + 1 events, posted at either end and taken *)
(* in order; a post to a full queue fails an assertion, and nothing else   *)
(* does; `margin` is the least room there has ever been.                   *)
(***************************************************************************)
EXTENDS Naturals, Sequences

CONSTANTS
  Evts,       \* the events
  NoEvt,      \* the null pointer
  Capacity    \* the length of the ring behind the front event

VARIABLES queue, margin, got, failed

vars == <<queue, margin, got, failed>>

Full == Len(queue) = Capacity + 1

Init ==
  /\ queue = <<>>
  /\ margin = Capacity
  /\ got = NoEvt
  /\ failed = FALSE

\* The room left once the queue has become q, if that is less than ever.
Margin(q) == IF Capacity + 1 - Len(q) < margin THEN Capacity + 1 - Len(q) ELSE margin

Accept(q) ==
  /\ ~Full
  /\ queue' = q
  /\ margin' = Margin(q)
  /\ UNCHANGED <<got, failed>>

Post == \E e \in Evts : Accept(Append(queue, e)) \/ Accept(<<e>> \o queue)

Refuse ==
  /\ Full
  /\ failed' = TRUE
  /\ UNCHANGED <<queue, margin, got>>

Take ==
  /\ IF queue = <<>> THEN got' = NoEvt /\ UNCHANGED queue
     ELSE got' = Head(queue) /\ queue' = Tail(queue)
  /\ UNCHANGED <<margin, failed>>

Reset ==
  /\ failed
  /\ queue' = <<>> /\ margin' = Capacity /\ got' = NoEvt /\ failed' = FALSE

Next == (~failed /\ (Post \/ Refuse \/ Take)) \/ Reset

Spec == Init /\ [][Next]_vars

=============================================================================
