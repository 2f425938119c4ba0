--------------------------- MODULE LibrariesProofs ---------------------------
(***************************************************************************)
(* What both devices use: the ring of the event queue implements a bounded *)
(* queue for every length; the list of the time events implements ticks    *)
(* that find every armed one; the console's buffers do not disturb each    *)
(* other; and the radio's driver leaves nothing behind.                    *)
(***************************************************************************)
EXTENDS HsmProofs

-----------------------------------------------------------------------------
(* The event queue.                                                        *)


\* A full, an empty and a wrapped ring are told apart by the count.
QInv == TypeOK /\ RingOK

\* Going down and up are inverse, and stay in the ring.
LEMMA DownUp ==
  ASSUME NEW t \in Nat, t < End
  PROVE  /\ Down(t) \in Nat /\ Down(t) < End
         /\ Up(t) \in Nat /\ Up(t) < End
         /\ Down(Up(t)) = t /\ Up(Down(t)) = t
BY QueueAssumption DEF Down, Up

\* The slots behind t are in the ring, and one place behind is one slot down.
LEMMA SlotFacts ==
  ASSUME NEW t \in Nat, t < End, NEW i \in Nat, i < End
  PROVE  /\ Slot(t, i) \in 0..(End - 1)
         /\ Down(Slot(t, i)) = Slot(t, i + 1)
         /\ Slot(Down(t), i) = Slot(t, i + 1)
         /\ Slot(Up(t), i + 1) = Slot(t, i)
BY QueueAssumption DEF Down, Up, Slot

\* Two places of the ring have different slots.
LEMMA SlotInjective ==
  ASSUME NEW t \in Nat, t < End, NEW i \in Nat, i < End, NEW j \in Nat, j < End,
         Slot(t, i) = Slot(t, j)
  PROVE  i = j
BY QueueAssumption DEF Slot

\* The start: an empty ring.
LEMMA RingStart == Init => QInv
<1> SUFFICES ASSUME Init PROVE QInv
  OBVIOUS
<1> USE QueueAssumption DEF Init
<1>1. TypeOK
  <2>1. ring \in [0..(End - 1) -> Evts \cup {NoEvt}]
    OBVIOUS
  <2>2. head \in 0..End /\ (End > 0 => head < End) /\ nFree \in 0..End
    OBVIOUS
  <2>3. tail = head /\ nMin = nFree /\ got = NoEvt /\ front = NoEvt /\ failed \in BOOLEAN
    OBVIOUS
  <2> HIDE DEF Init
  <2> QED BY <2>1, <2>2, <2>3 DEF TypeOK
<1>2. RingOK BY DEF RingOK, Slot, Used
<1> QED BY <1>1, <1>2 DEF QInv

\* Every operation leaves indices, count and contents agreeing.
LEMMA RingNext == QInv /\ [Next]_vars => QInv'
<1> SUFFICES ASSUME QInv, [Next]_vars PROVE QInv'
  OBVIOUS
<1> USE QueueAssumption
<1>1. ASSUME NEW e \in Evts, PostDirect(e) PROVE QInv'
  BY <1>1 DEF PostDirect, Post, QInv, TypeOK, RingOK, Used, Slot
<1>2. ASSUME NEW e \in Evts, PostFIFO(e) PROVE QInv'
  <2> USE DEF QInv, PostFIFO, Post, TakeRoom
  <2>1. TypeOK'
    <3>1. head \in Nat /\ head < End /\ Down(head) \in Nat /\ Down(head) < End
      BY <1>2, DownUp DEF TypeOK
    <3> QED BY <1>2, <3>1 DEF TypeOK
  <2>2. Used \in Nat /\ Used < End /\ Used' = Used + 1 /\ tail \in Nat /\ tail < End
    BY <1>2 DEF TypeOK, Used
  <2>3. head' = Slot(tail, Used')
    BY <1>2, <2>2, SlotFacts DEF RingOK
  <2>4. ASSUME NEW i \in 0..(End - 1), i < Used' PROVE ring'[Slot(tail, i)] # NoEvt
    <3>1. CASE i = Used
      BY <1>2, <2>2, <3>1, SlotFacts DEF RingOK, TypeOK
    <3>2. CASE i # Used
      <4>1. i \in Nat /\ i < Used /\ i < End /\ ring[Slot(tail, i)] # NoEvt
        BY <2>2, <2>4, <3>2 DEF RingOK
      <4>2. Slot(tail, i) # head /\ Slot(tail, i) \in 0..(End - 1)
        <5>1. tail \in Nat /\ tail < End /\ head = Slot(tail, Used)
          BY <2>2 DEF RingOK
        <5>2. Slot(tail, i) # Slot(tail, Used)
          BY <2>2, <4>1, <2>4, <3>2, <5>1, SlotInjective
        <5>3. Slot(tail, i) \in 0..(End - 1)
          BY <4>1, <5>1, SlotFacts
        <5> QED BY <5>1, <5>2, <5>3
      <4> QED BY <1>2, <4>1, <4>2 DEF TypeOK
    <3> QED BY <3>1, <3>2
  <2> QED BY <1>2, <2>1, <2>2, <2>3, <2>4 DEF RingOK, Slot
<1>3. ASSUME NEW e \in Evts, PostLIFO(e) PROVE QInv'
  <2> USE DEF QInv, PostLIFO, Post, TakeRoom
  <2>1. TypeOK'
    <3>1. tail \in Nat /\ tail < End /\ Up(tail) \in Nat /\ Up(tail) < End
      BY <1>3, DownUp DEF TypeOK
    <3> QED BY <1>3, <3>1 DEF TypeOK
  <2>2. Used \in Nat /\ Used < End /\ Used' = Used + 1 /\ tail \in Nat /\ tail < End
    BY <1>3 DEF TypeOK, Used
  <2>3. head' = Slot(tail', Used')
    BY <1>3, <2>2, SlotFacts DEF RingOK
  <2>4. ASSUME NEW i \in 0..(End - 1), i < Used' PROVE ring'[Slot(tail', i)] # NoEvt
    <3>1. CASE i = 0
      <4>1. Up(tail) \in 0..(End - 1) /\ Slot(Up(tail), 0) = Up(tail)
        BY <2>2, DownUp DEF Slot
      <4> QED BY <1>3, <3>1, <4>1 DEF TypeOK
    <3>2. CASE i # 0
      <4>1. i - 1 \in Nat /\ i - 1 < Used /\ Slot(tail', i) = Slot(tail, i - 1)
        BY <1>3, <2>2, <2>4, <3>2 DEF Up, Slot
      <4>2. Slot(tail, i - 1) # Up(tail)
        BY <1>3, <2>2, <2>4, <3>2, <4>1 DEF Up, Slot
      <4> QED BY <1>3, <2>2, <4>1, <4>2, SlotFacts DEF RingOK, TypeOK
    <3> QED BY <3>1, <3>2
  <2> QED BY <1>3, <2>1, <2>2, <2>3, <2>4 DEF RingOK, Slot, TypeOK
<1>4. CASE Overflow
  BY <1>4 DEF Overflow, QInv, TypeOK, RingOK, Used, Slot
<1>5. CASE Get
  <2> USE DEF QInv, Get
  <2>1. CASE nFree # End
    <3>1. Used \in Nat \ {0} /\ Used <= End /\ Used' = Used - 1 /\ tail \in Nat /\ tail < End /\ End > 0
      BY <1>5, <2>1 DEF TypeOK, Used
    <3>2. TypeOK'
      <4>1. Down(tail) \in Nat /\ Down(tail) < End
        BY <3>1, DownUp
      <4> QED BY <1>5, <2>1, <3>1, <4>1 DEF TypeOK
    <3>3. head' = Slot(tail', Used')
      BY <1>5, <2>1, <3>1 DEF RingOK, Slot, Down
    <3>4. ASSUME NEW i \in 0..(End - 1), i < Used' PROVE ring'[Slot(tail', i)] # NoEvt
      <4>1. i + 1 \in 0..(End - 1) /\ i + 1 < Used /\ Slot(tail', i) = Slot(tail, i + 1)
        BY <1>5, <2>1, <3>1, <3>4, SlotFacts
      <4> QED BY <1>5, <2>1, <4>1 DEF RingOK
    <3>5. front' # NoEvt
      BY <1>5, <2>1, <3>1 DEF RingOK, Slot
    <3> QED BY <3>2, <3>3, <3>4, <3>5 DEF RingOK, Slot
  <2>2. CASE nFree = End
    BY <1>5, <2>2 DEF TypeOK, RingOK, Used, Slot
  <2> QED BY <2>1, <2>2
<1>6. CASE Reset
  <2>1. TypeOK'
    <3>1. ring' \in [0..(End - 1) -> Evts \cup {NoEvt}]
      BY <1>6 DEF Reset
    <3>2. head' \in 0..End /\ (End > 0 => head' < End) /\ nFree' \in 0..End
      BY <1>6 DEF Reset
    <3>3. /\ tail' = head' /\ nMin' = nFree'
          /\ got' = NoEvt /\ front' = NoEvt /\ failed' \in BOOLEAN
      BY <1>6 DEF Reset
    <3> QED BY <3>1, <3>2, <3>3 DEF TypeOK
  <2>2. RingOK' BY <1>6 DEF Reset, RingOK, Used, Slot
  <2> QED BY <2>1, <2>2 DEF QInv
<1>7. CASE UNCHANGED vars
  BY <1>7 DEF vars, QInv, TypeOK, RingOK, Used, Slot
<1> QED BY <1>1, <1>2, <1>3, <1>4, <1>5, <1>6, <1>7 DEF Next

\* The ring's invariant holds of every behaviour.
LEMMA RingInvariant == Spec => []QInv
BY RingStart, RingNext, PTL DEF Spec

\* The queue's variables keep their types, for every length of the ring.
THEOREM QueueTyped == Spec => []TypeOK
BY RingInvariant, PTL DEF QInv

\* The indices and the count agree, for every length of the ring.
THEOREM RingCorrect == Spec => []RingOK
BY RingInvariant, PTL DEF QInv

-----------------------------------------------------------------------------
(* The ring implements the queue.                                          *)

\* What Events says of its length and its elements.
Described ==
  /\ Events \in Seq(Evts)
  /\ Len(Events) = IF front = NoEvt THEN 0 ELSE Used + 1
  /\ \A i \in 1..Len(Events) :
       Events[i] = IF i = 1 THEN front ELSE ring[Slot(tail, i - 2)]

\* The events between the indices are events, and not the null pointer.
LEMMA EventsDescribed == QInv => Described
<1> SUFFICES ASSUME QInv PROVE Described
  OBVIOUS
<1> USE QueueAssumption
<1> DEFINE n == IF front = NoEvt THEN 0 ELSE Used + 1
           item(i) == IF i = 1 THEN front ELSE ring[Slot(tail, i - 2)]
<1>1. n \in Nat /\ Used \in Nat
  BY DEF QInv, TypeOK, Used
<1>2. ASSUME NEW i \in 1..n PROVE item(i) \in Evts
  <2>1. CASE i = 1
    BY <1>2, <2>1 DEF QInv, TypeOK
  <2>2. CASE i # 1
    <3>1. i - 2 \in 0..(End - 1) /\ i - 2 < Used /\ tail \in Nat /\ tail < End
      BY <1>1, <1>2, <2>2 DEF QInv, TypeOK, Used
    <3>2. Slot(tail, i - 2) \in 0..(End - 1)
      BY <3>1, SlotFacts
    <3> QED BY <2>2, <3>1, <3>2 DEF QInv, TypeOK, RingOK
  <2> QED BY <2>1, <2>2
<1>3. Events = [i \in 1..n |-> item(i)]
  BY DEF Events
<1>4. Events \in Seq(Evts) /\ Len(Events) = n /\ \A i \in 1..n : Events[i] = item(i)
  <2> HIDE DEF n, item
  <2> QED BY <1>1, <1>2, <1>3
<1> QED BY <1>4 DEF Described

\* A queue that has got an event in front: the front event, then the old ones.
LEMMA ConsEqual ==
  ASSUME NEW S, NEW s \in Seq(S), NEW t \in Seq(S), NEW e \in S,
         Len(t) = Len(s) + 1, t[1] = e,
         \A i \in 1..Len(s) : t[i + 1] = s[i]
  PROVE  t = <<e>> \o s
<1> DEFINE u == <<e>> \o s
<1>1. u \in Seq(S) /\ Len(u) = Len(s) + 1
  BY ConcatProperties
<1>2. \A i \in 1..Len(t) : t[i] = u[i]
  <2> SUFFICES ASSUME NEW i \in 1..Len(t) PROVE t[i] = u[i]
    OBVIOUS
  <2>1. CASE i = 1
    BY <2>1
  <2>2. CASE i # 1
    <3>1. i - 1 \in 1..Len(s)
      BY <2>2
    <3>2. t[(i - 1) + 1] = s[i - 1]
      BY <3>1
    <3>3. u[i] = s[i - 1]
      BY <2>2, <3>1
    <3> QED BY <3>2, <3>3
  <2> QED BY <2>1, <2>2
<1> QED BY <1>1, <1>2, SeqEqual

\* Every step of the ring is a step of the queue, or of neither.
LEMMA QueueStep == QInv /\ QInv' /\ [Next]_vars => [Q!Next]_(Q!vars)
<1> SUFFICES ASSUME QInv, QInv', [Next]_vars PROVE [Q!Next]_(Q!vars)
  OBVIOUS
<1> USE QueueAssumption
<1>1. Described
  BY EventsDescribed
<1>2. Described'
  <2>1. (QInv => Described)'
    BY EventsDescribed, PTL
  <2> QED BY <2>1
<1>3. Len(Events) \in Nat /\ Used \in 0..End /\ Used = End - nFree /\ nFree \in 0..End
  BY <1>1 DEF Described, QInv, TypeOK, Used
<1>4. ASSUME NEW e \in Evts, PostDirect(e) PROVE Q!Next
  <2> USE <1>4 DEF PostDirect, Post
  <2>1. Len(Events) = 0 /\ Len(Events') = 1 /\ Events'[1] = e
    BY <1>1, <1>2 DEF Described, QInv, RingOK, Used
  <2>2. Events' = Append(Events, e)
    BY <1>1, <1>2, <2>1, SeqEqual DEF Described
  <2>3. Q!Accept(Append(Events, e))
    BY <1>3, <2>1, <2>2 DEF Q!Accept, Q!Full, Q!Margin, QInv, TypeOK
  <2> QED BY <2>3 DEF Q!Next, Q!Post
<1>5. ASSUME NEW e \in Evts, PostFIFO(e) PROVE Q!Next
  <2> USE <1>5 DEF PostFIFO, Post, TakeRoom
  <2>1. /\ Used' = Used + 1 /\ Used < End
        /\ Len(Events) = Used + 1 /\ Len(Events') = Used + 2
        /\ tail \in Nat /\ tail < End /\ tail' = tail
    BY <1>1, <1>2, <1>3 DEF Described, Used, QInv, TypeOK
  <2>2. Events' = Append(Events, e)
    <3> DEFINE t == Append(Events, e)
    <3>1. t \in Seq(Evts) /\ Len(t) = Used + 2
      <4>1. t \in Seq(Evts) /\ Len(t) = Len(Events) + 1
        <5> HIDE <1>5 DEF PostFIFO, Post, TakeRoom
        <5> QED BY <1>1, AppendProperties DEF Described
      <4> QED BY <1>3, <2>1, <4>1
    <3>2. ASSUME NEW i \in 1..(Used + 2) PROVE Events'[i] = t[i]
      <4>1. Events'[i] = IF i = 1 THEN front ELSE ring'[Slot(tail, i - 2)]
        BY <1>2, <2>1 DEF Described
      <4>2. CASE i = Used + 2
        <5>1. Slot(tail, i - 2) = head /\ head \in 0..(End - 1) /\ i # 1
          BY <1>3, <2>1, <4>2, SlotFacts DEF QInv, RingOK
        <5>2. ring'[head] = e
          BY <5>1 DEF QInv, TypeOK
        <5>3. t[i] = e
          <6>1. i = Len(Events) + 1
            BY <1>3, <2>1, <4>2
          <6> QED BY <1>1, <6>1, AppendProperties DEF Described
        <5> QED BY <4>1, <5>1, <5>2, <5>3
      <4>3. CASE i = 1
        BY <1>1, <1>3, <2>1, <4>1, <4>3 DEF Described
      <4>4. CASE i # 1 /\ i # Used + 2
        <5>1. i - 2 \in Nat /\ i - 2 < Used /\ i - 2 < End /\ Used \in Nat
          BY <1>3, <2>1, <4>4
        <5>2. Slot(tail, i - 2) # Slot(tail, Used) /\ Slot(tail, i - 2) \in 0..(End - 1)
          BY <2>1, <5>1, SlotInjective, SlotFacts
        <5>3. ring'[Slot(tail, i - 2)] = ring[Slot(tail, i - 2)]
          BY <5>2 DEF QInv, TypeOK, RingOK
        <5>4. t[i] = Events[i] /\ Events[i] = ring[Slot(tail, i - 2)]
          BY <1>1, <1>3, <2>1, <4>4 DEF Described
        <5> QED BY <4>1, <4>4, <5>3, <5>4
      <4> QED BY <4>2, <4>3, <4>4
    <3> HIDE DEF t
    <3>3. Events' = t
      BY <1>2, <2>1, <3>1, <3>2, SeqEqual DEF Described
    <3> QED BY <3>3 DEF t
  <2>3. Q!Accept(Append(Events, e))
    <3>1. ~Q!Full /\ Len(Append(Events, e)) = Used + 2
      BY <1>3, <2>1, <2>2 DEF Q!Full
    <3>2. nMin' = Q!Margin(Append(Events, e))
      <4>1. End + 1 - (Used + 2) = nFree - 1 /\ nMin \in Nat
        BY <1>3 DEF QInv, TypeOK
      <4> QED BY <1>3, <3>1, <4>1 DEF Q!Margin
    <3> QED BY <2>2, <3>1, <3>2 DEF Q!Accept
  <2> QED BY <2>3 DEF Q!Next, Q!Post
<1>6. ASSUME NEW e \in Evts, PostLIFO(e) PROVE Q!Next
  <2> USE <1>6 DEF PostLIFO, Post, TakeRoom
  <2>1. /\ Used' = Used + 1 /\ Used < End
        /\ Len(Events) = Used + 1 /\ Len(Events') = Used + 2
        /\ tail \in Nat /\ tail < End /\ tail' = Up(tail)
    BY <1>1, <1>2, <1>3 DEF Described, Used, QInv, TypeOK
  <2>2. Events' = <<e>> \o Events
    <3>1. ASSUME NEW i \in 1..(Used + 1) PROVE Events'[i + 1] = Events[i]
      <4>1. Events'[i + 1] = ring'[Slot(Up(tail), i - 1)]
        <5>1. i + 1 \in 1..Len(Events') /\ i + 1 # 1 /\ (i + 1) - 2 = i - 1
          BY <1>3, <2>1
        <5> QED BY <1>2, <2>1, <5>1 DEF Described
      <4>2. CASE i = 1
        <5>1. Slot(Up(tail), i - 1) = Up(tail) /\ Up(tail) \in 0..(End - 1)
          BY <2>1, <4>2, DownUp DEF Slot
        <5>2. Events[i] = front
          BY <1>1, <1>3, <2>1, <4>2 DEF Described
        <5> QED BY <4>1, <5>1, <5>2 DEF QInv, TypeOK
      <4>3. CASE i # 1
        <5>1. i - 2 \in Nat /\ i - 2 < Used /\ i - 2 < End
          BY <1>3, <2>1, <4>3
        <5>2. Slot(Up(tail), i - 1) = Slot(tail, i - 2) /\ Slot(tail, i - 2) # Up(tail)
          BY <1>3, <2>1, <4>3, <5>1 DEF Slot, Up
        <5>3. Slot(tail, i - 2) \in 0..(End - 1)
          BY <2>1, <5>1, SlotFacts
        <5>4. Events[i] = ring[Slot(tail, i - 2)]
          BY <1>1, <1>3, <2>1, <4>3 DEF Described
        <5> QED BY <4>1, <5>2, <5>3, <5>4 DEF QInv, TypeOK
      <4> QED BY <4>2, <4>3
    <3>2. Events'[1] = e
      BY <1>2, <1>3, <2>1 DEF Described
    <3>3. /\ Events \in Seq(Evts) /\ Events' \in Seq(Evts)
          /\ Len(Events') = Len(Events) + 1
          /\ \A i \in 1..Len(Events) : Events'[i + 1] = Events[i]
      BY <1>1, <1>2, <1>3, <2>1, <3>1 DEF Described
    <3> HIDE <1>6 DEF PostLIFO, Post, TakeRoom
    <3> QED BY <3>2, <3>3, ConsEqual
  <2>3. Q!Accept(<<e>> \o Events)
    <3>1. ~Q!Full /\ Len(<<e>> \o Events) = Used + 2
      BY <1>3, <2>1, <2>2 DEF Q!Full
    <3>2. nMin' = Q!Margin(<<e>> \o Events)
      <4>1. End + 1 - (Used + 2) = nFree - 1 /\ nMin \in Nat
        BY <1>3 DEF QInv, TypeOK
      <4> QED BY <1>3, <3>1, <4>1 DEF Q!Margin
    <3> QED BY <2>2, <3>1, <3>2 DEF Q!Accept
  <2> QED BY <2>3 DEF Q!Next, Q!Post
<1>7. CASE Overflow
  <2> USE <1>7 DEF Overflow
  <2>1. Events' = Events /\ Len(Events) = End + 1
    BY <1>1, <1>3 DEF Described, Events, Used, Slot
  <2> QED BY <2>1 DEF Q!Next, Q!Refuse, Q!Full
<1>8. CASE Get
  <2> USE <1>8 DEF Get
  <2>1. CASE Used = 0
    <3>1. nFree = End /\ front' = NoEvt
      BY <1>3, <2>1
    <3>2. Len(Events') = 0 /\ Events' = <<>>
      BY <1>2, <3>1, EmptySeq DEF Described
    <3>3. CASE front = NoEvt
      <4>1. Events = <<>>
        BY <1>1, <3>3, EmptySeq DEF Described
      <4> QED BY <3>2, <3>3, <4>1 DEF Q!Next, Q!Take
    <3>4. CASE front # NoEvt
      <4>1. Len(Events) = 1 /\ Events # <<>> /\ Events[1] = front
        <5> HIDE <1>8 DEF Get
        <5>1. Events \in Seq(Evts) /\ Len(Events) = 1
          BY <1>1, <2>1, <3>4 DEF Described
        <5>2. Events[1] = front
          <6>1. 1 \in 1..Len(Events)
            BY <5>1
          <6> QED BY <1>1, <6>1, Zenon DEF Described
        <5>3. Events # <<>>
          BY <5>1
        <5> QED BY <5>1, <5>2, <5>3
      <4>2. Head(Events) = front
        BY <4>1
      <4>3. Tail(Events) = <<>>
        <5>1. Events \in Seq(Evts)
          BY <1>1 DEF Described
        <5>2. Tail(Events) \in Seq(Evts) /\ Len(Tail(Events)) = 0
          BY <4>1, <5>1, HeadTailProperties
        <5> QED BY <5>2, EmptySeq
      <4> QED BY <3>2, <4>1, <4>2, <4>3 DEF Q!Next, Q!Take
    <3> QED BY <3>3, <3>4
  <2>2. CASE Used # 0
    <3>1. /\ nFree # End /\ front # NoEvt /\ Used' = Used - 1
          /\ tail \in Nat /\ tail < End /\ tail' = Down(tail)
      <4>1. nFree # End /\ Used' = Used - 1
        BY <1>3, <2>2 DEF Used
      <4>2. front # NoEvt /\ tail \in Nat /\ tail < End
        BY <1>3, <2>2 DEF QInv, TypeOK, RingOK
      <4> QED BY <4>1, <4>2
    <3>2. front' = ring[tail] /\ front' # NoEvt
      BY <1>3, <2>2, <3>1 DEF QInv, RingOK, Slot
    <3>3. Len(Events) = Used + 1 /\ Len(Events') = Used /\ Events # <<>>
      BY <1>1, <1>2, <1>3, <3>1, <3>2 DEF Described
    <3>4. Head(Events) = front
      BY <1>1, <1>3, <3>3 DEF Described
    <3>5. Events' = Tail(Events)
      <4>1. Tail(Events) \in Seq(Evts) /\ Len(Tail(Events)) = Used
        BY <1>1, <1>3, <3>3, HeadTailProperties DEF Described
      <4>2. ASSUME NEW i \in 1..Used PROVE Events'[i] = Tail(Events)[i]
        <5>1. Tail(Events)[i] = Events[i + 1]
          BY <1>1, <3>3, <4>1, HeadTailProperties DEF Described
        <5>2. Events[i + 1] = ring[Slot(tail, i - 1)]
          <6>1. i + 1 \in 1..Len(Events) /\ i + 1 # 1 /\ (i + 1) - 2 = i - 1
            BY <1>3, <3>3
          <6> QED BY <1>1, <6>1 DEF Described
        <5>3. Events'[i] = IF i = 1 THEN front' ELSE ring[Slot(Down(tail), i - 2)]
          BY <1>2, <3>1, <3>3 DEF Described
        <5>4. CASE i = 1
          <6>1. Slot(tail, i - 1) = tail
            BY <3>1, <5>4 DEF Slot
          <6> QED BY <3>2, <5>1, <5>2, <5>3, <5>4, <6>1
        <5>5. CASE i # 1
          <6>1. i - 2 \in Nat /\ i - 2 < End /\ (i - 2) + 1 = i - 1
            BY <1>3, <5>5
          <6>2. Slot(Down(tail), i - 2) = Slot(tail, i - 1)
            BY <3>1, <6>1, SlotFacts
          <6> QED BY <5>1, <5>2, <5>3, <5>5, <6>2
        <5> QED BY <5>4, <5>5
      <4> QED BY <1>2, <3>3, <4>1, <4>2, SeqEqual DEF Described
    <3> QED BY <3>3, <3>4, <3>5 DEF Q!Next, Q!Take
  <2> QED BY <2>1, <2>2
<1>9. CASE Reset
  <2>1. Events' = <<>>
    BY <1>2, <1>9, EmptySeq DEF Reset, Described
  <2> QED BY <1>9, <2>1 DEF Reset, Q!Next, Q!Reset
<1>10. CASE UNCHANGED vars
  BY <1>10 DEF vars, Q!vars, Events, Used, Slot
<1> QED BY <1>4, <1>5, <1>6, <1>7, <1>8, <1>9, <1>10 DEF Next

\* The ring of the framework's queue implements a bounded queue: posts at
\* either end and takes, in order, for every length of the ring.
THEOREM QueueImplemented == Spec => QueueSpec
<1>1. Init => Q!Init
  <2> SUFFICES ASSUME Init PROVE Q!Init
    OBVIOUS
  <2>1. Events = <<>>
    BY DEF Init, Events
  <2> QED BY <2>1 DEF Init, Q!Init
<1> QED BY <1>1, RingInvariant, QueueStep, PTL DEF Spec, QueueSpec, Q!Spec

-----------------------------------------------------------------------------
(* The list of time events.                                                *)

InList == {t \in TimeEvts : refCtr_[t] = 1}

TimeTyped ==
  /\ time_head \in TimeEvts \cup {null}
  /\ m_next \in [TimeEvts -> TimeEvts \cup {null}]
  /\ m_ctr \in [TimeEvts -> Nat]
  /\ m_interval \in [TimeEvts -> Ticks \cup {0}]
  /\ refCtr_ \in [TimeEvts -> 0..1]
  /\ cursor \in [walking : BOOLEAN, t : TimeEvts \cup {null}, prev : TimeEvts \cup {null}]

\* An armed time event is in the list.
ArmedInList == \A t \in TimeEvts : m_ctr[t] # 0 => t \in InList

\* r is the place in the list, counted from its end: the head is the highest,
\* and the link leads to the next below, or nowhere from the lowest.
Places(r) ==
  /\ r \in [TimeEvts -> Nat]
  /\ \A t, u \in InList : r[t] = r[u] => t = u
  /\ IF time_head = null THEN InList = {}
     ELSE time_head \in InList /\ \A u \in InList : r[u] <= r[time_head]
  /\ \A t \in InList :
       IF m_next[t] = null THEN \A u \in InList : r[t] <= r[u]
       ELSE /\ m_next[t] \in InList /\ r[m_next[t]] < r[t]
            /\ \A u \in InList : r[u] < r[t] => r[u] <= r[m_next[t]]

\* The walk is at a time event of the list, or at its end, and knows the link
\* that leads there.
WalkInList ==
  cursor.walking =>
    /\ cursor.t \in InList \cup {null}
    /\ IF cursor.prev = null THEN cursor.t = time_head
       ELSE cursor.prev \in InList /\ m_next[cursor.prev] = cursor.t

\* Those the walk has still to come to.
Ahead(r) == {t \in InList : cursor.t # null /\ r[t] <= r[cursor.t]}

\* What a tick makes of a counter.
AfterTick(t) ==
  IF before.ctr[t] = 1 THEN m_interval[t] ELSE IF before.ctr[t] = 0 THEN 0 ELSE before.ctr[t] - 1

\* The tick has happened to those the walk has left behind, and to those that are
\* not in the list, which it does not change.
TickedBehind(r) ==
  cursor.walking =>
    /\ before.ctr \in [TimeEvts -> Nat] /\ posted \subseteq TimeEvts
    /\ \A t \in TimeEvts :
         IF t \in Ahead(r) THEN m_ctr[t] = before.ctr[t] /\ t \notin posted
         ELSE m_ctr[t] = AfterTick(t) /\ (t \in posted <=> before.ctr[t] = 1)

TimeInv ==
  /\ TimeTyped /\ ArmedInList /\ WalkInList
  /\ \E r : Places(r) /\ TickedBehind(r)

\* At first the list is empty.
LEMMA TimeStart == ASSUME LibrariesAssumption PROVE Time!Init => TimeInv
<1> SUFFICES ASSUME Time!Init PROVE TimeInv
  OBVIOUS
<1> USE DEF Time!Init
<1>1. TimeTyped /\ InList = {}
  BY DEF TimeTyped, InList, Time!Idle
<1>2. Places([t \in TimeEvts |-> 0])
  BY <1>1 DEF Places
<1>3. ~cursor.walking
  BY DEF Time!Idle
<1>4. ArmedInList
  BY DEF ArmedInList
<1>5. TickedBehind([t \in TimeEvts |-> 0]) /\ WalkInList
  BY <1>3 DEF TickedBehind, WalkInList
<1> QED
  BY <1>1, <1>2, <1>4, <1>5 DEF TimeInv

\* The walk goes on by one.
LEMMA AheadNext ==
  ASSUME LibrariesAssumption, TimeTyped,
         NEW r, Places(r), cursor.walking, cursor.t \in InList,
         cursor'.t = m_next[cursor.t],
         InList' = InList \/ InList' = InList \ {cursor.t}
  PROVE  \A u \in TimeEvts : u \in Ahead(r)' <=> u \in Ahead(r) /\ u # cursor.t
<1> DEFINE c == cursor.t
<1>1. c \in TimeEvts /\ c # null /\ null \notin TimeEvts
  BY DEF LibrariesAssumption, Time!TimeAssumption, InList
<1>2. \A u \in InList : r[u] \in Nat /\ (r[u] = r[c] => u = c)
  BY DEF Places, InList
<1>3. CASE m_next[c] = null
  <2>1. \A u \in InList : r[c] <= r[u]
    BY <1>3 DEF Places
  <2>2. Ahead(r)' = {}
    BY <1>3 DEF Ahead
  <2>3. \A u \in Ahead(r) : u = c
    <3> SUFFICES ASSUME NEW u \in InList, r[u] <= r[c] PROVE u = c
      BY DEF Ahead
    <3> QED
      BY <1>2, <2>1
  <2> QED
    BY <2>2, <2>3
<1>4. CASE m_next[c] # null
  <2> DEFINE n == m_next[c]
  <2>1. /\ n \in InList /\ r[n] < r[c]
        /\ \A u \in InList : r[u] < r[c] => r[u] <= r[n]
    BY <1>4 DEF Places
  <2>2. n \in InList'
    BY <1>2, <2>1
  <2>3. cursor'.t = n /\ n # null
    BY <1>4
  <2> HIDE DEF n, c
  <2>4. ASSUME NEW u \in TimeEvts PROVE u \in Ahead(r)' <=> u \in InList' /\ r[u] <= r[n]
    BY <2>3 DEF Ahead
  <2>5. ASSUME NEW u \in TimeEvts PROVE u \in Ahead(r) <=> u \in InList /\ r[u] <= r[c]
    BY <1>1 DEF Ahead, c
  <2>6. ASSUME NEW u \in InList PROVE r[u] <= r[n] <=> r[u] <= r[c] /\ u # c
    <3>1. r[u] \in Nat /\ r[c] \in Nat /\ r[n] \in Nat /\ r[n] < r[c]
      BY <1>2, <2>1 DEF c
    <3>2. (r[u] = r[c] <=> u = c) /\ (r[u] < r[c] => r[u] <= r[n])
      BY <1>2, <2>1
    <3> QED BY <3>1, <3>2
  <2>7. c \in InList /\ (InList' = InList \/ InList' = InList \ {c}) /\ r[c] > r[n] /\ r[n] \in Nat /\ r[c] \in Nat
    BY <1>2, <2>1 DEF c
  <2> QED
    BY <2>4, <2>5, <2>6, <2>7 DEF c
<1> QED
  BY <1>3, <1>4


\* A time event is linked in front of the others.
LEMMA PushKeeps ==
  ASSUME LibrariesAssumption, TimeTyped, NEW r, Places(r),
         NEW t \in TimeEvts, refCtr_[t] = 0, Time!Push(t)
  PROVE  InList' = InList \cup {t} /\ \E q : Places(q)'
<1>0. PICK q : q = [r EXCEPT ![t] = IF time_head = null THEN 0 ELSE r[time_head] + 1]
  OBVIOUS
<1>1. InList' = InList \cup {t} /\ t \notin InList /\ InList \subseteq TimeEvts /\ null \notin TimeEvts
  BY DEF InList, Time!Push, TimeTyped, LibrariesAssumption, Time!TimeAssumption
<1>2. r \in [TimeEvts -> Nat] /\ \A u, v \in InList : r[u] = r[v] => u = v
  BY DEF Places
<1>3. CASE time_head = null
  <2>1. InList = {} /\ InList' = {t} /\ q \in [TimeEvts -> Nat]
    BY <1>0, <1>1, <1>2, <1>3 DEF Places
  <2>2. time_head' = t /\ m_next'[t] = null /\ q[t] \in Nat /\ t # null
    BY <1>1, <1>3, <2>1 DEF Time!Push, TimeTyped
  <2>3. Places(q)'
    BY <2>1, <2>2 DEF Places
  <2> QED
    BY <1>1, <2>3
<1>4. CASE time_head # null
  <2> DEFINE h == time_head
  <2>1. h \in InList /\ h # t /\ \A u \in InList : r[u] \in Nat /\ r[u] <= r[h]
    BY <1>1, <1>2, <1>4 DEF Places
  <2>2. q \in [TimeEvts -> Nat] /\ q[t] = r[h] + 1 /\ \A u \in InList : q[u] = r[u]
    BY <1>0, <1>1, <1>2, <1>4, <2>1
  <2>3. time_head' = t /\ m_next'[t] = h /\ (\A u \in InList : m_next'[u] = m_next[u]) /\ t # null
    BY <1>1 DEF Time!Push, TimeTyped
  <2>4. \A u \in InList :
          IF m_next[u] = null THEN \A v \in InList : r[u] <= r[v]
          ELSE /\ m_next[u] \in InList /\ r[m_next[u]] < r[u]
               /\ \A v \in InList : r[v] < r[u] => r[v] <= r[m_next[u]]
    BY DEF Places
  <2> HIDE DEF h
  <2>5. \A u, v \in InList' : q[u] = q[v] => u = v
    BY <1>1, <1>2, <2>1, <2>2
  <2>6. time_head' \in InList' /\ \A u \in InList' : q[u] <= q[time_head']
    BY <1>1, <2>1, <2>2, <2>3
  <2>7. ASSUME NEW u \in InList'
        PROVE  IF m_next'[u] = null THEN \A v \in InList' : q[u] <= q[v]
               ELSE /\ m_next'[u] \in InList' /\ q[m_next'[u]] < q[u]
                    /\ \A v \in InList' : q[v] < q[u] => q[v] <= q[m_next'[u]]
    <3>1. CASE u = t
      <4>1. h # null /\ q[h] < q[t]
        BY <1>1, <2>1, <2>2
      <4>2. ASSUME NEW v \in InList', q[v] < q[t] PROVE q[v] <= q[h]
        BY <1>1, <2>1, <2>2, <4>2
      <4> QED
        BY <1>1, <2>1, <2>3, <3>1, <4>1, <4>2
    <3>2. CASE u # t /\ m_next[u] = null
      <4>1. u \in InList /\ m_next'[u] = null
        BY <1>1, <2>3, <3>2
      <4>2. ASSUME NEW v \in InList' PROVE q[u] <= q[v]
        <5>1. CASE v = t
          BY <2>1, <2>2, <4>1, <5>1
        <5>2. CASE v # t
          BY <1>1, <2>2, <2>4, <3>2, <4>1, <5>2
        <5> QED BY <5>1, <5>2
      <4> QED
        BY <4>1, <4>2
    <3>3. CASE u # t /\ m_next[u] # null
      <4> DEFINE n == m_next[u]
      <4>1. u \in InList /\ m_next'[u] = n /\ n # null /\ n \in InList /\ r[n] < r[u]
        BY <1>1, <2>3, <2>4, <3>3
      <4>2. ASSUME NEW v \in InList', q[v] < q[u] PROVE q[v] <= q[n]
        <5>1. v # t
          <6>1. q[u] <= r[h] /\ r[h] \in Nat /\ q[u] \in Nat
            BY <2>1, <2>2, <4>1
          <6> QED BY <2>2, <4>2, <6>1
        <5>2. v \in InList /\ r[v] < r[u] => r[v] <= r[n]
          BY <1>1, <2>4, <3>3, <4>1, <5>1
        <5> QED BY <1>1, <2>2, <4>1, <4>2, <5>1, <5>2
      <4>3. q[n] < q[u]
        BY <2>2, <4>1
      <4> HIDE DEF n
      <4> QED
        BY <1>1, <4>1, <4>2, <4>3
    <3> QED BY <3>1, <3>2, <3>3
  <2>8. Places(q)'
    BY <2>2, <2>3, <2>5, <2>6, <2>7 DEF Places
  <2> QED
    BY <1>1, <2>8
<1> QED
  BY <1>3, <1>4

\* A time event leaves the list: the one before it, or the head, leads on to
\* the one behind it.
LEMMA RemoveKeeps ==
  ASSUME LibrariesAssumption, TimeTyped, WalkInList, NEW r, Places(r),
         cursor.walking, cursor.t # null, Time!Remove(cursor.t)
  PROVE  InList' = InList \ {cursor.t} /\ Places(r)' /\ WalkInList'
<1> DEFINE c == cursor.t
           p == cursor.prev
           n == m_next[c]
<1>1. InList \subseteq TimeEvts /\ null \notin TimeEvts /\ c \in InList /\ c \in TimeEvts
  BY DEF InList, WalkInList, LibrariesAssumption, Time!TimeAssumption
<1>2. InList' = InList \ {c}
  BY <1>1 DEF InList, Time!Remove, TimeTyped
<1>3. /\ r \in [TimeEvts -> Nat] /\ \A u \in InList : r[u] \in Nat
      /\ \A u, v \in InList : r[u] = r[v] => u = v
  BY <1>1 DEF Places
<1>4. \A u \in InList :
        IF m_next[u] = null THEN \A v \in InList : r[u] <= r[v]
        ELSE /\ m_next[u] \in InList /\ r[m_next[u]] < r[u]
             /\ \A v \in InList : r[v] < r[u] => r[v] <= r[m_next[u]]
  BY DEF Places
<1>5. time_head \in InList /\ \A u \in InList : r[u] <= r[time_head]
  BY <1>1 DEF Places
<1>6. n \in InList' \cup {null}
  <2>1. CASE n = null
    BY <2>1
  <2>2. CASE n # null
    <3>1. n \in InList /\ r[n] < r[c]
      BY <1>1, <1>4, <2>2
    <3>2. n # c
      BY <1>1, <1>3, <3>1
    <3> QED BY <1>2, <3>1, <3>2
  <2> QED BY <2>1, <2>2
<1>7. cursor'.t = n /\ cursor'.prev = p /\ cursor'.walking
  BY DEF Time!Remove, TimeTyped
<1>8. \A u, v \in InList' : r[u] = r[v] => u = v
  BY <1>2, <1>3
<1>9. CASE c = time_head
  <2>1. time_head' = n /\ m_next' = m_next
    BY <1>9 DEF Time!Remove
  <2>2. p = null
    <3> SUFFICES ASSUME p # null PROVE FALSE
      OBVIOUS
    <3>1. p \in InList /\ m_next[p] = c /\ c # null
      BY <1>1 DEF WalkInList
    <3>2. r[c] < r[p] /\ r[p] <= r[c]
      BY <1>4, <1>5, <1>9, <3>1
    <3> QED BY <1>1, <1>3, <3>1, <3>2
  <2> HIDE DEF c, n, p
  <2>3. WalkInList'
    BY <1>6, <1>7, <2>1, <2>2 DEF WalkInList
  <2>4. IF n = null THEN InList' = {} ELSE n \in InList' /\ \A u \in InList' : r[u] <= r[n]
    <3>1. CASE n = null
      <4>1. ASSUME NEW u \in InList PROVE u = c
        <5>1. r[c] <= r[u] /\ r[u] <= r[c]
          BY <1>1, <1>4, <1>5, <1>9, <3>1 DEF n
        <5> QED BY <1>1, <1>3, <5>1
      <4> QED BY <1>2, <3>1, <4>1
    <3>2. CASE n # null
      <4>1. ASSUME NEW u \in InList' PROVE r[u] <= r[n]
        <5>1. u \in InList /\ r[u] # r[c] /\ r[u] <= r[c]
          BY <1>1, <1>2, <1>3, <1>5, <1>9
        <5>2. r[u] < r[c]
          BY <1>1, <1>3, <5>1
        <5> QED BY <1>1, <1>4, <3>2, <5>1, <5>2 DEF n
      <4> QED BY <1>6, <3>2, <4>1
    <3> QED BY <3>1, <3>2
  <2>5. ASSUME NEW u \in InList'
        PROVE  IF m_next[u] = null THEN \A v \in InList' : r[u] <= r[v]
               ELSE /\ m_next[u] \in InList' /\ r[m_next[u]] < r[u]
                    /\ \A v \in InList' : r[v] < r[u] => r[v] <= r[m_next[u]]
    <3>1. u \in InList /\ r[u] <= r[c]
      BY <1>2, <1>5, <1>9
    <3>2. CASE m_next[u] = null
      BY <1>2, <1>4, <3>1, <3>2
    <3>3. CASE m_next[u] # null
      <4>1. m_next[u] \in InList /\ r[m_next[u]] < r[u]
        BY <1>4, <3>1, <3>3
      <4>2. m_next[u] # c
        BY <1>1, <1>3, <3>1, <4>1
      <4> QED BY <1>2, <1>4, <3>1, <3>3, <4>1, <4>2
    <3> QED BY <3>2, <3>3
  <2>6. Places(r)'
    BY <1>3, <1>8, <2>1, <2>4, <2>5 DEF Places
  <2> QED BY <1>2, <2>3, <2>6 DEF c
<1>10. CASE c # time_head
  <2>1. time_head' = time_head /\ m_next' = [m_next EXCEPT ![p] = n]
    BY <1>10 DEF Time!Remove
  <2>2. p # null /\ p \in InList /\ m_next[p] = c
    BY <1>10 DEF WalkInList
  <2>3. r[c] < r[p] /\ p # c /\ p \in InList' /\ time_head \in InList' /\ time_head # null
        /\ \A v \in InList : r[v] < r[p] => r[v] <= r[c]
    <3>1. r[c] < r[p] /\ \A v \in InList : r[v] < r[p] => r[v] <= r[c]
      BY <1>1, <1>4, <2>2
    <3>2. p # c
      BY <1>1, <1>3, <3>1
    <3> QED BY <1>1, <1>2, <1>5, <1>10, <2>2, <3>1, <3>2
  <2>4. m_next'[p] = n /\ \A u \in InList' : u # p => m_next'[u] = m_next[u]
    BY <1>1, <1>2, <2>1, <2>2 DEF TimeTyped
  <2> HIDE DEF c, n, p
  <2>5. WalkInList'
    BY <1>6, <1>7, <2>2, <2>3, <2>4 DEF WalkInList
  <2>6. ASSUME NEW u \in InList'
        PROVE  IF m_next'[u] = null THEN \A v \in InList' : r[u] <= r[v]
               ELSE /\ m_next'[u] \in InList' /\ r[m_next'[u]] < r[u]
                    /\ \A v \in InList' : r[v] < r[u] => r[v] <= r[m_next'[u]]
    <3>1. CASE u = p /\ n = null
      <4>1. ASSUME NEW v \in InList' PROVE r[p] <= r[v]
        <5>1. v \in InList /\ v # c /\ r[c] <= r[v] /\ r[v] # r[c]
          BY <1>1, <1>2, <1>3, <1>4, <3>1 DEF n
        <5>2. r[v] \in Nat /\ r[c] \in Nat /\ r[p] \in Nat
          BY <1>1, <1>3, <2>2, <5>1
        <5>3. r[v] < r[p] => r[v] <= r[c]
          BY <2>3, <5>1
        <5> QED BY <5>1, <5>2, <5>3
      <4> QED BY <2>4, <3>1, <4>1
    <3>2. CASE u = p /\ n # null
      <4>1. n \in InList' /\ n \in InList /\ r[n] < r[c] /\ r[n] < r[p]
        <5>1. n \in InList' /\ n \in InList /\ r[n] < r[c]
          BY <1>1, <1>2, <1>4, <1>6, <3>2 DEF n
        <5> QED BY <1>1, <1>3, <2>2, <2>3, <5>1
      <4>2. ASSUME NEW v \in InList', r[v] < r[p] PROVE r[v] <= r[n]
        <5>1. v \in InList /\ r[v] # r[c] /\ r[v] <= r[c]
          BY <1>1, <1>2, <1>3, <2>3, <4>2
        <5>2. r[v] < r[c]
          BY <1>1, <1>3, <5>1
        <5> QED BY <1>1, <1>4, <3>2, <5>1, <5>2 DEF n
      <4> QED BY <2>4, <3>2, <4>1, <4>2
    <3>3. CASE u # p /\ m_next[u] = null
      BY <1>2, <1>4, <2>4, <3>3
    <3>4. CASE u # p /\ m_next[u] # null
      <4>1. u \in InList /\ m_next'[u] = m_next[u] /\ m_next[u] \in InList /\ r[m_next[u]] < r[u]
        BY <1>2, <1>4, <2>4, <3>4
      <4>2. ASSUME m_next[u] = c PROVE FALSE
        <5>1. r[c] < r[u] /\ (r[p] < r[u] => r[p] <= r[c]) /\ (r[u] < r[p] => r[u] <= r[c])
          BY <1>4, <2>2, <2>3, <3>4, <4>1, <4>2
        <5>2. r[u] \in Nat /\ r[p] \in Nat /\ r[c] \in Nat /\ r[u] # r[p]
          BY <1>1, <1>3, <2>2, <3>4, <4>1
        <5> QED BY <2>3, <5>1, <5>2
      <4> QED BY <1>2, <1>4, <3>4, <4>1, <4>2
    <3> QED BY <3>1, <3>2, <3>3, <3>4
  <2>7. \A u \in InList' : r[u] <= r[time_head']
    BY <1>2, <1>5, <2>1
  <2>8. Places(r)'
    BY <1>3, <1>8, <2>1, <2>3, <2>6, <2>7 DEF Places
  <2> QED BY <1>2, <2>5, <2>8 DEF c
<1> QED
  BY <1>9, <1>10

\* The list stays linked in the order of some ranking, wherever the walk is cut.
LEMMA TimeNext == ASSUME LibrariesAssumption PROVE TimeInv /\ [Time!Next]_(Time!vars) => TimeInv'
<1> SUFFICES ASSUME TimeInv, [Time!Next]_(Time!vars) PROVE TimeInv'
  OBVIOUS
<1>1. TimeTyped /\ ArmedInList /\ WalkInList
  BY DEF TimeInv
<1>2. PICK r : Places(r) /\ TickedBehind(r)
  BY DEF TimeInv
<1>3. null \notin TimeEvts /\ Ticks \subseteq Nat \ {0} /\ InList \subseteq TimeEvts
  BY DEF LibrariesAssumption, Time!TimeAssumption, InList
<1>4. CASE Time!Arm
  <2>1. ~cursor.walking /\ cursor' = cursor
    BY <1>4 DEF Time!Arm
  <2>2. PICK t \in TimeEvts, n \in Ticks, i \in Ticks \cup {0} :
          /\ m_ctr[t] = 0 /\ m_ctr' = [m_ctr EXCEPT ![t] = n]
          /\ m_interval' = [m_interval EXCEPT ![t] = i]
          /\ IF refCtr_[t] = 0 THEN Time!Push(t) ELSE UNCHANGED Time!list
    BY <1>4 DEF Time!Arm
  <2>3. InList' = InList \cup {t} /\ \E q : Places(q)'
    <3>1. CASE refCtr_[t] = 0
      BY <1>1, <1>2, <2>2, <3>1, PushKeeps
    <3>2. CASE refCtr_[t] # 0
      <4>1. UNCHANGED <<time_head, m_next, refCtr_>> /\ t \in InList
        BY <1>1, <2>2, <3>2 DEF Time!list, TimeTyped, InList
      <4>2. InList' = InList
        BY <4>1 DEF InList
      <4>3. Places(r)'
        BY <1>2, <4>1, <4>2 DEF Places
      <4> QED BY <4>1, <4>2, <4>3
    <3> QED BY <3>1, <3>2
  <2>4. TimeTyped'
    <3>1. m_ctr' \in [TimeEvts -> Nat] /\ m_interval' \in [TimeEvts -> Ticks \cup {0}] /\ cursor' = cursor
      BY <1>1, <1>3, <2>1, <2>2 DEF TimeTyped
    <3>2. /\ time_head' \in TimeEvts \cup {null} /\ m_next' \in [TimeEvts -> TimeEvts \cup {null}]
          /\ refCtr_' \in [TimeEvts -> 0..1]
      BY <1>1, <2>2 DEF TimeTyped, Time!Push, Time!list
    <3> QED BY <1>1, <3>1, <3>2 DEF TimeTyped
  <2>5. ArmedInList'
    BY <1>1, <2>2, <2>3 DEF ArmedInList, TimeTyped
  <2>6. ~cursor'.walking
    BY <2>1
  <2>7. WalkInList' /\ \A q : TickedBehind(q)'
    BY <2>6 DEF WalkInList, TickedBehind
  <2> QED BY <2>3, <2>4, <2>5, <2>7 DEF TimeInv
<1>5. CASE Time!Disarm
  <2> USE <1>5 DEF Time!Disarm
  <2>1. ~cursor.walking /\ cursor' = cursor /\ UNCHANGED <<time_head, m_next, refCtr_>>
    BY DEF Time!list
  <2>2. PICK t \in TimeEvts : m_ctr' = [m_ctr EXCEPT ![t] = 0]
    OBVIOUS
  <2>3. InList' = InList
    BY <2>1 DEF InList
  <2>4. TimeTyped'
    BY <1>1, <2>1, <2>2 DEF TimeTyped
  <2>5. ArmedInList'
    BY <1>1, <2>2, <2>3 DEF ArmedInList, TimeTyped
  <2>6. Places(r)'
    BY <1>2, <2>1, <2>3 DEF Places
  <2>7. ~cursor'.walking
    BY <2>1
  <2>8. WalkInList' /\ TickedBehind(r)'
    BY <2>7 DEF WalkInList, TickedBehind
  <2> QED BY <2>4, <2>5, <2>6, <2>8 DEF TimeInv
<1>6. CASE Time!Tick
  <2> USE <1>6 DEF Time!Tick
  <2>1. /\ UNCHANGED <<time_head, m_next, refCtr_, m_ctr, m_interval>>
        /\ cursor'.walking /\ cursor'.t = time_head /\ cursor'.prev = null
        /\ before'.ctr = m_ctr /\ posted' = {}
    BY DEF Time!list
  <2>2. InList' = InList
    BY <2>1 DEF InList
  <2>3. TimeTyped'
    BY <1>1, <2>1 DEF TimeTyped
  <2>4. ArmedInList' /\ Places(r)'
    BY <1>1, <1>2, <2>1, <2>2 DEF ArmedInList, Places
  <2>5. time_head \in InList \cup {null}
    BY <1>2 DEF Places
  <2>6. WalkInList'
    BY <2>1, <2>2, <2>5 DEF WalkInList
  <2>7. Ahead(r)' = InList
    <3>1. Ahead(r)' = {t \in InList : time_head # null /\ r[t] <= r[time_head]}
      BY <2>1, <2>2 DEF Ahead
    <3>2. \A t \in InList : time_head # null /\ r[t] <= r[time_head]
      BY <1>2 DEF Places
    <3> QED BY <3>1, <3>2
  <2>8. TickedBehind(r)'
    <3>1. ASSUME NEW t \in TimeEvts, t \notin InList PROVE m_ctr'[t] = AfterTick(t)' /\ before'.ctr[t] # 1
      BY <1>1, <2>1, <3>1 DEF ArmedInList, AfterTick
    <3>2. m_ctr \in [TimeEvts -> Nat]
      BY <1>1 DEF TimeTyped
    <3> QED BY <2>1, <2>7, <3>1, <3>2 DEF TickedBehind
  <2> QED BY <2>3, <2>4, <2>6, <2>8 DEF TimeInv
<1>7. ASSUME cursor.walking, cursor.t # null
      PROVE  cursor.t \in InList /\ cursor.t \in TimeEvts
             /\ before.ctr \in [TimeEvts -> Nat] /\ posted \subseteq TimeEvts
             /\ m_ctr[cursor.t] = before.ctr[cursor.t] /\ cursor.t \notin posted
             /\ \A u \in TimeEvts : u # cursor.t => (u \in Ahead(r) => m_ctr[u] = before.ctr[u] /\ u \notin posted)
                   /\ (u \notin Ahead(r) => m_ctr[u] = AfterTick(u) /\ (u \in posted <=> before.ctr[u] = 1))
  <2>1. cursor.t \in InList
    BY <1>1, <1>7 DEF WalkInList
  <2>2. cursor.t \in Ahead(r)
    BY <1>2, <1>7, <2>1 DEF Ahead, Places, InList
  <2> QED BY <1>2, <1>3, <1>7, <2>1, <2>2 DEF TickedBehind
<1>8. ASSUME cursor.walking, cursor.t # null, cursor'.walking, cursor'.t = m_next[cursor.t],
             InList' = InList \/ InList' = InList \ {cursor.t},
             UNCHANGED <<m_interval, before>>,
             m_ctr'[cursor.t] = AfterTick(cursor.t),
             \A u \in TimeEvts : u # cursor.t => m_ctr'[u] = m_ctr[u],
             posted' = IF before.ctr[cursor.t] = 1 THEN posted \cup {cursor.t} ELSE posted
      PROVE  TickedBehind(r)'
  <2>1. \A u \in TimeEvts : u \in Ahead(r)' <=> u \in Ahead(r) /\ u # cursor.t
    BY <1>1, <1>2, <1>7, <1>8, AheadNext
  <2>2. \A u : AfterTick(u)' = AfterTick(u)
    BY <1>8 DEF AfterTick
  <2>3. before' = before
    BY <1>8
  <2>4. ASSUME NEW u \in TimeEvts
        PROVE  IF u \in Ahead(r)' THEN m_ctr'[u] = before'.ctr[u] /\ u \notin posted'
               ELSE m_ctr'[u] = AfterTick(u)' /\ (u \in posted' <=> before'.ctr[u] = 1)
    <3>1. CASE u = cursor.t
      BY <1>7, <1>8, <2>1, <2>2, <2>3, <3>1
    <3>2. CASE u # cursor.t
      <4>1. m_ctr'[u] = m_ctr[u] /\ (u \in posted' <=> u \in posted)
        BY <1>8, <3>2
      <4> QED BY <1>7, <1>8, <2>1, <2>2, <2>3, <3>2, <4>1
    <3> QED BY <3>1, <3>2
  <2>5. before'.ctr \in [TimeEvts -> Nat] /\ posted' \subseteq TimeEvts
    BY <1>7, <1>8, <2>3
  <2> QED BY <2>4, <2>5 DEF TickedBehind
<1>9. ASSUME cursor.walking, cursor.t # null, Time!Keep(cursor.t)
      PROVE  /\ UNCHANGED <<time_head, m_next, refCtr_>> /\ InList' = InList
             /\ Places(r)' /\ WalkInList' /\ cursor'.walking /\ cursor'.t = m_next[cursor.t]
             /\ cursor' \in [walking : BOOLEAN, t : TimeEvts \cup {null}, prev : TimeEvts \cup {null}]
  <2>1. UNCHANGED <<time_head, m_next, refCtr_>>
    BY <1>9 DEF Time!Keep, Time!list
  <2>2. InList' = InList
    BY <2>1 DEF InList
  <2>3. Places(r)'
    BY <1>2, <2>1, <2>2 DEF Places
  <2>4. cursor.t \in InList /\ cursor.t \in TimeEvts
    BY <1>7, <1>9
  <2>5. cursor'.walking /\ cursor'.t = m_next[cursor.t] /\ cursor'.prev = cursor.t
        /\ cursor' \in [walking : BOOLEAN, t : TimeEvts \cup {null}, prev : TimeEvts \cup {null}]
    BY <1>1, <1>9, <2>4 DEF Time!Keep, TimeTyped
  <2>6. m_next[cursor.t] \in InList \cup {null}
    BY <1>2, <2>4 DEF Places
  <2>7. WalkInList'
    BY <1>9, <2>1, <2>2, <2>4, <2>5, <2>6 DEF WalkInList
  <2> QED BY <2>1, <2>2, <2>3, <2>5, <2>7
<1>10. ASSUME cursor.walking, cursor.t # null, Time!Remove(cursor.t)
       PROVE  /\ InList' = InList \ {cursor.t} /\ Places(r)' /\ WalkInList'
              /\ cursor'.walking /\ cursor'.t = m_next[cursor.t]
              /\ time_head' \in TimeEvts \cup {null} /\ m_next' \in [TimeEvts -> TimeEvts \cup {null}]
              /\ refCtr_' \in [TimeEvts -> 0..1]
              /\ cursor' \in [walking : BOOLEAN, t : TimeEvts \cup {null}, prev : TimeEvts \cup {null}]
  <2>1. InList' = InList \ {cursor.t} /\ Places(r)' /\ WalkInList'
    BY <1>1, <1>2, <1>10, RemoveKeeps
  <2>2. cursor.t \in TimeEvts /\ refCtr_[cursor.t] = 1
    BY <1>7, <1>10 DEF InList
  <2> QED BY <1>1, <1>10, <2>1, <2>2 DEF Time!Remove, TimeTyped
<1>11. CASE Time!RemoveDisarmed
  <2> USE <1>11 DEF Time!RemoveDisarmed
  <2>1. AfterTick(cursor.t) = 0 /\ before.ctr[cursor.t] # 1
    BY <1>7 DEF AfterTick
  <2>2. TickedBehind(r)'
    BY <1>8, <1>10, <2>1
  <2>3. TimeTyped' /\ ArmedInList'
    BY <1>1, <1>10 DEF TimeTyped, ArmedInList
  <2> QED BY <1>10, <2>2, <2>3 DEF TimeInv
<1>12. CASE Time!CountDown
  <2> USE <1>12 DEF Time!CountDown
  <2>1. cursor.walking /\ cursor.t # null /\ m_ctr[cursor.t] > 1 /\ m_ctr' = [m_ctr EXCEPT ![cursor.t] = @ - 1]
    OBVIOUS
  <2>2. m_ctr[cursor.t] \in Nat /\ before.ctr[cursor.t] = m_ctr[cursor.t] /\ cursor.t \in TimeEvts
    BY <1>1, <1>7 DEF TimeTyped
  <2>3. m_ctr'[cursor.t] = AfterTick(cursor.t) /\ before.ctr[cursor.t] # 1
        /\ \A u \in TimeEvts : u # cursor.t => m_ctr'[u] = m_ctr[u]
    BY <1>1, <2>1, <2>2 DEF AfterTick, TimeTyped
  <2>4. TickedBehind(r)'
    BY <1>8, <1>9, <2>3
  <2>5. TimeTyped'
    <3>1. m_ctr' \in [TimeEvts -> Nat]
      BY <1>1, <2>1, <2>2 DEF TimeTyped
    <3> QED BY <1>1, <1>9, <3>1 DEF TimeTyped
  <2>6. ArmedInList'
    BY <1>1, <1>7, <1>9, <2>3 DEF ArmedInList
  <2> QED BY <1>9, <2>4, <2>5, <2>6 DEF TimeInv
<1>13. CASE Time!Expire
  <2> USE <1>13 DEF Time!Expire
  <2>1. cursor.walking /\ cursor.t # null /\ cursor.t \in TimeEvts /\ before.ctr[cursor.t] = 1
        /\ m_ctr' = [m_ctr EXCEPT ![cursor.t] = m_interval[cursor.t]]
    BY <1>7
  <2>2. m_ctr'[cursor.t] = m_interval[cursor.t] /\ m_ctr'[cursor.t] = AfterTick(cursor.t)
        /\ \A u \in TimeEvts : u # cursor.t => m_ctr'[u] = m_ctr[u]
    BY <1>1, <2>1 DEF AfterTick, TimeTyped
  <2>3. TickedBehind(r)'
    BY <1>8, <1>9, <1>10, <2>1, <2>2
  <2>4. m_ctr' \in [TimeEvts -> Nat] /\ m_interval' = m_interval
    BY <1>1, <1>3, <2>1 DEF TimeTyped
  <2>5. CASE m_interval[cursor.t] # 0
    <3>1. TimeTyped'
      BY <1>1, <1>9, <2>4, <2>5 DEF TimeTyped
    <3>2. ArmedInList'
      BY <1>1, <1>7, <1>9, <2>2, <2>5 DEF ArmedInList
    <3> QED BY <1>9, <2>3, <2>5, <3>1, <3>2 DEF TimeInv
  <2>6. CASE m_interval[cursor.t] = 0
    <3>1. TimeTyped'
      BY <1>1, <1>10, <2>4, <2>6 DEF TimeTyped
    <3>2. ArmedInList'
      BY <1>1, <1>7, <1>10, <2>2, <2>6 DEF ArmedInList
    <3> QED BY <1>10, <2>3, <2>6, <3>1, <3>2 DEF TimeInv
  <2> QED BY <2>5, <2>6
<1>14. CASE Time!TickEnds
  <2> USE <1>14 DEF Time!TickEnds, Time!Idle
  <2>1. UNCHANGED <<time_head, m_next, refCtr_, m_ctr, m_interval>> /\ ~cursor'.walking
    BY DEF Time!list
  <2>2. InList' = InList
    BY <2>1 DEF InList
  <2>3. TimeTyped'
    BY <1>1, <2>1 DEF TimeTyped
  <2>4. ArmedInList' /\ Places(r)' /\ WalkInList' /\ TickedBehind(r)'
    BY <1>1, <1>2, <2>1, <2>2 DEF ArmedInList, Places, WalkInList, TickedBehind
  <2> QED BY <2>3, <2>4 DEF TimeInv
<1>15. CASE UNCHANGED Time!vars
  <2>1. UNCHANGED <<time_head, m_next, refCtr_, m_ctr, m_interval, cursor, posted, before>>
    BY <1>15 DEF Time!vars, Time!list
  <2>2. InList' = InList /\ Ahead(r)' = Ahead(r) /\ \A t : AfterTick(t)' = AfterTick(t)
    BY <2>1 DEF InList, Ahead, AfterTick
  <2>3. TimeTyped' /\ ArmedInList' /\ WalkInList' /\ Places(r)'
    BY <1>1, <1>2, <2>1, <2>2 DEF TimeTyped, ArmedInList, WalkInList, Places
  <2>4. TickedBehind(r)'
    BY <1>2, <2>1, <2>2 DEF TickedBehind
  <2> QED BY <2>3, <2>4 DEF TimeInv
<1> QED
  BY <1>4, <1>5, <1>6, <1>11, <1>12, <1>13, <1>14, <1>15 DEF Time!Next

\* What the interrupt does in a walk of many steps is what the promise does in one.
LEMMA TimersStep ==
  ASSUME LibrariesAssumption, TimeInv, [Time!Next]_(Time!vars)
  PROVE  [Time!P!Next]_<<IF cursor.walking THEN before.ctr ELSE m_ctr, m_interval,
                         IF cursor.walking THEN before.posted ELSE posted>>
<1> DEFINE ctr == IF cursor.walking THEN before.ctr ELSE m_ctr
           sent == IF cursor.walking THEN before.posted ELSE posted
<1>1. TimeTyped /\ \E r : TickedBehind(r)
  BY DEF TimeInv
<1>2. CASE Time!Arm
  <2>1. ~cursor.walking /\ ~cursor'.walking /\ posted' = posted
    BY <1>2 DEF Time!Arm
  <2>2. Time!P!Arm
    BY <1>2, <2>1 DEF Time!P!Arm, Time!Arm
  <2> QED BY <2>2 DEF Time!P!Next
<1>3. CASE Time!Disarm
  <2>1. ~cursor.walking /\ ~cursor'.walking /\ posted' = posted /\ m_interval' = m_interval
    BY <1>3 DEF Time!Disarm
  <2>2. Time!P!Disarm
    BY <1>3, <2>1 DEF Time!P!Disarm, Time!Disarm
  <2> QED BY <2>2 DEF Time!P!Next
<1>4. CASE Time!Tick
  <2>1. ctr' = ctr /\ sent' = sent /\ m_interval' = m_interval
    BY <1>4 DEF Time!Tick
  <2> QED BY <2>1
<1>5. CASE Time!RemoveDisarmed \/ Time!CountDown \/ Time!Expire
  <2>1. cursor.walking /\ cursor'.walking /\ before' = before /\ m_interval' = m_interval
    BY <1>1, <1>5 DEF Time!RemoveDisarmed, Time!CountDown, Time!Expire, Time!Remove, Time!Keep, TimeTyped
  <2> QED BY <2>1
<1>6. CASE Time!TickEnds
  <2>1. cursor.walking /\ ~cursor'.walking /\ m_ctr' = m_ctr /\ posted' = posted /\ m_interval' = m_interval
    BY <1>6 DEF Time!TickEnds, Time!Idle
  <2>2. \A t \in TimeEvts : m_ctr[t] = AfterTick(t) /\ (t \in posted <=> before.ctr[t] = 1)
        /\ posted \subseteq TimeEvts
    <3>1. PICK r : TickedBehind(r)
      BY <1>1
    <3>2. Ahead(r) = {}
      BY <1>6 DEF Time!TickEnds, Ahead
    <3> QED BY <2>1, <3>1, <3>2 DEF TickedBehind
  <2>3. posted = {t \in TimeEvts : before.ctr[t] = 1}
    <3>1. posted \subseteq TimeEvts
      BY <1>1, <2>1 DEF TickedBehind
    <3> QED BY <2>2, <3>1
  <2>4. m_ctr = [t \in TimeEvts |-> IF t \in posted THEN m_interval[t]
                                    ELSE IF before.ctr[t] = 0 THEN 0 ELSE before.ctr[t] - 1]
    <3>1. m_ctr = [t \in TimeEvts |-> m_ctr[t]]
      BY <1>1 DEF TimeTyped
    <3> QED BY <2>2, <3>1 DEF AfterTick
  <2>5. Time!P!Tick
    BY <2>1, <2>3, <2>4 DEF Time!P!Tick
  <2> QED BY <2>5 DEF Time!P!Next
<1>7. CASE UNCHANGED Time!vars
  BY <1>7 DEF Time!vars, Time!list
<1> QED
  BY <1>2, <1>3, <1>4, <1>5, <1>6, <1>7 DEF Time!Next

\* The list that the interrupt walks, with time events armed and disarmed between
\* the walks, posts every time event when it should, for any set of them.
THEOREM TimersImplemented == ASSUME LibrariesAssumption PROVE Time!Spec => TimersSpec
<1>1. Time!Init => Time!P!Init
  BY DEF Time!Init, Time!Idle, Time!P!Init
<1> QED
  BY <1>1, TimeStart, TimeNext, TimersStep, PTL DEF Time!Spec, TimersSpec, Time!TimersSpec, Time!P!Spec

-----------------------------------------------------------------------------

\* A set of time events of the list has one that is nearest to the list's end.
LEMMA LowestPlace ==
  ASSUME NEW r \in [TimeEvts -> Nat], NEW S, S \subseteq TimeEvts, S # {}
  PROVE  \E t \in S : \A u \in S : r[t] <= r[u]
<1> DEFINE N == {r[t] : t \in S}
           R == {ss \in Nat \X Nat : ss[1] < ss[2]}
<1>0. IsWellFoundedOn(R, Nat)
  BY NatLessThanWellFounded DEF OpToRel
<1>1. N \subseteq Nat /\ N # {}
  OBVIOUS
<1>2. PICK x \in N : \A y \in N : <<y, x>> \notin R
  <2> HIDE DEF N, R
  <2> QED BY <1>0, <1>1, WFMin
<1>3. \A y \in N : x <= y
  <2> SUFFICES ASSUME NEW y \in N, ~(x <= y) PROVE FALSE
    OBVIOUS
  <2>1. x \in Nat /\ y \in Nat /\ y < x
    BY <1>1
  <2>2. <<y, x>> \in R
    BY <2>1
  <2> QED BY <1>2, <2>2
<1>4. PICK t \in S : x = r[t]
  BY <1>2
<1> QED BY <1>3, <1>4

\* The reference counts are the numbers of links, and the list ends.
LEMMA PlacesLinked ==
  ASSUME LibrariesAssumption, TimeInv
  PROVE  Time!Linked
<1>1. TimeTyped /\ ArmedInList
  BY DEF TimeInv
<1>2. PICK r : Places(r)
  BY DEF TimeInv
<1>3. null \notin TimeEvts /\ InList \subseteq TimeEvts
  BY DEF LibrariesAssumption, Time!TimeAssumption, InList
<1>4. /\ r \in [TimeEvts -> Nat] /\ \A u \in InList : r[u] \in Nat
      /\ \A u, v \in InList : r[u] = r[v] => u = v
  BY <1>2, <1>3 DEF Places
<1>5. \A u \in InList :
        IF m_next[u] = null THEN \A v \in InList : r[u] <= r[v]
        ELSE /\ m_next[u] \in InList /\ r[m_next[u]] < r[u]
             /\ \A v \in InList : r[v] < r[u] => r[v] <= r[m_next[u]]
  BY <1>2 DEF Places
<1>6. IF time_head = null THEN InList = {}
      ELSE time_head \in InList /\ \A u \in InList : r[u] <= r[time_head]
  BY <1>2 DEF Places
<1> DEFINE Before(t) == {p \in TimeEvts : refCtr_[p] > 0 /\ m_next[p] = t}
<1>7. \A t : Before(t) = {p \in InList : m_next[p] = t}
  BY <1>1 DEF InList, TimeTyped
<1> HIDE DEF Before
<1>8. ASSUME NEW t \in TimeEvts PROVE refCtr_[t] = Time!Links(t) /\ (m_ctr[t] # 0 => refCtr_[t] = 1)
  <2>1. m_ctr[t] # 0 => refCtr_[t] = 1
    BY <1>1 DEF ArmedInList, InList
  <2>2. Time!Links(t) = Cardinality(Before(t)) + (IF time_head = t THEN 1 ELSE 0)
    <3>1. Time!Links(t) = Cardinality({p \in TimeEvts : refCtr_[p] > 0 /\ m_next[p] = t})
                            + (IF time_head = t THEN 1 ELSE 0)
      BY DEF Time!Links, Time!Cardinality, Cardinality
    <3>2. Before(t) = {p \in TimeEvts : refCtr_[p] > 0 /\ m_next[p] = t}
      BY DEF Before
    <3> QED BY <3>1, <3>2
  <2>3. CASE t \notin InList
    <3>1. Before(t) = {} /\ time_head # t /\ refCtr_[t] = 0
      BY <1>1, <1>3, <1>5, <1>6, <1>7, <2>3 DEF InList, TimeTyped
    <3> QED BY <2>1, <2>2, <3>1, FS_EmptySet
  <2>4. CASE t \in InList /\ time_head = t
    <3>1. ASSUME NEW p \in InList, m_next[p] = t PROVE FALSE
      <4>1. r[t] < r[p] /\ r[p] <= r[t]
        BY <1>3, <1>5, <1>6, <2>4, <3>1
      <4> QED BY <1>4, <2>4, <4>1
    <3>2. Before(t) = {} /\ refCtr_[t] = 1
      BY <1>7, <2>4, <3>1 DEF InList
    <3> QED BY <2>1, <2>2, <2>4, <3>2, FS_EmptySet
  <2>5. CASE t \in InList /\ time_head # t
    <3> DEFINE Higher == {p \in InList : r[t] < r[p]}
    <3>1. time_head \in Higher /\ Higher \subseteq TimeEvts
      <4>1. time_head \in InList /\ r[t] <= r[time_head]
        BY <1>6, <2>5
      <4>2. r[t] # r[time_head]
        BY <1>4, <2>5, <4>1
      <4> QED BY <1>3, <1>4, <2>5, <4>1, <4>2
    <3>2. PICK p \in Higher : \A u \in Higher : r[p] <= r[u]
      <4> HIDE DEF Higher
      <4> QED BY <1>4, <3>1, LowestPlace
    <3>3. p \in InList /\ r[t] < r[p] /\ r[t] \in Nat /\ r[p] \in Nat
      BY <1>4, <2>5
    <3>4. m_next[p] # null
      BY <1>5, <2>5, <3>3
    <3>5. m_next[p] \in InList /\ r[m_next[p]] < r[p] /\ r[t] <= r[m_next[p]]
      BY <1>5, <2>5, <3>3, <3>4
    <3>6. r[m_next[p]] = r[t]
      <4>1. ~(r[t] < r[m_next[p]])
        BY <1>4, <3>2, <3>3, <3>5
      <4> QED BY <1>4, <3>3, <3>5, <4>1
    <3>7. m_next[p] = t
      BY <1>4, <2>5, <3>5, <3>6
    <3>8. ASSUME NEW q \in InList, m_next[q] = t PROVE q = p
      <4>1. t # null
        BY <1>3, <2>5
      <4>2. r[t] < r[q] /\ r[q] \in Nat /\ (r[p] < r[q] => r[p] <= r[t]) /\ (r[q] < r[p] => r[q] <= r[t])
        BY <1>4, <1>5, <3>3, <3>7, <3>8, <4>1
      <4>3. r[p] = r[q]
        BY <3>3, <4>2
      <4> QED BY <1>4, <3>3, <4>3
    <3>9. Before(t) = {p} /\ refCtr_[t] = 1
      BY <1>7, <2>5, <3>3, <3>7, <3>8 DEF InList
    <3> QED BY <2>1, <2>2, <2>5, <3>9, FS_Singleton
  <2> QED BY <2>3, <2>4, <2>5
<1>9. ASSUME NEW S \in (SUBSET TimeEvts) \ {{}} PROVE \E t \in S : refCtr_[t] = 0 \/ m_next[t] \notin S
  <2>1. CASE S \subseteq InList
    <3>1. PICK t \in S : \A u \in S : r[t] <= r[u]
      <4>1. S \subseteq TimeEvts /\ S # {}
        OBVIOUS
      <4> QED BY <1>4, <4>1, LowestPlace
    <3>2. t \in InList /\ r[t] \in Nat
      BY <1>4, <2>1
    <3>3. ASSUME m_next[t] \in S PROVE FALSE
      <4>1. m_next[t] # null /\ r[t] <= r[m_next[t]] /\ m_next[t] \in InList
        BY <1>3, <2>1, <3>1, <3>3
      <4>2. r[m_next[t]] < r[t]
        BY <1>5, <3>2, <4>1
      <4> QED BY <1>4, <3>2, <4>1, <4>2
    <3> QED BY <3>3
  <2>2. CASE ~(S \subseteq InList)
    <3>1. PICK t \in S : t \notin InList
      BY <2>2
    <3>2. refCtr_[t] = 0
      BY <1>1, <3>1 DEF InList, TimeTyped
    <3> QED BY <3>2
  <2> QED BY <2>1, <2>2
<1> QED
  BY <1>8, <1>9 DEF Time!Linked

-----------------------------------------------------------------------------
(* The console.                                                            *)

\* The input's index is at most a byte, and the output's one past the size.  What
\* has been printed is where the output ends unless it was too much, and then the
\* input is what was typed unless the rest of the loop did the printing.
ConsoleInv ==
  /\ available \in 0..MaxInput /\ typed \in 0..InSize /\ in_index \in 0..255
  /\ printed \in 0..(OutSize + 1) /\ out_index \in 0..(OutSize + 1)
  /\ ~flooded => in_index = typed
  /\ printed <= OutSize => out_index = printed

\* The sizes are numbers, and an error fits into the output.
LEMMA ConsoleSizes ==
  ASSUME LibrariesAssumption
  PROVE  /\ InSize \in Nat /\ InSize <= 255 /\ OutSize \in Nat /\ MaxInput \in Nat
         /\ ErrorLength \in Nat /\ ErrorLength \in 1..OutSize
         /\ Lengths \subseteq Nat /\ Chars \subseteq 0..255
BY DEF LibrariesAssumption, Console!ConsoleAssumption

\* Whatever is printed, the index is at most one past the size.
LEMMA PrintTextInside ==
  ASSUME LibrariesAssumption, NEW out \in 0..(OutSize + 1), NEW n \in Nat
  PROVE  Console!PrintText(out, n) \in 0..(OutSize + 1)
BY ConsoleSizes DEF Console!PrintText

\* A line leaves the index inside, and is counted with its newline.
LEMMA LineInside ==
  ASSUME LibrariesAssumption, NEW out \in 0..(OutSize + 1), NEW n \in Nat
  PROVE  /\ Console!EndLine(out, n).out \in 0..(OutSize + 1)
         /\ Console!EndLine(out, n).count = n + 1
<1>1. Console!PrintText(out, n) \in 0..(OutSize + 1)
  BY PrintTextInside
<1>2. Console!PrintText(Console!PrintText(out, n), 1) \in 0..(OutSize + 1)
  BY <1>1, PrintTextInside
<1> QED
  BY <1>2 DEF Console!EndLine, Console!Ended

\* What fits into the output is where it ends, and nothing is written behind it.
LEMMA LineFits ==
  ASSUME LibrariesAssumption, NEW out \in Nat, NEW n \in Nat, out + n + 1 <= OutSize
  PROVE  Console!EndLine(out, n) = [out |-> out + n + 1, spill |-> FALSE, count |-> n + 1]
<1>1. OutSize \in Nat
  BY ConsoleSizes
<1>2. Console!PrintText(out, n) = out + n /\ Console!PrintText(out + n, 1) = out + n + 1
  BY <1>1 DEF Console!PrintText
<1>3. ~Console!Spills(out, out + n, n) /\ ~Console!Spills(out + n, out + n + 1, 1)
  BY <1>1 DEF Console!Spills
<1> QED
  BY <1>2, <1>3 DEF Console!EndLine, Console!Ended

\* A line with a length is the line, or the error in its place.
LEMMA LenIsLine ==
  ASSUME LibrariesAssumption, NEW out \in 0..(OutSize + 1), NEW n \in Nat
  PROVE  \E k \in Nat : Console!EndLen(out, n) = Console!EndLine(out, k)
<1>1. OutSize \in Nat /\ ErrorLength \in Nat
  BY ConsoleSizes
<1>2. CASE out + n > OutSize
  BY <1>1, <1>2 DEF Console!EndLen
<1>3. CASE ~(out + n > OutSize)
  <2>1. Console!PrintLen(out, n) = Console!PrintText(out, n)
    BY <1>1, <1>3 DEF Console!PrintLen, Console!PrintText
  <2> QED BY <1>3, <2>1 DEF Console!EndLen, Console!EndLine
<1> QED
  BY <1>2, <1>3

\* A command answers nothing, or a line.
LEMMA AnswerIsLine ==
  ASSUME LibrariesAssumption, NEW out \in 0..(OutSize + 1), NEW answer \in Console!Answers(out)
  PROVE  \/ answer.out = out /\ answer.count = 0
         \/ \E k \in Nat : answer = Console!EndLine(out, k)
<1>1. Lengths \subseteq Nat
  BY ConsoleSizes
<1>2. \/ answer = [out |-> out, spill |-> FALSE, count |-> 0]
      \/ \E n \in Lengths : answer = Console!EndLine(out, n)
      \/ \E n \in Lengths : answer = Console!EndLen(out, n)
  BY DEF Console!Answers
<1> QED
  BY <1>1, <1>2, LenIsLine

\* A line keeps the output, and spills only if there is more than it takes.
LEMMA LineKept ==
  ASSUME LibrariesAssumption, ConsoleInv, NEW n \in Nat, Console!Output(Console!EndLine(out_index, n))
  PROVE  /\ out_index' \in 0..(OutSize + 1) /\ printed' \in 0..(OutSize + 1)
         /\ printed' <= OutSize => out_index' = printed' /\ ~Console!EndLine(out_index, n).spill
<1>1. OutSize \in Nat /\ out_index \in 0..(OutSize + 1) /\ printed \in 0..(OutSize + 1)
      /\ (printed <= OutSize => out_index = printed)
  BY ConsoleSizes DEF ConsoleInv
<1>2. /\ Console!EndLine(out_index, n).out \in 0..(OutSize + 1)
      /\ Console!EndLine(out_index, n).count = n + 1
  BY <1>1, LineInside
<1>3. out_index' \in 0..(OutSize + 1)
  BY <1>2 DEF Console!Output
<1>4. printed' = IF printed + (n + 1) > OutSize THEN OutSize + 1 ELSE printed + (n + 1)
  BY <1>2 DEF Console!Output, Console!Counted
<1>5. ASSUME printed' <= OutSize PROVE out_index' = printed' /\ ~Console!EndLine(out_index, n).spill
  <2>1. printed + n + 1 <= OutSize /\ printed' = printed + n + 1 /\ out_index = printed
    BY <1>1, <1>4, <1>5
  <2>2. Console!EndLine(out_index, n) = [out |-> out_index + n + 1, spill |-> FALSE, count |-> n + 1]
    BY <1>1, <2>1, LineFits
  <2> QED BY <2>1, <2>2 DEF Console!Output
<1> QED
  BY <1>1, <1>3, <1>4, <1>5

\* At first the buffers are empty.
LEMMA ConsoleStart == ASSUME LibrariesAssumption PROVE Console!Init => ConsoleInv
BY ConsoleSizes DEF Console!Init, ConsoleInv

\* The indices are the numbers of bytes there are, however the calls alternate.
LEMMA ConsoleNext ==
  ASSUME LibrariesAssumption PROVE ConsoleInv /\ [Console!Next]_(Console!vars) => ConsoleInv'
<1> SUFFICES ASSUME ConsoleInv, [Console!Next]_(Console!vars) PROVE ConsoleInv'
  OBVIOUS
<1>1. /\ InSize \in Nat /\ InSize <= 255 /\ OutSize \in Nat /\ MaxInput \in Nat
      /\ ErrorLength \in Nat /\ Lengths \subseteq Nat /\ Chars \subseteq 0..255
  BY ConsoleSizes
<1>2. CASE Console!HostSends
  BY <1>1, <1>2 DEF Console!HostSends, ConsoleInv
<1>3. CASE Console!QueueOutput
  <2>1. PICK n \in Lengths, c \in Chars :
          /\ Console!Output(Console!EndLine(out_index, n))
          /\ in_index' = IF Console!EndLine(out_index, n).spill THEN c ELSE in_index
    BY <1>3 DEF Console!QueueOutput
  <2>2. /\ out_index' \in 0..(OutSize + 1) /\ printed' \in 0..(OutSize + 1)
        /\ printed' <= OutSize => out_index' = printed' /\ ~Console!EndLine(out_index, n).spill
    BY <1>1, <2>1, LineKept
  <2>3. /\ available' = available /\ typed' = typed
        /\ flooded' = (flooded \/ printed' > OutSize)
    BY <1>3 DEF Console!QueueOutput
  <2>4. in_index' \in 0..255
    BY <1>1, <2>1 DEF ConsoleInv
  <2>5. ~flooded' => in_index' = typed'
    <3>1. ~flooded' => ~flooded /\ ~(printed' > OutSize)
      <4>1. ~(flooded \/ printed' > OutSize) => ~flooded /\ ~(printed' > OutSize)
        OBVIOUS
      <4> QED BY <2>3, <4>1, Zenon
    <3>2. ~(printed' > OutSize) => printed' <= OutSize
      BY <1>1, <2>2
    <3> QED BY <2>1, <2>2, <2>3, <3>1, <3>2 DEF ConsoleInv
  <2> QED BY <2>2, <2>3, <2>4, <2>5 DEF ConsoleInv
<1>4. CASE Console!Run
  BY <1>1, <1>4 DEF Console!Run, ConsoleInv
<1>5. CASE Console!ReadText
  BY <1>1, <1>5 DEF Console!ReadText, Console!Read, ConsoleInv
<1>6. CASE Console!ReadEndOfCommand
  <2>1. PICK answer \in Console!Answers(out_index) : Console!Output(answer)
    BY <1>6 DEF Console!ReadEndOfCommand
  <2>2. available' \in 0..MaxInput /\ in_index' = 0 /\ typed' = 0
    BY <1>1, <1>6 DEF Console!ReadEndOfCommand, Console!Read, ConsoleInv
  <2>3. /\ out_index' \in 0..(OutSize + 1) /\ printed' \in 0..(OutSize + 1)
        /\ printed' <= OutSize => out_index' = printed'
    <3>1. CASE answer.out = out_index /\ answer.count = 0
      BY <1>1, <2>1, <3>1 DEF Console!Output, Console!Counted, ConsoleInv
    <3>2. CASE \E k \in Nat : answer = Console!EndLine(out_index, k)
      BY <2>1, <3>2, LineKept
    <3>3. out_index \in 0..(OutSize + 1)
      BY DEF ConsoleInv
    <3> QED BY <3>1, <3>2, <3>3, AnswerIsLine
  <2> QED BY <1>1, <2>2, <2>3 DEF ConsoleInv
<1>7. CASE Console!ReadTooLong
  <2>1. available' \in 0..MaxInput /\ in_index' = 0 /\ typed' = 0
        /\ Console!Output(Console!EndLine(out_index, ErrorLength))
    BY <1>1, <1>7 DEF Console!ReadTooLong, Console!Read, ConsoleInv
  <2>2. /\ out_index' \in 0..(OutSize + 1) /\ printed' \in 0..(OutSize + 1)
        /\ printed' <= OutSize => out_index' = printed'
    BY <1>1, <2>1, LineKept
  <2> QED BY <1>1, <2>1, <2>2 DEF ConsoleInv
<1>8. CASE Console!Write
  BY <1>1, <1>8 DEF Console!Write, ConsoleInv
<1>9. CASE UNCHANGED Console!vars
  BY <1>9 DEF Console!vars, ConsoleInv
<1> QED
  BY <1>2, <1>3, <1>4, <1>5, <1>6, <1>7, <1>8, <1>9 DEF Console!Next

\* Whatever is typed and printed, and however much of it, the answers of commands
\* do not get into the input, and what fits into the output is all there when it is
\* read: for any sizes, commands and answers.
THEOREM ConsoleCorrect == ASSUME LibrariesAssumption PROVE Console!Spec => []BuffersKept
<1>1. ConsoleInv => BuffersKept
  BY DEF ConsoleInv, BuffersKept, Console!BuffersKept
<1> QED
  BY <1>1, ConsoleStart, ConsoleNext, PTL DEF Console!Spec

-----------------------------------------------------------------------------
(* The radio's driver.                                                     *)

\* What the driver knows of the chip at each of its commands: while it sets a
\* channel, the chip may still be at what it did before a reset.
Mode ==
  /\ at \in {"loop", "check", "read", "clear", "config", "flush", "sending", "sent"}
  /\ changing => unit = "Txr" /\ at \in {"loop", "check", "read", "clear"}
  /\ PTX => at = "sending"
  /\ tx_fifo = "packet" => at = "sending" /\ ~tx_ds /\ ~max_rt
  /\ at = "sent" => prim_rx
  /\ at \in {"loop", "check", "read", "clear", "flush"} /\ ~changing => prim_rx /\ ~tx_ds /\ ~max_rt

\* A flag without a packet is an old one.
Fifo ==
  /\ rx_fifo \in Seq(Nat) /\ arrived \in Nat
  /\ rx_dr /\ rx_fifo = <<>> => stale \/ at = "clear"
  /\ at = "read" /\ rx_fifo = <<>> => stale

\* Every command leaves the chip's mode as the driver takes it to be.
LEMMA ModeNext == ASSUME Mode, [Radio!Next]_(Radio!vars) PROVE Mode'
<1> USE DEF Mode, Radio!loopVars, Radio!rxVars, Radio!txVars
<1>1. CASE Radio!Arrive
  BY <1>1 DEF Radio!Arrive
<1>2. CASE Radio!Transmit
  BY <1>2 DEF Radio!Transmit
<1>3. CASE Radio!DataReady
  BY <1>3 DEF Radio!DataReady
<1>4. CASE Radio!RxFifoEmpty
  BY <1>4 DEF Radio!RxFifoEmpty
<1>5. CASE Radio!ReadPayload
  BY <1>5 DEF Radio!ReadPayload
<1>6. CASE Radio!ClearDataReady
  BY <1>6 DEF Radio!ClearDataReady
<1>7. CASE Radio!Send
  BY <1>7 DEF Radio!Send
<1>8. CASE Radio!IsSending
  BY <1>8 DEF Radio!IsSending
<1>9. CASE Radio!ClearSent
  BY <1>9 DEF Radio!ClearSent
<1>10. CASE Radio!SetChannel
  BY <1>10 DEF Radio!SetChannel
<1>11. CASE Radio!Config
  BY <1>11 DEF Radio!Config
<1>12. CASE Radio!FlushRx
  BY <1>12 DEF Radio!FlushRx
<1>13. CASE Radio!Reset
  BY <1>13 DEF Radio!Reset, Radio!Starting
<1>14. CASE UNCHANGED Radio!vars
  BY <1>14 DEF Radio!vars
<1> QED
  BY <1>1, <1>2, <1>3, <1>4, <1>5, <1>6, <1>7, <1>8, <1>9, <1>10, <1>11, <1>12, <1>13, <1>14 DEF Radio!Next

\* Nothing but a flush or a reset takes a packet away behind the driver's back.
LEMMA FifoNext == ASSUME Mode, Fifo, [Radio!Next]_(Radio!vars) PROVE Fifo'
<1> USE DEF Fifo, Radio!loopVars, Radio!rxVars, Radio!txVars
<1>1. CASE Radio!Arrive
  <2>1. rx_fifo' = Append(rx_fifo, arrived + 1) /\ arrived' = arrived + 1 /\ arrived \in Nat
    BY <1>1 DEF Radio!Arrive
  <2>2. rx_fifo' \in Seq(Nat) /\ rx_fifo' # <<>>
    BY <2>1, AppendProperties
  <2> QED BY <2>1, <2>2
<1>2. CASE Radio!Transmit
  BY <1>2 DEF Radio!Transmit
<1>3. CASE Radio!DataReady
  BY <1>3 DEF Radio!DataReady
<1>4. CASE Radio!RxFifoEmpty
  BY <1>4 DEF Radio!RxFifoEmpty
<1>5. CASE Radio!ReadPayload
  <2>1. rx_fifo' \in Seq(Nat)
    BY <1>5 DEF Radio!ReadPayload
  <2> QED BY <1>5, <2>1 DEF Radio!ReadPayload
<1>6. CASE Radio!ClearDataReady
  BY <1>6 DEF Radio!ClearDataReady
<1>7. CASE Radio!Send
  BY <1>7 DEF Radio!Send
<1>8. CASE Radio!IsSending
  BY <1>8 DEF Radio!IsSending
<1>9. CASE Radio!ClearSent
  BY <1>9 DEF Radio!ClearSent
<1>10. CASE Radio!SetChannel
  BY <1>10 DEF Radio!SetChannel
<1>11. CASE Radio!Config
  BY <1>11 DEF Radio!Config
<1>12. CASE Radio!FlushRx
  BY <1>12 DEF Radio!FlushRx
<1>13. CASE Radio!Reset
  BY <1>13 DEF Radio!Reset, Radio!Starting
<1>14. CASE UNCHANGED Radio!vars
  BY <1>14 DEF Radio!vars
<1> QED
  BY <1>1, <1>2, <1>3, <1>4, <1>5, <1>6, <1>7, <1>8, <1>9, <1>10, <1>11, <1>12, <1>13, <1>14 DEF Radio!Next

\* The hand unit gives up reading what is left only when nothing is.
LEMMA ReadsAllThatIsLeft ==
  ASSUME Mode, [Radio!Next]_(Radio!vars), changing, ~changing'
  PROVE  rx_fifo = <<>>
<1> USE DEF Mode, Radio!loopVars, Radio!rxVars, Radio!txVars
<1>1. CASE Radio!RxFifoEmpty
  BY <1>1 DEF Radio!RxFifoEmpty
<1>2. CASE Radio!Reset
  BY <1>2 DEF Radio!Reset, Radio!Starting
<1>3. CASE Radio!SetChannel
  BY <1>3 DEF Radio!SetChannel
<1>4. changing' = changing \/ Radio!RxFifoEmpty \/ Radio!Reset \/ Radio!SetChannel
  BY DEF Radio!Next, Radio!vars, Radio!Arrive, Radio!Transmit, Radio!DataReady, Radio!ReadPayload,
         Radio!ClearDataReady, Radio!Send, Radio!IsSending, Radio!ClearSent, Radio!Config, Radio!FlushRx
<1> QED
  BY <1>1, <1>2, <1>3, <1>4

\* Whatever packets come, are sent or given up, and whenever the device restarts:
\* between calls the radio listens with no flag left of the last packet, reads
\* what nobody sent only after it has been told to forget, and changes channel with
\* nothing left unread.
THEOREM DriverCorrect == Radio!Spec => DriverKept
<1>1. Radio!Init => Mode /\ Fifo
  BY DEF Radio!Init, Radio!Starting, Mode, Fifo
<1>2. Mode /\ Fifo => Radio!Listens /\ Radio!OnlyStale
  BY DEF Mode, Fifo, Radio!Listens, Radio!OnlyStale
<1>3. Mode /\ [Radio!Next]_(Radio!vars) => [changing /\ ~changing' => rx_fifo = <<>>]_(Radio!vars)
  BY ReadsAllThatIsLeft
<1> QED
  BY <1>1, <1>2, <1>3, ModeNext, FifoNext, PTL
  DEF Radio!Spec, DriverKept, Radio!DriverKept, Radio!NothingLeft

-----------------------------------------------------------------------------
(* The types of the five, and their run.                                   *)

\* The list's types follow from its invariant.
LEMMA TimeTypes == ASSUME LibrariesAssumption PROVE Time!Spec => [](Time!TypeOK /\ Time!Linked)
<1>1. TimeInv => Time!TypeOK
  BY DEF TimeInv, TimeTyped, Time!TypeOK, Time!Pointer
<1>2. TimeInv => Time!Linked
  BY PlacesLinked
<1> QED BY <1>1, <1>2, TimeStart, TimeNext, PTL DEF Time!Spec

\* The flags of the console.
ConsoleFlags == failing_to_write \in BOOLEAN /\ reading \in BOOLEAN /\ flooded \in BOOLEAN

\* The console's indices stay in its buffers.
LEMMA ConsoleTypes == ASSUME LibrariesAssumption PROVE Console!Spec => []Console!TypeOK
<1>1. Console!Init => ConsoleFlags
  BY DEF Console!Init, ConsoleFlags
<1>2. ASSUME ConsoleFlags, [Console!Next]_(Console!vars) PROVE ConsoleFlags'
  <2> USE DEF ConsoleFlags, Console!vars, Console!Next, Console!HostSends, Console!QueueOutput, Console!Run,
       Console!Read, Console!ReadText, Console!ReadEndOfCommand, Console!ReadTooLong, Console!Write
  <2>1. failing_to_write' \in BOOLEAN
    BY <1>2
  <2>2. reading' \in BOOLEAN
    BY <1>2
  <2>3. flooded' \in BOOLEAN
    BY <1>2
  <2> QED BY <2>1, <2>2, <2>3 DEF ConsoleFlags
<1>3. ConsoleInv /\ ConsoleFlags => Console!TypeOK
  BY DEF ConsoleInv, ConsoleFlags, Console!TypeOK
<1> QED BY <1>1, <1>2, <1>3, ConsoleStart, ConsoleNext, PTL DEF Console!Spec

\* The radio's variables keep their types.
LEMMA RadioTypeNext ==
  ASSUME LibrariesAssumption, Radio!TypeOK, [Radio!Next]_(Radio!vars) PROVE Radio!TypeOK'
<1> USE DEF Radio!TypeOK, Radio!loopVars, Radio!rxVars, Radio!txVars
<1>1. RxFifoSize \in Nat /\ MaxPackets \in Nat
  BY DEF LibrariesAssumption, Radio!MirfAssumption
<1>2. <<>> \in Seq(1..MaxPackets) /\ 0 <= RxFifoSize /\ Len(<<>>) = 0
  <2> HIDE DEF Radio!TypeOK
  <2> QED BY <1>1
<1>3. CASE Radio!Arrive
  <2>1. /\ rx_fifo' = Append(rx_fifo, arrived + 1) /\ arrived' = arrived + 1
        /\ Len(rx_fifo) < RxFifoSize /\ arrived < MaxPackets
    BY <1>3 DEF Radio!Arrive
  <2>2. PICK P : P = 1..MaxPackets
    OBVIOUS
  <2>3. ASSUME NEW n \in 0..MaxPackets, n < MaxPackets PROVE n + 1 \in P /\ n + 1 \in 0..MaxPackets
    <3> HIDE DEF Radio!TypeOK
    <3> QED BY <1>1, <2>2, <2>3
  <2>4. arrived \in 0..MaxPackets /\ rx_fifo \in Seq(P) /\ Len(rx_fifo) \in Nat
    BY <2>2, LenProperties
  <2> HIDE DEF Radio!TypeOK
  <2>5. arrived + 1 \in P /\ arrived' \in 0..MaxPackets
    BY <2>1, <2>3, <2>4
  <2>6. rx_fifo' \in Seq(P) /\ Len(rx_fifo') = Len(rx_fifo) + 1
    BY <2>1, <2>4, <2>5, AppendProperties
  <2>7. Len(rx_fifo') <= RxFifoSize
    BY <1>1, <2>1, <2>4, <2>6
  <2> USE DEF Radio!TypeOK
  <2>8. rx_fifo' \in Seq(1..MaxPackets)
    BY <2>2, <2>6
  <2>9. rx_dr' \in BOOLEAN
    BY <1>3 DEF Radio!Arrive
  <2> QED BY <1>3, <2>5, <2>7, <2>8, <2>9, ZenonT(40) DEF Radio!Arrive
<1>4. CASE Radio!ReadPayload
  <2>1. rx_fifo' \in Seq(1..MaxPackets) /\ Len(rx_fifo') <= RxFifoSize
    <3>1. CASE rx_fifo = <<>>
      BY <1>2, <1>4, <3>1 DEF Radio!ReadPayload
    <3>2. CASE rx_fifo # <<>>
      <4>1. rx_fifo' = Tail(rx_fifo)
        BY <1>4, <3>2 DEF Radio!ReadPayload
      <4>2. PICK P : P = 1..MaxPackets
        OBVIOUS
      <4>3. rx_fifo \in Seq(P) /\ Len(rx_fifo) <= RxFifoSize
        BY <4>2
      <4> HIDE DEF Radio!TypeOK
      <4>4. Tail(rx_fifo) \in Seq(P) /\ Len(rx_fifo) \in Nat /\ Len(Tail(rx_fifo)) = Len(rx_fifo) - 1
        BY <3>2, <4>3, HeadTailProperties, LenProperties
      <4>5. Len(Tail(rx_fifo)) <= RxFifoSize
        BY <1>1, <4>3, <4>4
      <4> QED BY <4>1, <4>2, <4>4, <4>5
    <3> QED BY <3>1, <3>2
  <2> QED BY <1>4, <2>1, ZenonT(40) DEF Radio!ReadPayload
<1>5. CASE Radio!FlushRx
  <2>1. Len(rx_fifo') <= RxFifoSize /\ rx_fifo' \in Seq(1..MaxPackets)
    BY <1>2, <1>5 DEF Radio!FlushRx
  <2> QED BY <1>5, <2>1, ZenonT(40) DEF Radio!FlushRx
<1>6. CASE Radio!Transmit
  BY <1>6, ZenonT(40) DEF Radio!Transmit
<1>7. CASE Radio!DataReady
  BY <1>7, ZenonT(40) DEF Radio!DataReady
<1>8. CASE Radio!RxFifoEmpty
  BY <1>8, ZenonT(40) DEF Radio!RxFifoEmpty
<1>9. CASE Radio!ClearDataReady
  BY <1>9, ZenonT(40) DEF Radio!ClearDataReady
<1>10. CASE Radio!Send
  BY <1>10, ZenonT(40) DEF Radio!Send
<1>11. CASE Radio!IsSending
  BY <1>11, ZenonT(40) DEF Radio!IsSending
<1>12. CASE Radio!ClearSent
  BY <1>12, ZenonT(40) DEF Radio!ClearSent
<1>13. CASE Radio!SetChannel
  BY <1>13, ZenonT(40) DEF Radio!SetChannel
<1>14. CASE Radio!Config
  BY <1>14, ZenonT(40) DEF Radio!Config
<1>15. CASE Radio!Reset
  <2>1. stale' \in BOOLEAN
    BY <1>15, ZenonT(40) DEF Radio!Reset
  <2> QED BY <1>15, <2>1, ZenonT(40) DEF Radio!Reset, Radio!Starting
<1>16. CASE UNCHANGED Radio!vars
  <2>1. /\ unit' = unit /\ at' = at /\ tx_fifo' = tx_fifo
        /\ rx_fifo' = rx_fifo /\ arrived' = arrived
    BY <1>16, ZenonT(40) DEF Radio!vars
  <2>2. changing' \in BOOLEAN /\ PTX' \in BOOLEAN /\ prim_rx' \in BOOLEAN
    BY <1>16, ZenonT(40) DEF Radio!vars
  <2>3. rx_dr' \in BOOLEAN /\ tx_ds' \in BOOLEAN /\ max_rt' \in BOOLEAN /\ stale' \in BOOLEAN
    BY <1>16, ZenonT(40) DEF Radio!vars
  <2> QED BY <2>1, <2>2, <2>3, ZenonT(40)
<1> QED
  BY <1>3, <1>4, <1>5, <1>6, <1>7, <1>8, <1>9, <1>10, <1>11, <1>12, <1>13, <1>14, <1>15, <1>16
  DEF Radio!Next

\* The chip never holds more than it has room for.
LEMMA RadioTypes == ASSUME LibrariesAssumption PROVE Radio!Spec => []Radio!TypeOK
<1>1. Radio!Init => Radio!TypeOK
  <2>1. RxFifoSize \in Nat /\ MaxPackets \in Nat
    BY DEF LibrariesAssumption, Radio!MirfAssumption
  <2>2. <<>> \in Seq(1..MaxPackets) /\ 0 <= RxFifoSize /\ Len(<<>>) = 0 /\ 0 \in 0..MaxPackets
    BY <2>1
  <2> SUFFICES ASSUME Radio!Init PROVE Radio!TypeOK
    OBVIOUS
  <2>3. rx_fifo \in Seq(1..MaxPackets) /\ Len(rx_fifo) <= RxFifoSize
    BY <2>2 DEF Radio!Init
  <2> QED BY <2>2, <2>3 DEF Radio!Init, Radio!TypeOK
<1> QED BY <1>1, RadioTypeNext, PTL DEF Radio!Spec

\* Each of the five, on its own or in the company of the others.
Each == Spec /\ Time!Spec /\ Hsm!Spec /\ Console!Spec /\ Radio!Spec

\* A behaviour of the run is one of each of the five: the theorems are about it.
THEOREM RunOfEach == MCSpec => Each
<1>1. MCInit => Init /\ Time!Init /\ Hsm!Init /\ Console!Init /\ Radio!Init
  BY DEF MCInit
<1>2. ASSUME [MCNext]_<<component, vars, timeVars, hsmVars, consoleVars, radioVars>>
      PROVE  /\ [Next]_vars /\ [Time!Next]_(Time!vars) /\ [Hsm!Next]_(Hsm!vars)
             /\ [Console!Next]_(Console!vars) /\ [Radio!Next]_(Radio!vars)
  <2>1. /\ UNCHANGED timeVars => UNCHANGED Time!vars
        /\ UNCHANGED hsmVars => UNCHANGED Hsm!vars
        /\ UNCHANGED consoleVars => UNCHANGED Console!vars
        /\ UNCHANGED radioVars => UNCHANGED Radio!vars
    BY DEF timeVars, hsmVars, consoleVars, radioVars, Time!vars, Time!list, Hsm!vars, Console!vars, Radio!vars,
           Radio!loopVars, Radio!rxVars, Radio!txVars
  <2> QED BY <1>2, <2>1 DEF MCNext, Of
<1> QED BY <1>1, <1>2, PTL DEF MCSpec, Each, Spec, Time!Spec, Hsm!Spec, Console!Spec, Radio!Spec

\* The types of the five and the list's links, for all sizes of the buffers, any
\* number of time events and every tree of states.
THEOREM LibrariesTyped == ASSUME LibrariesAssumption PROVE Each => []LibrariesTypeOK
BY QueueTyped, TimeTypes, HsmTyped, ConsoleTypes, RadioTypes, PTL DEF Each, LibrariesTypeOK
=============================================================================
