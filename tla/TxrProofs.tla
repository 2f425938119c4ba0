----------------------------- MODULE TxrProofs -----------------------------
(***************************************************************************)
(* Safety of the hand unit's control, for every length of the queue, size  *)
(* of the pool, set of buttons and choice of intervals.                    *)
(***************************************************************************)
EXTENDS Txr, TLAPS, FiniteSetTheorems, SequenceTheorems

-----------------------------------------------------------------------------
(* Sequences.                                                              *)

\* What a concatenation holds.
LEMMA ConcatHolds ==
  ASSUME NEW S, NEW s \in Seq(S), NEW t \in Seq(S), NEW x
  PROVE  x \in Range(s \o t) <=> x \in Range(s) \/ x \in Range(t)
BY RangeConcatenation

\* Two lists without repetition and without a common element make another.
LEMMA ConcatInjective ==
  ASSUME NEW S, NEW s \in Seq(S), NEW t \in Seq(S),
         IsInjective(s), IsInjective(t),
         Range(s) \cap Range(t) = {}
  PROVE  IsInjective(s \o t)
<1>1. /\ Len(s) \in Nat /\ DOMAIN s = 1..Len(s)
      /\ Len(t) \in Nat /\ DOMAIN t = 1..Len(t)
  BY LenProperties
<1>2. /\ DOMAIN (s \o t) = 1..(Len(s) + Len(t))
      /\ \A i \in 1..(Len(s) + Len(t)) :
           (s \o t)[i] = IF i <= Len(s) THEN s[i] ELSE t[i - Len(s)]
  BY ConcatProperties, LenProperties
<1>3. SUFFICES ASSUME NEW i \in 1..(Len(s) + Len(t)), NEW j \in 1..(Len(s) + Len(t)),
                      (s \o t)[i] = (s \o t)[j]
               PROVE  i = j
  BY <1>2 DEF IsInjective
<1>4. CASE i <= Len(s) /\ j <= Len(s)
  BY <1>1, <1>2, <1>3, <1>4 DEF IsInjective
<1>5. CASE i > Len(s) /\ j > Len(s)
  <2>1. i - Len(s) \in DOMAIN t /\ j - Len(s) \in DOMAIN t
    BY <1>1, <1>5
  <2>2. t[i - Len(s)] = t[j - Len(s)]
    BY <1>1, <1>2, <1>3, <1>5
  <2> QED
    BY <1>1, <2>1, <2>2 DEF IsInjective
<1>6. \A k \in DOMAIN s, l \in DOMAIN t : s[k] # t[l]
  BY DEF Range
<1>7. CASE i <= Len(s) /\ j > Len(s)
  <2>1. i \in DOMAIN s /\ j - Len(s) \in DOMAIN t
    BY <1>1, <1>7
  <2> QED
    BY <1>1, <1>2, <1>3, <1>6, <1>7, <2>1
<1>8. CASE i > Len(s) /\ j <= Len(s)
  <2>1. i - Len(s) \in DOMAIN t /\ j \in DOMAIN s
    BY <1>1, <1>8
  <2> QED
    BY <1>1, <1>2, <1>3, <1>6, <1>8, <2>1
<1> QED
  BY <1>1, <1>4, <1>5, <1>7, <1>8

\* Both facts, and the range, at once.
LEMMA ConcatFacts ==
  ASSUME NEW S, NEW s \in Seq(S), NEW t \in Seq(S),
         IsInjective(s), IsInjective(t),
         Range(s) \cap Range(t) = {}
  PROVE  /\ s \o t \in Seq(S)
         /\ IsInjective(s \o t)
         /\ Range(s \o t) = Range(s) \cup Range(t)
<1>1. s \o t \in Seq(S)
  BY ConcatProperties
<1>2. IsInjective(s \o t)
  BY ConcatInjective
<1>3. Range(s \o t) = Range(s) \cup Range(t)
  BY RangeConcatenation
<1> QED
  BY <1>1, <1>2, <1>3

\* s holds x at most once.
HoldsOnce(s, x) == \A i, j \in DOMAIN s : s[i] = x /\ s[j] = x => i = j

LEMMA ConcatHoldsOnce ==
  ASSUME NEW S, NEW s \in Seq(S), NEW t \in Seq(S), NEW x,
         HoldsOnce(s, x), IsInjective(t), ~(x \in Range(s) /\ x \in Range(t))
  PROVE  HoldsOnce(s \o t, x)
<1>1. /\ Len(s) \in Nat /\ DOMAIN s = 1..Len(s)
      /\ Len(t) \in Nat /\ DOMAIN t = 1..Len(t)
  BY LenProperties
<1>2. /\ DOMAIN (s \o t) = 1..(Len(s) + Len(t))
      /\ \A i \in 1..(Len(s) + Len(t)) :
           (s \o t)[i] = IF i <= Len(s) THEN s[i] ELSE t[i - Len(s)]
  BY ConcatProperties, LenProperties
<1>3. SUFFICES ASSUME NEW i \in 1..(Len(s) + Len(t)), NEW j \in 1..(Len(s) + Len(t)),
                      (s \o t)[i] = x, (s \o t)[j] = x
               PROVE  i = j
  BY <1>2 DEF HoldsOnce
<1>4. \A k \in 1..(Len(s) + Len(t)) :
        (s \o t)[k] = x => \/ k <= Len(s) /\ k \in DOMAIN s /\ s[k] = x /\ x \in Range(s)
                          \/ /\ k > Len(s) /\ k - Len(s) \in DOMAIN t
                             /\ t[k - Len(s)] = x /\ x \in Range(t)
  BY <1>1, <1>2 DEF Range
<1>5. CASE x \in Range(s)
  BY <1>3, <1>4, <1>5 DEF HoldsOnce
<1>6. CASE x \notin Range(s)
  <2>1. i - Len(s) \in DOMAIN t /\ j - Len(s) \in DOMAIN t
        /\ t[i - Len(s)] = x /\ t[j - Len(s)] = x
    BY <1>3, <1>4, <1>6
  <2>2. i - Len(s) = j - Len(s)
    BY <2>1 DEF IsInjective
  <2> QED
    BY <1>1, <2>2
<1> QED
  BY <1>5, <1>6

\* What is left when the first is taken.
LEMMA HeadTailHolds ==
  ASSUME NEW S, NEW s \in Seq(S), s # <<>>, NEW x
  PROVE  /\ x \in Range(s) <=> x = Head(s) \/ x \in Range(Tail(s))
         /\ HoldsOnce(s, x) => /\ HoldsOnce(Tail(s), x)
                               /\ x = Head(s) => x \notin Range(Tail(s))
<1>1. /\ Len(s) \in Nat \ {0} /\ DOMAIN s = 1..Len(s) /\ Head(s) = s[1]
      /\ Tail(s) \in Seq(S) /\ Len(Tail(s)) = Len(s) - 1
      /\ \A i \in 1..(Len(s) - 1) : Tail(s)[i] = s[i + 1]
  BY EmptySeq, LenProperties, HeadTailProperties
<1>2. DOMAIN Tail(s) = 1..(Len(s) - 1)
  BY <1>1, LenProperties
<1>3. \A i \in 1..Len(s) : i = 1 \/ \E k \in 1..(Len(s) - 1) : s[i] = Tail(s)[k]
  <2> SUFFICES ASSUME NEW i \in 1..Len(s), i # 1
               PROVE  \E k \in 1..(Len(s) - 1) : s[i] = Tail(s)[k]
    OBVIOUS
  <2>1. i - 1 \in 1..(Len(s) - 1) /\ (i - 1) + 1 = i
    BY <1>1
  <2>2. s[i] = Tail(s)[i - 1]
    BY <1>1, <2>1
  <2> QED
    BY <2>1, <2>2
<1>4. \A i \in 1..(Len(s) - 1) : i + 1 \in 1..Len(s) /\ s[i + 1] = Tail(s)[i] /\ i + 1 # 1
  BY <1>1
<1>5. 1 \in 1..Len(s)
  BY <1>1
<1>6. x \in Range(s) <=> x = Head(s) \/ x \in Range(Tail(s))
  <2>1. ASSUME x \in Range(s) PROVE x = Head(s) \/ x \in Range(Tail(s))
    <3>1. PICK i \in 1..Len(s) : s[i] = x
      BY <1>1, <2>1 DEF Range
    <3> QED
      BY <1>1, <1>2, <1>3, <3>1 DEF Range
  <2>2. x = Head(s) => x \in Range(s)
    BY <1>1, <1>5 DEF Range
  <2>3. ASSUME x \in Range(Tail(s)) PROVE x \in Range(s)
    <3>1. PICK i \in 1..(Len(s) - 1) : Tail(s)[i] = x
      BY <1>2, <2>3 DEF Range
    <3> QED
      BY <1>1, <1>4, <3>1 DEF Range
  <2> QED
    BY <2>1, <2>2, <2>3
<1>7. HoldsOnce(s, x) => HoldsOnce(Tail(s), x)
  <2> SUFFICES ASSUME HoldsOnce(s, x), NEW i \in 1..(Len(s) - 1), NEW j \in 1..(Len(s) - 1),
                      Tail(s)[i] = x, Tail(s)[j] = x
               PROVE  i = j
    BY <1>2 DEF HoldsOnce
  <2>1. i + 1 = j + 1
    BY <1>1, <1>4 DEF HoldsOnce
  <2> QED
    BY <2>1
<1>8. HoldsOnce(s, x) /\ x = Head(s) => x \notin Range(Tail(s))
  BY <1>1, <1>2, <1>4, <1>5 DEF HoldsOnce, Range
<1> QED
  BY <1>6, <1>7, <1>8

\* A list of the elements of a set is a sequence over it.
LEMMA OrdersAreSequences ==
  ASSUME NEW S, IsFiniteSet(S), NEW s \in Orders(S)
  PROVE  s \in Seq(S) /\ Range(s) = S /\ IsInjective(s)
<1>1. Cardinality(S) \in Nat
  BY FS_CardinalityType
<1> QED
  BY <1>1, SeqDef DEF Orders

\* A finite set can be listed.
LEMMA OrdersExist ==
  ASSUME NEW S, IsFiniteSet(S)
  PROVE  Orders(S) # {}
<1>1. PICK f : f \in Bijection(1..Cardinality(S), S)
  BY FS_CardinalityType DEF ExistsBijection
<1>2. f \in [1..Cardinality(S) -> S] /\ IsInjective(f)
  BY <1>1 DEF Bijection, Injection
<1>3. Range(f) = S
  BY <1>1, <1>2 DEF Bijection, Surjection, Range
<1> QED
  BY <1>2, <1>3 DEF Orders

-----------------------------------------------------------------------------
(* What one interrupt adds to the queue.                                   *)

LEMMA TimeSigsFinite == IsFiniteSet(TimeSigs)
<1> DEFINE periodic == {"SEND_TIMEOUT_SIG", "SPEED_AND_ACCEL_TIMEOUT_SIG",
                        "FLUSH_SETTINGS_TIMEOUT_SIG", "ALIVE_SIG"}
           a == {} \cup {"SEND_TIMEOUT_SIG"}
           b == a \cup {"SPEED_AND_ACCEL_TIMEOUT_SIG"}
           c == b \cup {"FLUSH_SETTINGS_TIMEOUT_SIG"}
           d == c \cup {"ALIVE_SIG"}
           e == d \cup {"FLASH_RATE_SIG"}
           f == e \cup {"CALIBRATION_SIG"}
           g == f \cup {"DOUBLE_TAP_SIG"}
<1>1. IsFiniteSet(a)
  BY FS_EmptySet, FS_AddElement
<1>2. IsFiniteSet(b)
  BY <1>1, FS_AddElement
<1>3. IsFiniteSet(c)
  BY <1>2, FS_AddElement
<1>4. IsFiniteSet(d)
  BY <1>3, FS_AddElement
<1>5. IsFiniteSet(e)
  BY <1>4, FS_AddElement
<1>6. IsFiniteSet(f)
  BY <1>5, FS_AddElement
<1>7. IsFiniteSet(g)
  BY <1>6, FS_AddElement
<1>8. TimeSigs \subseteq g
  BY TxrAssumption DEF TimeSigs, OneShotSigs
<1> QED
  BY <1>7, <1>8, FS_Subset

\* The interrupt posts the time events that expire, each once.
LEMMA ExpiredPostsFacts ==
  ASSUME NEW order \in ExpiredPosts
  PROVE  order \in Seq(TimeSigs) /\ Range(order) = Expired /\ IsInjective(order)
<1> DEFINE P == Expired \cap PeriodicSigs
           O == Expired \cap OneShotSigs
           last == CHOOSE s \in Orders(P) : TRUE
<1>1. IsFiniteSet(P) /\ IsFiniteSet(O) /\ P \subseteq TimeSigs /\ O \subseteq TimeSigs
  BY TimeSigsFinite, FS_Subset DEF Expired
<1>2. P \cap O = {} /\ P \cup O = Expired
  BY TxrAssumption DEF Expired, TimeSigs, OneShotSigs
<1>3. PICK first \in Orders(O) : order = first \o last
  BY DEF ExpiredPosts
<1>4. last \in Orders(P)
  BY <1>1, OrdersExist
<1> HIDE DEF P, O, last
<1>5. /\ first \in Seq(O) /\ Range(first) = O /\ IsInjective(first)
      /\ last \in Seq(P) /\ Range(last) = P /\ IsInjective(last)
  BY <1>1, <1>3, <1>4, OrdersAreSequences
<1>6. first \in Seq(TimeSigs) /\ last \in Seq(TimeSigs)
  BY <1>1, <1>5, SeqMonotonic
<1>7. order \in Seq(TimeSigs)
  BY <1>3, <1>6, ConcatProperties
<1>8. Range(order) = Expired
  <2>1. Range(first \o last) = Range(first) \cup Range(last)
    BY <1>6, RangeConcatenation
  <2> QED
    BY <1>2, <1>3, <1>5, <2>1
<1>9. IsInjective(order)
  BY <1>2, <1>3, <1>5, <1>6, ConcatInjective
<1> QED
  BY <1>7, <1>8, <1>9

\* A list of one event.
LEMMA SingletonSeq ==
  ASSUME NEW S, NEW x \in S
  PROVE  <<x>> \in Seq(S) /\ Range(<<x>>) = {x} /\ IsInjective(<<x>>) /\ Len(<<x>>) = 1
BY DEF Range, IsInjective

LEMMA EmptySeqFacts ==
  ASSUME NEW S
  PROVE  <<>> \in Seq(S) /\ Range(<<>>) = {} /\ IsInjective(<<>>) /\ Len(<<>>) = 0
BY DEF Range, IsInjective

\* The interrupt publishes no signal twice, and a mode signal exactly when the
\* lever has moved: then the lever's.
LEMMA PublishedFacts ==
  ASSUME TypeOK, NEW b \in BOOLEAN, NEW held \in SUBSET PositionButtons
  PROVE  /\ Published(b, held) \in Seq(PooledSigs)
         /\ IsInjective(Published(b, held))
         /\ \A m \in ModeSigs :
              m \in Range(Published(b, held)) <=> m = lever /\ lever # prev_mode_state
<1> DEFINE e == EncPosts(b)
           m == ModePosts
           p == PositionPosts(held)
<1>1. /\ e \in Seq(PooledSigs) /\ IsInjective(e)
      /\ Range(e) \subseteq {"ENC_DOWN_SIG", "ENC_UP_SIG"}
  <2>1. e \in {<<>>, <<"ENC_DOWN_SIG">>, <<"ENC_UP_SIG">>}
    BY DEF EncPosts
  <2>2. "ENC_DOWN_SIG" \in PooledSigs /\ "ENC_UP_SIG" \in PooledSigs
    BY DEF PooledSigs
  <2> HIDE DEF e
  <2>3. CASE e = <<>>
    BY <2>3, EmptySeqFacts
  <2>4. CASE e = <<"ENC_DOWN_SIG">>
    BY <2>2, <2>4, SingletonSeq
  <2>5. CASE e = <<"ENC_UP_SIG">>
    BY <2>2, <2>5, SingletonSeq
  <2> QED
    BY <2>1, <2>3, <2>4, <2>5
<1>2. /\ m \in Seq(PooledSigs) /\ IsInjective(m)
      /\ Range(m) = IF lever = prev_mode_state THEN {} ELSE {lever}
      /\ lever \in ModeSigs
  BY SingletonSeq, EmptySeqFacts DEF ModePosts, PooledSigs, TypeOK
<1>3. /\ p \in Seq(PooledSigs) /\ IsInjective(p)
      /\ Range(p) \subseteq {"POSITION_BUTTON_SIG"}
  BY SingletonSeq, EmptySeqFacts DEF PositionPosts, PooledSigs
<1> HIDE DEF e, m, p
<1>4. /\ m \o p \in Seq(PooledSigs) /\ IsInjective(m \o p)
      /\ Range(m \o p) = Range(m) \cup Range(p)
  <2>1. Range(m) \cap Range(p) = {}
    BY <1>2, <1>3 DEF ModeSigs
  <2> QED
    BY <1>2, <1>3, <2>1, ConcatFacts
<1>5. /\ (e \o m) \o p = e \o (m \o p)
  BY <1>1, <1>2, <1>3, ConcatAssociative
<1> DEFINE mp == m \o p
<1> HIDE DEF mp
<1>6. /\ e \o mp \in Seq(PooledSigs) /\ IsInjective(e \o mp)
      /\ Range(e \o mp) = Range(e) \cup Range(mp)
  <2>1. Range(e) \cap Range(mp) = {}
    BY <1>1, <1>2, <1>3, <1>4 DEF ModeSigs, mp
  <2>2. mp \in Seq(PooledSigs) /\ IsInjective(mp)
    BY <1>4 DEF mp
  <2> QED
    BY <1>1, <2>1, <2>2, ConcatFacts
<1>7. Published(b, held) = e \o mp
  BY <1>5 DEF Published, e, m, p, mp
<1>8. \A x \in ModeSigs : x \in Range(e \o mp) <=> x = lever /\ lever # prev_mode_state
  BY <1>1, <1>2, <1>3, <1>4, <1>6 DEF ModeSigs, mp
<1> QED
  BY <1>6, <1>7, <1>8

\* Both together.
LEMMA PostsFacts ==
  ASSUME TypeOK, NEW b \in BOOLEAN, NEW held \in SUBSET PositionButtons,
         NEW order \in ExpiredPosts
  PROVE  /\ order \o Published(b, held) \in Seq(Sigs)
         /\ IsInjective(order \o Published(b, held))
         /\ \A t \in TimeSigs :
              t \in Range(order \o Published(b, held)) <=> ctr[t] = 1
         /\ \A m \in ModeSigs :
              m \in Range(order \o Published(b, held))
                <=> m = lever /\ lever # prev_mode_state
<1> DEFINE pub == Published(b, held)
<1>1. /\ order \in Seq(TimeSigs) /\ Range(order) = Expired /\ IsInjective(order)
  BY ExpiredPostsFacts
<1>2. /\ pub \in Seq(PooledSigs) /\ IsInjective(pub)
      /\ \A m \in ModeSigs : m \in Range(pub) <=> m = lever /\ lever # prev_mode_state
  BY PublishedFacts
<1> HIDE DEF pub
<1>3. Range(order) \subseteq TimeSigs /\ Range(pub) \subseteq PooledSigs
  BY <1>1, <1>2, RangeOfSeq
<1>4. TimeSigs \cap PooledSigs = {} /\ ModeSigs \subseteq PooledSigs
  BY TxrAssumption DEF TimeSigs, OneShotSigs, PooledSigs, ModeSigs
<1>5. order \in Seq(Sigs) /\ pub \in Seq(Sigs)
  BY <1>1, <1>2, SeqMonotonic DEF Sigs
<1>6. order \o pub \in Seq(Sigs) /\ Range(order \o pub) = Range(order) \cup Range(pub)
  BY <1>5, ConcatProperties, RangeConcatenation
<1>7. IsInjective(order \o pub)
  BY <1>1, <1>2, <1>3, <1>4, <1>5, ConcatInjective
<1>8. \A t \in TimeSigs : t \in Range(order \o pub) <=> ctr[t] = 1
  BY <1>1, <1>3, <1>4, <1>6 DEF Expired
<1>9. \A m \in ModeSigs : m \in Range(order \o pub) <=> m = lever /\ lever # prev_mode_state
  BY <1>2, <1>3, <1>4, <1>6
<1> QED
  BY <1>6, <1>7, <1>8, <1>9 DEF pub

\* An interrupt that fails no assertion extends the queue by such a list.
LEMMA TickAdds ==
  ASSUME TypeOK, NEW b \in BOOLEAN, NEW held \in SUBSET PositionButtons,
         TickAccepted(b, held)
  PROVE  \E posts \in Seq(Sigs) :
           /\ queue' = queue \o posts
           /\ Len(queue) + Len(posts) <= QueueLen + 1
           /\ IsInjective(posts)
           /\ \A t \in TimeSigs : t \in Range(posts) <=> ctr[t] = 1
           /\ \A m \in ModeSigs :
                m \in Range(posts) <=> m = lever /\ lever # prev_mode_state
<1> DEFINE pub == Published(b, held)
<1>1. PICK order \in ExpiredPosts : /\ Len(queue) + Len(order \o pub) <= QueueLen + 1
                                   /\ queue' = (queue \o order) \o pub
  BY DEF TickAccepted, QueueTakes
<1>2. order \in Seq(Sigs) /\ pub \in Seq(Sigs) /\ queue \in Seq(Sigs)
  BY ExpiredPostsFacts, PublishedFacts, SeqMonotonic DEF Sigs, TypeOK
<1>3. queue' = queue \o (order \o pub)
  BY <1>1, <1>2, ConcatAssociative
<1>4. /\ order \o pub \in Seq(Sigs)
      /\ IsInjective(order \o pub)
      /\ \A t \in TimeSigs : t \in Range(order \o pub) <=> ctr[t] = 1
      /\ \A m \in ModeSigs :
           m \in Range(order \o pub) <=> m = lever /\ lever # prev_mode_state
  BY PostsFacts
<1> HIDE DEF pub
<1> QED
  BY <1>1, <1>3, <1>4

-----------------------------------------------------------------------------
(* Types, and the presses that fit the state.                              *)

\* The two are inductive only together: the third press that would take
\* enc_pushes out of its type is excluded by the state it would come in.
Typed == TypeOK /\ PressesFitState

LEMMA TypedInit == Init => Typed
<1> SUFFICES ASSUME Init PROVE TypeOK /\ PressesFitState
  BY DEF Typed
<1>1. InitialTimers \in [TimeSigs -> Nat]
  BY TxrAssumption DEF InitialTimers
<1>2. state \in Modes \cup {"uncalibrated"}
  BY DEF Init, InitialStates, ModeOf, Modes, ModeSigs
<1>3. queue \in Seq(Sigs) /\ Len(queue) = 0
  BY EmptySeqFacts DEF Init
<1>4. TypeOK
  <2>1. /\ QueueLen \in Nat /\ PoolSize \in Nat
        /\ state \in States /\ Len(queue) <= QueueLen + 1
    BY <1>2, <1>3, TxrAssumption DEF States
  <2>2. ctr \in [TimeSigs -> Nat] /\ interval \in [TimeSigs -> Nat]
    BY <1>1 DEF Init
  <2>3. /\ enc_pushes \in 0..2
        /\ free \in Nat /\ cur \in Sigs \cup {NoEvt}
    BY <2>1 DEF Init
  <2>5. /\ double_tapping \in BOOLEAN /\ flashing_position_button \in BOOLEAN
        /\ prev_button_state \in BOOLEAN
    BY Zenon DEF Init
  <2>4. /\ prev_mode_state \in ModeSigs \cup {"none"}
        /\ prev_position_state \in SUBSET PositionButtons
        /\ lever \in ModeSigs /\ fault \in Faults \cup {"none"}
    BY <2>1 DEF Init
  <2> QED
    BY <1>3, <2>1, <2>2, <2>3, <2>4, <2>5 DEF TypeOK
<1>5. PressesFitState
  BY <1>2 DEF Init, PressesFitState, Modes
<1> QED
  BY <1>4, <1>5

LEMMA TypedStep == Typed /\ [Next]_vars => Typed'
<1> SUFFICES ASSUME TypeOK, PressesFitState, [Next]_vars
             PROVE  TypeOK' /\ PressesFitState'
  BY DEF Typed
<1> USE DEF PressesFitState
<1>1. /\ "FLASH_RATE_SIG" \in TimeSigs /\ "CALIBRATION_SIG" \in TimeSigs
      /\ "DOUBLE_TAP_SIG" \in TimeSigs
      /\ FlashRateTout \in Nat /\ FlashDurationTout \in Nat /\ DoubleTapTout \in Nat
      /\ PoolSize \in Nat /\ QueueLen \in Nat
      /\ \A m \in ModeSigs : ModeOf[m] \in Modes
      /\ Modes \subseteq States /\ "uncalibrated" \in States \ Modes
      /\ "flashing" \in States \ Modes
  BY TxrAssumption DEF TimeSigs, OneShotSigs, ModeSigs, ModeOf, Modes, States
<1>2. ASSUME NEW f \in Faults, Fail(f)
      PROVE  TypeOK' /\ PressesFitState'
  BY <1>2 DEF Fail, TypeOK, aoVars, timerVars, evtVars, sampleVars
<1>3. CASE Tick
  <2>1. PICK b \in BOOLEAN, held \in SUBSET PositionButtons :
               TickAccepted(b, held) \/ TickRefused(b, held)
    BY <1>3 DEF Tick
  <2>2. CASE TickAccepted(b, held)
    <3>1. queue' \in Seq(Sigs) /\ Len(queue') <= QueueLen + 1
      <4>1. PICK posts \in Seq(Sigs) : /\ queue' = queue \o posts
                                       /\ Len(queue) + Len(posts) <= QueueLen + 1
        BY <2>2, TickAdds
      <4> QED
        BY <4>1, ConcatProperties DEF TypeOK
    <3>2. free' \in Nat
      <4>1. Len(Published(b, held)) \in Nat
        BY PublishedFacts, LenProperties
      <4> QED
        BY <2>2, <4>1 DEF TickAccepted, TypeOK
    <3>3. ctr' \in [TimeSigs -> Nat]
      BY <2>2 DEF TickAccepted, TickedCtr, TypeOK
    <3> QED
      BY <2>2, <3>1, <3>2, <3>3 DEF TickAccepted, TypeOK, aoVars
  <2>3. CASE TickRefused(b, held)
    BY <1>2, <2>3 DEF TickRefused, Faults
  <2> QED
    BY <2>1, <2>2, <2>3
<1>4. CASE MoveLever
  BY <1>4 DEF MoveLever, TypeOK, aoVars, timerVars, evtVars, sampleVars
<1>5. CASE Get
  <2>1. /\ Head(queue) \in Sigs /\ Tail(queue) \in Seq(Sigs)
        /\ Len(Tail(queue)) = Len(queue) - 1 /\ Len(queue) \in Nat
    BY <1>5, HeadTailProperties, LenProperties DEF Get, TypeOK
  <2> QED
    BY <1>1, <1>5, <2>1 DEF Get, TypeOK, aoVars, timerVars, sampleVars
<1>6. ASSUME Recycle
      PROVE  /\ queue' = queue /\ free' \in Nat /\ cur' = NoEvt /\ lever' = lever
             /\ fault' = fault /\ UNCHANGED sampleVars
  BY <1>6 DEF Recycle, TypeOK
<1>7. CASE UncalibratedEncDown
  <2>1. CASE Recycle /\ FlashingTimers /\ state' = "flashing" /\ enc_pushes' = enc_pushes + 1
    <3>1. /\ ctr' \in [TimeSigs -> Nat] /\ interval' \in [TimeSigs -> Nat]
          /\ UNCHANGED <<double_tapping, flashing_position_button>>
      BY <1>1, <1>6, <1>7, <2>1
         DEF UncalibratedEncDown, FlashingTimers, TypeOK, Fail, Handling
    <3>2. enc_pushes' \in {1, 2}
      BY <1>7, <2>1 DEF UncalibratedEncDown, TypeOK
    <3> QED
      BY <1>1, <1>6, <2>1, <3>1, <3>2 DEF TypeOK, sampleVars
  <2>2. CASE Fail("arm_flash") \/ Fail("arm_calibration")
    BY <1>2, <2>2 DEF Faults, ArmFaults
  <2> QED
    BY <1>7, <2>1, <2>2 DEF UncalibratedEncDown
<1>8. ASSUME NEW m \in Modes, EnterMode(m)
      PROVE  /\ state' = m /\ double_tapping' = FALSE /\ ctr' \in [TimeSigs -> Nat]
             /\ UNCHANGED <<enc_pushes, flashing_position_button, interval>>
  BY <1>1, <1>8 DEF EnterMode, AfterExit, TypeOK
<1>9. CASE FlashingCalibration
  <2>1. CASE enc_pushes >= 2 /\ EnterMode(ModeOf[lever])
    <3>1. ModeOf[lever] \in Modes
      BY <1>1 DEF TypeOK
    <3>2. Recycle
      BY <1>9 DEF FlashingCalibration
    <3>3. enc_pushes = 2
      BY <2>1 DEF TypeOK
    <3> QED
      BY <1>1, <1>6, <1>8, <2>1, <3>1, <3>2, <3>3 DEF TypeOK, sampleVars
  <2>2. CASE enc_pushes < 2
    <3>1. ctr' \in [TimeSigs -> Nat]
      <4>1. ctr' = AfterExit("flashing")
        BY <1>9, <2>2 DEF FlashingCalibration, TypeOK
      <4> QED
        BY <1>1, <4>1 DEF AfterExit, TypeOK
    <3> QED
      BY <1>1, <1>6, <1>9, <2>2, <3>1
         DEF FlashingCalibration, TypeOK, sampleVars, Handling
  <2> QED
    BY <1>9, <2>1, <2>2 DEF FlashingCalibration, TypeOK
<1>10. CASE CalibratedMode
  <2>1. ModeOf[cur] \in Modes
    BY <1>1, <1>10 DEF CalibratedMode
  <2> QED
    BY <1>1, <1>6, <1>8, <1>10, <2>1 DEF CalibratedMode, TypeOK, sampleVars
<1>11. CASE CalibratedDoubleTap
  BY <1>1, <1>6, <1>11 DEF CalibratedDoubleTap, TypeOK, sampleVars, timerVars
<1>12. CASE CalibratedSecondTap
  <2>1. ctr' \in [TimeSigs -> Nat]
    BY <1>1, <1>12 DEF CalibratedSecondTap, AfterExit, TypeOK
  <2> QED
    BY <1>1, <1>6, <1>12, <2>1 DEF CalibratedSecondTap, TypeOK, sampleVars
<1>13. CASE CalibratedTap
  <2>1. CASE Recycle
    BY <1>1, <1>6, <1>13, <2>1
       DEF CalibratedTap, Fail, TypeOK, sampleVars, aoVars, timerVars
  <2>2. CASE ~Recycle
    BY <1>2, <1>13, <2>2 DEF CalibratedTap, Faults, ArmFaults
  <2> QED
    BY <2>1, <2>2
<1>14. CASE SavePosition \/ RecallButton
  <2>1. /\ Recycle /\ FlashButton
        /\ UNCHANGED <<state, enc_pushes, double_tapping>>
    BY <1>14 DEF SavePosition, RecallButton
  <2>2. /\ ctr' \in [TimeSigs -> Nat] /\ interval' \in [TimeSigs -> Nat]
        /\ flashing_position_button' = TRUE
    BY <1>1, <2>1 DEF FlashButton, TypeOK
  <2> QED
    BY <1>6, <2>1, <2>2 DEF TypeOK, sampleVars
<1>15. CASE FlashDone \/ DispatchOther
  BY <1>1, <1>6, <1>15 DEF FlashDone, DispatchOther, TypeOK, sampleVars, aoVars, timerVars
<1>16. CASE Reboot
  <2>1. InitialTimers \in [TimeSigs -> Nat]
    BY TxrAssumption DEF InitialTimers
  <2>2. ModeOf[lever] \in Modes
    BY <1>1 DEF TypeOK
  <2> QED
    <3>1. /\ queue' \in Seq(Sigs) /\ Len(queue') = 0
      BY <1>16, EmptySeqFacts DEF Reboot
    <3>2. state' \in Modes \cup {"uncalibrated"} /\ state' \in States
      BY <1>1, <1>16, <2>2 DEF Reboot, InitialStates
    <3>3. /\ enc_pushes' = 0
          /\ double_tapping' \in BOOLEAN /\ flashing_position_button' \in BOOLEAN
          /\ ctr' \in [TimeSigs -> Nat] /\ interval' \in [TimeSigs -> Nat]
          /\ free' \in Nat /\ cur' = NoEvt /\ prev_button_state' \in BOOLEAN
          /\ prev_mode_state' = "none" /\ prev_position_state' = {}
          /\ lever' = lever /\ fault' = "none"
      BY <1>1, <1>16, <2>1 DEF Reboot
    <3> QED
      BY <1>1, <3>1, <3>2, <3>3 DEF TypeOK
<1>17. CASE UNCHANGED vars
  BY <1>17 DEF vars, aoVars, timerVars, evtVars, sampleVars, TypeOK
<1> QED
  BY <1>3, <1>4, <1>5, <1>7, <1>9, <1>10, <1>11, <1>12, <1>13, <1>14, <1>15, <1>16, <1>17
     DEF Next, Dispatch

\* The variables keep their types; the press count stays within 0..2.
THEOREM TypeCorrect == Spec => []TypeOK
<1>1. Typed => TypeOK
  BY DEF Typed
<1> QED
  BY <1>1, TypedInit, TypedStep, PTL DEF Spec

\* The presses of the calibration button fit the state.
THEOREM PressesCorrect == Spec => []PressesFitState
<1>1. Typed => PressesFitState
  BY DEF Typed
<1> QED
  BY <1>1, TypedInit, TypedStep, PTL DEF Spec

-----------------------------------------------------------------------------
(* The one-shot time events.                                               *)

OnItsWay(t) == ctr[t] # 0 \/ InFlight(t)

\* The interrupt turns a running counter into one queued event, and adds no
\* other event of that signal.
LEMMA TickKeeps ==
  ASSUME TypeOK, NEW b \in BOOLEAN, NEW held \in SUBSET PositionButtons,
         TickAccepted(b, held), NEW t \in TimeSigs
  PROVE  /\ OnItsWay(t) => OnItsWay(t)'
         /\ interval[t] = 0 => (OnItsWay(t)' => OnItsWay(t))
         /\ interval[t] = 0 /\ Once(t) => Once(t)'
<1>1. PICK posts \in Seq(Sigs) : /\ queue' = queue \o posts
                                 /\ IsInjective(posts)
                                 /\ t \in Range(posts) <=> ctr[t] = 1
  BY TickAdds
<1>2. /\ queue \in Seq(Sigs) /\ ctr[t] \in Nat /\ cur' = cur
      /\ ctr'[t] = IF ctr[t] = 1 THEN interval[t] ELSE IF ctr[t] = 0 THEN 0 ELSE ctr[t] - 1
  BY DEF TypeOK, TickAccepted, TickedCtr
<1>3. t \in Range(queue') <=> t \in Range(queue) \/ ctr[t] = 1
  BY <1>1, <1>2, ConcatHolds
<1>4. OnItsWay(t) => OnItsWay(t)'
  BY <1>2, <1>3 DEF OnItsWay, InFlight, Queued
<1>5. ASSUME interval[t] = 0 PROVE OnItsWay(t)' => OnItsWay(t)
  BY <1>2, <1>3, <1>5 DEF OnItsWay, InFlight, Queued
<1>6. ASSUME interval[t] = 0, Once(t) PROVE Once(t)'
  <2>1. HoldsOnce(queue, t) /\ ~(t \in Range(queue) /\ t \in Range(posts))
    BY <1>1, <1>6 DEF Once, HoldsOnce, InFlight, Queued
  <2>2. HoldsOnce(queue', t)
    BY <1>1, <1>2, <2>1, ConcatHoldsOnce
  <2>3. ~(ctr'[t] # 0 /\ (cur = t \/ t \in Range(queue')))
    BY <1>2, <1>3, <1>6 DEF Once, InFlight, Queued
  <2>4. ~(cur = t /\ t \in Range(queue'))
    BY <1>2, <1>3, <1>6 DEF Once, InFlight, Queued
  <2> QED
    BY <1>2, <2>2, <2>3, <2>4 DEF Once, HoldsOnce, InFlight, Queued
<1> QED
  BY <1>4, <1>5, <1>6

\* Taking an event off the queue loses and doubles none.
LEMMA GetKeeps ==
  ASSUME TypeOK, Get, NEW t \in Sigs
  PROVE  /\ InFlight(t)' <=> InFlight(t)
         /\ t \in TimeSigs => (OnItsWay(t)' <=> OnItsWay(t))
         /\ Once(t) => Once(t)'
<1>1. /\ queue \in Seq(Sigs) /\ queue # <<>> /\ cur = NoEvt /\ cur' = Head(queue)
      /\ queue' = Tail(queue) /\ ctr' = ctr
  BY DEF Get, TypeOK, timerVars
<1>2. t # NoEvt
  BY TxrAssumption DEF NoEvt, Sigs, TimeSigs, PooledSigs, OneShotSigs, ModeSigs
<1>3. /\ t \in Range(queue) <=> t = cur' \/ t \in Range(queue')
      /\ HoldsOnce(queue, t) => HoldsOnce(queue', t) /\ (t = cur' => t \notin Range(queue'))
  BY <1>1, HeadTailHolds
<1>4. InFlight(t)' <=> InFlight(t)
  BY <1>1, <1>2, <1>3 DEF InFlight, Queued
<1>5. OnItsWay(t)' <=> OnItsWay(t)
  BY <1>1, <1>4 DEF OnItsWay
<1>6. ASSUME Once(t) PROVE Once(t)'
  <2>1. HoldsOnce(queue', t) /\ ~(cur' = t /\ t \in Range(queue'))
    BY <1>3, <1>6 DEF Once, HoldsOnce
  <2>2. ~(ctr'[t] # 0 /\ InFlight(t)')
    BY <1>1, <1>4, <1>6 DEF Once
  <2> QED
    BY <2>1, <2>2 DEF Once, HoldsOnce, Queued
<1> QED
  BY <1>4, <1>5, <1>6

-----------------------------------------------------------------------------
(* The timeout that ends the flashing.                                     *)

\* CALIBRATION_SIG is a one-shot: were its interval not 0 another would follow.
CalibrationInv == CalibrationTimeout /\ interval["CALIBRATION_SIG"] = 0

LEMMA CalibrationInit == Init => CalibrationInv
<1> SUFFICES ASSUME Init PROVE CalibrationInv
  OBVIOUS
<1>1. state # "flashing"
  BY DEF Init, InitialStates, ModeOf, ModeSigs
<1>2. ctr["CALIBRATION_SIG"] = 0 /\ interval["CALIBRATION_SIG"] = 0
  BY TxrAssumption DEF Init, InitialTimers, TimeSigs, OneShotSigs
<1>3. cur # "CALIBRATION_SIG" /\ Range(queue) = {} /\ DOMAIN queue = {} /\ fault = "none"
  BY EmptySeqFacts DEF Init, NoEvt
<1> QED
  BY <1>1, <1>2, <1>3 DEF CalibrationInv, CalibrationTimeout, Once, InFlight, Queued

LEMMA CalibrationStep == Typed /\ CalibrationInv /\ [Next]_vars => CalibrationInv'
<1> DEFINE C == "CALIBRATION_SIG"
<1> SUFFICES ASSUME TypeOK, PressesFitState, CalibrationInv, [Next]_vars
             PROVE  CalibrationInv'
  BY DEF Typed
<1>1. /\ C \in TimeSigs /\ C \in Sigs /\ C \notin PeriodicSigs /\ C # NoEvt
      /\ "FLASH_RATE_SIG" \in TimeSigs /\ "DOUBLE_TAP_SIG" \in TimeSigs
      /\ FlashDurationTout # 0
      /\ "flashing" \notin Modes
      /\ \A m \in ModeSigs : ModeOf[m] \in Modes
  BY TxrAssumption DEF TimeSigs, Sigs, OneShotSigs, NoEvt, Modes, ModeOf, ModeSigs
<1>2. /\ state = "flashing" <=> OnItsWay(C)
      /\ Once(C) /\ interval[C] = 0 /\ fault # "arm_calibration"
  BY DEF CalibrationInv, CalibrationTimeout, OnItsWay
<1>3. CalibrationInv' <=> /\ state' = "flashing" <=> OnItsWay(C)'
                         /\ Once(C)' /\ interval'[C] = 0 /\ fault' # "arm_calibration"
  BY DEF CalibrationInv, CalibrationTimeout, OnItsWay
<1>4. ASSUME UNCHANGED <<state, ctr, interval, queue, cur>>, fault' # "arm_calibration"
      PROVE  CalibrationInv'
  BY <1>2, <1>3, <1>4 DEF OnItsWay, Once, InFlight, Queued
<1>5. ASSUME NEW f \in Faults \ {"arm_calibration"}, Fail(f) PROVE CalibrationInv'
  BY <1>4, <1>5 DEF Fail, aoVars, timerVars, evtVars
\* A handler that has nothing to do with the signal.
<1>6. ASSUME queue' = queue, cur' = NoEvt, cur # C, ctr'[C] = ctr[C],
             interval'[C] = interval[C], state' = "flashing" <=> state = "flashing",
             fault' = fault
      PROVE  CalibrationInv'
  BY <1>1, <1>2, <1>3, <1>6 DEF OnItsWay, Once, InFlight, Queued
<1>7. ASSUME state # "flashing" PROVE cur # C
  BY <1>2, <1>7 DEF OnItsWay, InFlight
<1>8. CASE Tick
  <2>1. PICK b \in BOOLEAN, held \in SUBSET PositionButtons :
               TickAccepted(b, held) \/ TickRefused(b, held)
    BY <1>8 DEF Tick
  <2>2. CASE TickAccepted(b, held)
    <3>1. /\ OnItsWay(C)' <=> OnItsWay(C)
          /\ Once(C)'
      BY <1>1, <1>2, <2>2, TickKeeps
    <3> QED
      BY <1>2, <1>3, <2>2, <3>1 DEF TickAccepted, aoVars
  <2>3. CASE TickRefused(b, held)
    BY <1>5, <2>3 DEF TickRefused, Faults
  <2> QED
    BY <2>1, <2>2, <2>3
<1>9. CASE Get
  <2>1. /\ OnItsWay(C)' <=> OnItsWay(C)
        /\ Once(C)'
    BY <1>1, <1>2, <1>9, GetKeeps
  <2> QED
    BY <1>2, <1>3, <1>9, <2>1 DEF Get, aoVars, timerVars
<1>10. CASE UncalibratedEncDown
  <2>1. ~OnItsWay(C) /\ ctr[C] = 0
    BY <1>2, <1>10 DEF UncalibratedEncDown, OnItsWay
  <2>2. CASE Recycle /\ FlashingTimers /\ state' = "flashing"
    <3>1. ctr'[C] # 0 /\ interval'[C] = 0 /\ queue' = queue /\ cur' = NoEvt /\ fault' = fault
      BY <1>1, <2>2 DEF Recycle, FlashingTimers, TypeOK
    <3>2. OnItsWay(C)' /\ Once(C)'
      BY <1>1, <1>2, <2>1, <3>1 DEF OnItsWay, Once, InFlight, Queued
    <3> QED
      BY <1>2, <1>3, <2>2, <3>1, <3>2
  <2>3. CASE Fail("arm_flash")
    BY <1>5, <2>3 DEF Faults, ArmFaults
  <2> QED
    BY <1>10, <2>1, <2>2, <2>3 DEF UncalibratedEncDown
<1>11. CASE FlashingCalibration
  <2>1. cur = C /\ ctr[C] = 0 /\ C \notin Range(queue)
    BY <1>2, <1>11 DEF FlashingCalibration, Handling, Once, InFlight, Queued
  <2>2. state' # "flashing" /\ ctr' = AfterExit("flashing") /\ interval' = interval
    BY <1>1, <1>11 DEF FlashingCalibration, EnterMode, TypeOK
  <2>3. ctr'[C] = 0 /\ queue' = queue /\ cur' = NoEvt /\ fault' = fault
    BY <1>1, <1>11, <2>1, <2>2 DEF FlashingCalibration, AfterExit, Recycle, TypeOK
  <2>4. ~OnItsWay(C)' /\ Once(C)'
    BY <1>1, <1>2, <2>1, <2>3 DEF OnItsWay, Once, InFlight, Queued
  <2> QED
    BY <1>2, <1>3, <2>2, <2>3, <2>4
<1>12. CASE CalibratedMode
  <2>1. state' # "flashing" /\ state # "flashing" /\ interval' = interval
    BY <1>1, <1>12 DEF CalibratedMode, EnterMode
  <2>2. ctr'[C] = ctr[C] /\ queue' = queue /\ cur' = NoEvt /\ fault' = fault
    BY <1>1, <1>12 DEF CalibratedMode, EnterMode, AfterExit, Recycle, TypeOK
  <2> QED
    BY <1>6, <1>7, <2>1, <2>2
<1>13. CASE CalibratedDoubleTap
  BY <1>1, <1>6, <1>7, <1>13 DEF CalibratedDoubleTap, Recycle, timerVars
<1>14. CASE CalibratedSecondTap
  <2>1. state' # "flashing" /\ state # "flashing" /\ interval' = interval
    BY <1>1, <1>14 DEF CalibratedSecondTap
  <2>2. ctr'[C] = ctr[C] /\ queue' = queue /\ cur' = NoEvt /\ fault' = fault
    BY <1>1, <1>14 DEF CalibratedSecondTap, AfterExit, Recycle, TypeOK
  <2> QED
    BY <1>6, <1>7, <2>1, <2>2
<1>15. CASE CalibratedTap
  <2>1. state # "flashing"
    BY <1>1, <1>15 DEF CalibratedTap
  <2>2. CASE Fail("arm_double_tap")
    BY <1>5, <2>2 DEF Faults, ArmFaults
  <2>3. CASE ~Fail("arm_double_tap")
    <3>1. /\ ctr'[C] = ctr[C] /\ interval'[C] = interval[C] /\ queue' = queue
          /\ cur' = NoEvt /\ fault' = fault /\ state' = state
      BY <1>1, <1>15, <2>3 DEF CalibratedTap, Recycle, TypeOK
    <3> QED
      BY <1>6, <1>7, <2>1, <3>1
  <2> QED
    BY <2>2, <2>3
<1>16. CASE SavePosition \/ RecallButton
  <2>1. state # "flashing" /\ FlashButton /\ Recycle /\ state' = state
    BY <1>1, <1>16 DEF SavePosition, RecallButton
  <2>2. /\ ctr'[C] = ctr[C] /\ interval'[C] = interval[C] /\ queue' = queue
        /\ cur' = NoEvt /\ fault' = fault
    BY <1>1, <2>1 DEF FlashButton, Recycle, TypeOK
  <2> QED
    BY <1>6, <1>7, <2>1, <2>2
<1>17. CASE FlashDone
  BY <1>1, <1>6, <1>7, <1>17 DEF FlashDone, Recycle, timerVars
<1>18. CASE DispatchOther
  <2>1. cur # C
    BY <1>1, <1>7, <1>18 DEF DispatchOther, NoControl
  <2> QED
    BY <1>6, <1>18, <2>1 DEF DispatchOther, Recycle, timerVars, aoVars
<1>19. CASE MoveLever
  BY <1>2, <1>4, <1>19 DEF MoveLever, aoVars, timerVars, evtVars
<1>20. CASE Reboot
  <2>1. state' # "flashing" /\ fault' = "none"
    BY <1>1, <1>20 DEF Reboot, InitialStates, TypeOK
  <2>2. ctr'[C] = 0 /\ interval'[C] = 0
    BY <1>1, <1>20 DEF Reboot, InitialTimers
  <2>3. Range(queue') = {} /\ DOMAIN queue' = {} /\ cur' = NoEvt
    BY <1>20, EmptySeqFacts DEF Reboot
  <2> QED
    BY <1>1, <1>3, <2>1, <2>2, <2>3 DEF OnItsWay, Once, InFlight, Queued
<1>21. CASE UNCHANGED vars
  BY <1>2, <1>4, <1>21 DEF vars, aoVars, timerVars, evtVars
<1> QED
  BY <1>8, <1>9, <1>10, <1>11, <1>12, <1>13, <1>14, <1>15, <1>16, <1>17, <1>18, <1>19,
     <1>20, <1>21 DEF Next, Dispatch

\* CALIBRATION_SIG is on its way exactly while `flashing` is active, and once.
THEOREM CalibrationCorrect == Spec => []CalibrationTimeout
<1>1. CalibrationInv => CalibrationTimeout
  BY DEF CalibrationInv
<1> QED
  BY <1>1, TypedInit, TypedStep, CalibrationInit, CalibrationStep, PTL DEF Spec

-----------------------------------------------------------------------------
(* The double-tap window.                                                  *)

LEMMA TapInit == Init => TapWindow
BY DEF Init, TapWindow

LEMMA TapStep == Typed /\ TapWindow /\ [Next]_vars => TapWindow'
<1> DEFINE D == "DOUBLE_TAP_SIG"
<1> SUFFICES ASSUME TypeOK, TapWindow, [Next]_vars PROVE TapWindow'
  BY DEF Typed
<1>1. /\ D \in TimeSigs /\ D \in Sigs /\ D \notin PeriodicSigs /\ D # NoEvt
      /\ D \notin ModeSigs
      /\ "FLASH_RATE_SIG" \in TimeSigs /\ DoubleTapTout # 0
      /\ "flashing" \notin Modes /\ "uncalibrated" \notin Modes
      /\ \A m \in ModeSigs : ModeOf[m] \in Modes
  BY TxrAssumption DEF TimeSigs, Sigs, OneShotSigs, NoEvt, Modes, ModeOf, ModeSigs
<1>2. TapWindow <=> (state \in Modes /\ double_tapping => OnItsWay(D))
  BY DEF TapWindow, OnItsWay
<1>3. TapWindow' <=> (state' \in Modes /\ double_tapping' => OnItsWay(D)')
  BY DEF TapWindow, OnItsWay
<1>4. ASSUME UNCHANGED <<state, double_tapping, ctr, queue, cur>> PROVE TapWindow'
  BY <1>4 DEF TapWindow, InFlight, Queued
<1>5. ASSUME NEW f, Fail(f) PROVE TapWindow'
  BY <1>4, <1>5 DEF Fail, aoVars, timerVars, evtVars
<1>6. ASSUME Recycle, cur # D, ctr'[D] = ctr[D], state' = state,
             double_tapping' = double_tapping
      PROVE  TapWindow'
  BY <1>6 DEF TapWindow, InFlight, Queued, Recycle
<1>7. CASE Tick
  <2>1. PICK b \in BOOLEAN, held \in SUBSET PositionButtons :
               TickAccepted(b, held) \/ TickRefused(b, held)
    BY <1>7 DEF Tick
  <2>2. CASE TickAccepted(b, held)
    <3>1. OnItsWay(D) => OnItsWay(D)'
      BY <1>1, <2>2, TickKeeps
    <3> QED
      BY <1>2, <1>3, <2>2, <3>1 DEF TickAccepted, aoVars
  <2> QED
    BY <1>5, <2>1, <2>2 DEF TickRefused
<1>8. CASE Get
  <2>1. OnItsWay(D)' <=> OnItsWay(D)
    BY <1>1, <1>8, GetKeeps
  <2> QED
    BY <1>2, <1>3, <1>8, <2>1 DEF Get, aoVars
<1>9. CASE UncalibratedEncDown
  BY <1>1, <1>5, <1>9 DEF UncalibratedEncDown, TapWindow
<1>10. CASE FlashingCalibration
  BY <1>1, <1>10 DEF FlashingCalibration, EnterMode, TapWindow
<1>11. CASE CalibratedMode
  BY <1>11 DEF CalibratedMode, EnterMode, TapWindow
<1>12. CASE CalibratedDoubleTap
  BY <1>12 DEF CalibratedDoubleTap, TapWindow
<1>13. CASE CalibratedSecondTap
  BY <1>1, <1>13 DEF CalibratedSecondTap, TapWindow
<1>14. CASE CalibratedTap
  <2>1. CASE Fail("arm_double_tap")
    BY <1>5, <2>1
  <2>2. CASE ~Fail("arm_double_tap")
    BY <1>1, <1>14, <2>2 DEF CalibratedTap, TypeOK, TapWindow
  <2> QED
    BY <2>1, <2>2
<1>15. CASE SavePosition \/ RecallButton
  <2>1. /\ FlashButton /\ Recycle /\ state' = state /\ double_tapping' = double_tapping
        /\ cur = "POSITION_BUTTON_SIG"
    BY <1>15 DEF SavePosition, RecallButton, Handling
  <2>2. ctr'[D] = ctr[D]
    BY <1>1, <2>1 DEF FlashButton, TypeOK
  <2> QED
    BY <1>6, <2>1, <2>2
<1>16. CASE FlashDone
  BY <1>6, <1>16 DEF FlashDone, Handling, timerVars
<1>17. CASE DispatchOther
  <2>1. CASE state \in Modes
    <3>1. cur # D
      BY <1>1, <1>17, <2>1 DEF DispatchOther, NoControl
    <3> QED
      BY <1>6, <1>17, <3>1 DEF DispatchOther, aoVars, timerVars
  <2>2. CASE state \notin Modes
    BY <1>17, <2>2 DEF DispatchOther, aoVars, TapWindow
  <2> QED
    BY <2>1, <2>2
<1>18. CASE MoveLever
  BY <1>4, <1>18 DEF MoveLever, aoVars, timerVars, evtVars
<1>19. CASE Reboot
  BY <1>19 DEF Reboot, TapWindow
<1>20. CASE UNCHANGED vars
  BY <1>4, <1>20 DEF vars, aoVars, timerVars, evtVars
<1> QED
  BY <1>7, <1>8, <1>9, <1>10, <1>11, <1>12, <1>13, <1>14, <1>15, <1>16, <1>17, <1>18,
     <1>19, <1>20 DEF Next, Dispatch

\* In a mode, an open double-tap window has its timeout on the way.
THEOREM TapWindowCorrect == Spec => []TapWindow
BY TypedInit, TypedStep, TapInit, TapStep, PTL DEF Spec

-----------------------------------------------------------------------------
(* The agreement of the mode with the lever.                               *)

\* The newest mode event, queued or held, is the interrupt's last sample.
NewestMode ==
  /\ \A i \in DOMAIN queue :
       /\ queue[i] \in ModeSigs
       /\ \A j \in DOMAIN queue : j > i => queue[j] \notin ModeSigs
       => queue[i] = prev_mode_state
  /\ cur \in ModeSigs /\ (\A j \in DOMAIN queue : queue[j] \notin ModeSigs)
       => cur = prev_mode_state

ModeInv == NewestMode /\ ModeAgreement

LEMMA ModeInit == Init => ModeInv
<1> SUFFICES ASSUME Init PROVE ModeInv
  OBVIOUS
<1>1. DOMAIN queue = {} /\ cur \notin ModeSigs /\ prev_mode_state # lever
  BY EmptySeqFacts DEF Init, NoEvt, ModeSigs
<1> QED
  BY <1>1 DEF ModeInv, NewestMode, ModeAgreement

LEMMA ModeStep == Typed /\ ModeInv /\ [Next]_vars => ModeInv'
<1> SUFFICES ASSUME TypeOK, NewestMode, ModeAgreement, [Next]_vars
             PROVE  NewestMode' /\ ModeAgreement'
  BY DEF Typed, ModeInv
<1>1. /\ NoEvt \notin ModeSigs /\ ModeSigs \subseteq Sigs
      /\ "flashing" \notin Modes /\ "uncalibrated" \notin Modes
      /\ lever \in ModeSigs
  BY DEF Sigs, PooledSigs, NoEvt, Modes, ModeSigs, TypeOK
<1>2. queue \in Seq(Sigs) /\ Len(queue) \in Nat /\ DOMAIN queue = 1..Len(queue)
  BY LenProperties DEF TypeOK
<1>3. ASSUME UNCHANGED <<state, queue, cur, prev_mode_state, lever>>
      PROVE  NewestMode' /\ ModeAgreement'
  BY <1>3 DEF NewestMode, ModeAgreement, InFlight, Queued
<1>4. ASSUME NEW f, Fail(f) PROVE NewestMode' /\ ModeAgreement'
  BY <1>3, <1>4 DEF Fail, aoVars, evtVars, sampleVars
\* A handler that leaves the modes, or stays in one and had no mode event.
<1>5. ASSUME Recycle, state' \notin Modes \/ (state' = state /\ cur \notin ModeSigs)
      PROVE  NewestMode' /\ ModeAgreement'
  <2>1. NewestMode'
    BY <1>1, <1>5 DEF NewestMode, Recycle, sampleVars
  <2>2. ModeAgreement'
    BY <1>5 DEF ModeAgreement, InFlight, Queued, Recycle, sampleVars
  <2> QED
    BY <2>1, <2>2
<1>6. CASE Tick
  <2>1. PICK b \in BOOLEAN, held \in SUBSET PositionButtons :
               TickAccepted(b, held) \/ TickRefused(b, held)
    BY <1>6 DEF Tick
  <2>2. CASE TickAccepted(b, held)
    <3>1. PICK posts \in Seq(Sigs) :
                 /\ queue' = queue \o posts
                 /\ \A m \in ModeSigs :
                      m \in Range(posts) <=> m = lever /\ lever # prev_mode_state
      BY <2>2, TickAdds
    <3>2. /\ Len(posts) \in Nat /\ DOMAIN posts = 1..Len(posts)
          /\ DOMAIN queue' = 1..(Len(queue) + Len(posts))
          /\ \A i \in 1..(Len(queue) + Len(posts)) :
               queue'[i] = IF i <= Len(queue) THEN queue[i] ELSE posts[i - Len(queue)]
      BY <1>2, <3>1, ConcatProperties, LenProperties
    <3>3. cur' = cur /\ prev_mode_state' = lever /\ lever' = lever /\ state' = state
      BY <2>2 DEF TickAccepted, aoVars
    <3>4. \A i \in DOMAIN queue' : i > Len(queue) /\ queue'[i] \in ModeSigs
                                  => queue'[i] = lever /\ lever # prev_mode_state
      <4> SUFFICES ASSUME NEW i \in DOMAIN queue', i > Len(queue), queue'[i] \in ModeSigs
                   PROVE  queue'[i] = lever /\ lever # prev_mode_state
        OBVIOUS
      <4>1. i - Len(queue) \in DOMAIN posts /\ queue'[i] = posts[i - Len(queue)]
        BY <1>2, <3>2
      <4>2. queue'[i] \in Range(posts)
        BY <4>1 DEF Range
      <4> QED
        BY <3>1, <4>2
    <3>5. CASE lever = prev_mode_state
      <4>1. /\ DOMAIN queue \subseteq DOMAIN queue'
            /\ \A i \in DOMAIN queue : queue'[i] = queue[i]
            /\ \A i \in DOMAIN queue' : i \in DOMAIN queue \/ queue'[i] \notin ModeSigs
        BY <1>2, <3>2, <3>4, <3>5
      <4>2. NewestMode'
        BY <3>3, <3>5, <4>1 DEF NewestMode
      <4>3. \A m \in ModeSigs : InFlight(m)' <=> InFlight(m)
        BY <3>3, <4>1 DEF InFlight, Queued, Range
      <4>4. ModeAgreement'
        BY <3>3, <3>5, <4>3 DEF ModeAgreement
      <4> QED
        BY <4>2, <4>4
    <3>6. CASE lever # prev_mode_state
      <4>1. PICK k \in DOMAIN posts : posts[k] = lever
        BY <1>1, <3>1, <3>6 DEF Range
      <4>2. /\ Len(queue) + k \in DOMAIN queue' /\ queue'[Len(queue) + k] = lever
            /\ Len(queue) + k > Len(queue)
        BY <1>2, <3>2, <4>1
      <4>3. \A i \in DOMAIN queue' : i > Len(queue) \/ Len(queue) + k > i
        BY <1>2, <3>2, <4>2
      <4>4. NewestMode'
        BY <1>1, <3>3, <3>4, <4>2, <4>3 DEF NewestMode
      <4>5. InFlight(lever)'
        BY <4>2, <3>3 DEF InFlight, Queued, Range
      <4>6. ModeAgreement'
        BY <1>1, <3>3, <4>5 DEF ModeAgreement
      <4> QED
        BY <4>4, <4>6
    <3> QED
      BY <3>5, <3>6
  <2> QED
    BY <1>4, <2>1, <2>2 DEF TickRefused
<1>7. CASE Get
  <2>1. /\ Len(queue) # 0 /\ cur' = queue[1] /\ queue' = Tail(queue)
        /\ Tail(queue) \in Seq(Sigs) /\ Len(Tail(queue)) = Len(queue) - 1
        /\ \A i \in 1..(Len(queue) - 1) : queue'[i] = queue[i + 1]
        /\ prev_mode_state' = prev_mode_state /\ lever' = lever /\ state' = state
    BY <1>2, <1>7, EmptySeq, HeadTailProperties DEF Get, aoVars, sampleVars
  <2>2. DOMAIN queue' = 1..(Len(queue) - 1)
    BY <2>1, LenProperties
  <2>3. \A i \in DOMAIN queue : i = 1 \/ \E k \in DOMAIN queue' : i = k + 1
    <3> SUFFICES ASSUME NEW i \in DOMAIN queue, i # 1 PROVE \E k \in DOMAIN queue' : i = k + 1
      OBVIOUS
    <3>1. i - 1 \in DOMAIN queue' /\ i = (i - 1) + 1
      BY <1>2, <2>1, <2>2
    <3> QED
      BY <3>1
  <2>4. ASSUME NEW i \in DOMAIN queue', queue'[i] \in ModeSigs,
               \A j \in DOMAIN queue' : j > i => queue'[j] \notin ModeSigs
        PROVE  queue'[i] = prev_mode_state
    <3>1. i + 1 \in DOMAIN queue /\ queue[i + 1] = queue'[i]
      BY <1>2, <2>1, <2>2
    <3>2. ASSUME NEW j \in DOMAIN queue, j > i + 1 PROVE queue[j] \notin ModeSigs
      <4>1. PICK k \in DOMAIN queue' : j = k + 1
        BY <1>2, <2>2, <2>3, <3>2
      <4>2. queue[j] = queue'[k] /\ k > i
        BY <2>1, <2>2, <3>2, <4>1
      <4> QED
        BY <2>4, <4>2
    <3> QED
      BY <2>4, <3>1, <3>2 DEF NewestMode
  <2>5. ASSUME cur' \in ModeSigs, \A j \in DOMAIN queue' : queue'[j] \notin ModeSigs
        PROVE  cur' = prev_mode_state
    <3>1. 1 \in DOMAIN queue
      BY <1>2, <2>1
    <3>2. ASSUME NEW j \in DOMAIN queue, j > 1 PROVE queue[j] \notin ModeSigs
      <4>1. PICK k \in DOMAIN queue' : j = k + 1
        BY <1>2, <2>3, <3>2
      <4> QED
        BY <2>1, <2>2, <2>5, <4>1
    <3> QED
      BY <2>1, <2>5, <3>1, <3>2 DEF NewestMode
  <2>6. NewestMode'
    BY <2>1, <2>4, <2>5 DEF NewestMode
  <2>7. \A m \in ModeSigs : InFlight(m)' <=> InFlight(m)
    BY <1>1, <1>7, GetKeeps
  <2>8. ModeAgreement'
    BY <2>1, <2>7 DEF ModeAgreement
  <2> QED
    BY <2>6, <2>8
<1>8. CASE UncalibratedEncDown
  <2>1. CASE Recycle /\ state' = "flashing"
    <3>1. state' \notin Modes
      BY <1>1, <2>1
    <3> QED
      BY <1>5, <2>1, <3>1
  <2> QED
    BY <1>4, <1>8, <2>1 DEF UncalibratedEncDown
<1>9. CASE FlashingCalibration
  <2>1. Recycle /\ cur = "CALIBRATION_SIG" /\ state' \in {"uncalibrated", ModeOf[lever]}
    BY <1>9 DEF FlashingCalibration, EnterMode, Handling
  <2>2. NewestMode'
    BY <1>1, <2>1 DEF NewestMode, Recycle, sampleVars
  <2>3. ModeAgreement'
    BY <1>1, <2>1 DEF ModeAgreement, Recycle
  <2> QED
    BY <2>2, <2>3
<1>10. CASE CalibratedMode
  <2>1. /\ state' = ModeOf[cur] /\ queue' = queue /\ cur' = NoEvt
        /\ prev_mode_state' = prev_mode_state /\ lever' = lever /\ cur \in ModeSigs
    BY <1>10 DEF CalibratedMode, EnterMode, Recycle, sampleVars
  <2>2. NewestMode'
    BY <1>1, <2>1 DEF NewestMode
  <2>3. (\A m \in ModeSigs : ~InFlight(m)') => cur = prev_mode_state
    BY <2>1 DEF NewestMode, InFlight, Queued, Range
  <2>4. ModeAgreement'
    BY <2>1, <2>3 DEF ModeAgreement
  <2> QED
    BY <2>2, <2>4
<1>11. CASE CalibratedDoubleTap \/ FlashDone
  BY <1>5, <1>11 DEF CalibratedDoubleTap, FlashDone, Handling, ModeSigs
<1>12. CASE CalibratedSecondTap
  <2>1. Recycle /\ state' \notin Modes
    BY <1>1, <1>12 DEF CalibratedSecondTap
  <2> QED
    BY <1>5, <2>1
<1>13. CASE CalibratedTap
  BY <1>4, <1>5, <1>13 DEF CalibratedTap, Handling, ModeSigs
<1>14. CASE SavePosition \/ RecallButton
  BY <1>5, <1>14 DEF SavePosition, RecallButton, Handling, ModeSigs
<1>15. CASE DispatchOther
  <2>1. state' = state /\ Recycle
    BY <1>15 DEF DispatchOther, aoVars
  <2>2. state \in Modes => cur \notin ModeSigs
    BY <1>15, TxrAssumption DEF DispatchOther, NoControl, ModeSigs, Modes
  <2>3. state' \notin Modes \/ (state' = state /\ cur \notin ModeSigs)
    BY <2>1, <2>2
  <2> QED
    BY <1>5, <2>1, <2>3
<1>16. CASE MoveLever
  <2>1. lever' # prev_mode_state' /\ UNCHANGED <<queue, cur, prev_mode_state>>
    BY <1>16 DEF MoveLever, ModeSigs, evtVars, sampleVars
  <2> QED
    BY <2>1 DEF NewestMode, ModeAgreement
<1>17. CASE Reboot
  <2>1. DOMAIN queue' = {} /\ cur' \notin ModeSigs /\ prev_mode_state' # lever'
    BY <1>1, <1>17, EmptySeqFacts DEF Reboot, ModeSigs
  <2> QED
    BY <2>1 DEF NewestMode, ModeAgreement
<1>18. CASE UNCHANGED vars
  BY <1>3, <1>18 DEF vars, aoVars, evtVars, sampleVars
<1> QED
  BY <1>6, <1>7, <1>8, <1>9, <1>10, <1>11, <1>12, <1>13, <1>14, <1>15, <1>16, <1>17, <1>18
     DEF Next, Dispatch

\* Once every published lever event has been handled, the mode is the lever's.
THEOREM ModeAgreementCorrect == Spec => []ModeAgreement
<1>1. ModeInv => ModeAgreement
  BY DEF ModeInv
<1> QED
  BY <1>1, TypedInit, TypedStep, ModeInit, ModeStep, PTL DEF Spec

-----------------------------------------------------------------------------
(* The accounting of the event pool.                                       *)

\* Numbers, for leaves that also mention sequences.
LEMMA GetSum ==
  \A f, q, h \in Nat : \A n : f + (q + h) = n => f + q + h = n
OBVIOUS

\* The places of s that hold an event of the pool.
Pooled(s) == {i \in DOMAIN s : s[i] \in PooledSigs}

LEMMA PooledFinite ==
  ASSUME NEW S, NEW s \in Seq(S)
  PROVE  /\ IsFiniteSet(Pooled(s)) /\ Cardinality(Pooled(s)) \in Nat
         /\ Pooled(s) \in SUBSET (1..Len(s))
<1>1. Len(s) \in Nat /\ DOMAIN s = 1..Len(s)
  BY LenProperties
<1>2. IsFiniteSet(1..Len(s))
  BY <1>1, FS_Interval
<1>3. Pooled(s) \in SUBSET (1..Len(s))
  BY <1>1 DEF Pooled
<1> QED
  BY <1>2, <1>3, FS_Subset, FS_CardinalityType

\* Places moved by n are as many as before.
LEMMA ShiftedPlaces ==
  ASSUME NEW T, T \subseteq Nat, IsFiniteSet(T), NEW n \in Nat
  PROVE  /\ IsFiniteSet({i + n : i \in T})
         /\ Cardinality({i + n : i \in T}) = Cardinality(T)
<1> DEFINE U == {i + n : i \in T}
           f == [i \in T |-> i + n]
<1>1. f \in [T -> U]
  OBVIOUS
<1>2. ASSUME NEW i \in T, NEW j \in T, f[i] = f[j] PROVE i = j
  BY <1>2
<1>3. \A u \in U : \E i \in T : f[i] = u
  OBVIOUS
<1>4. f \in Bijection(T, U)
  BY <1>1, <1>2, <1>3 DEF Bijection, Injection, Surjection, IsInjective
<1>5. ExistsBijection(T, U)
  BY <1>4 DEF ExistsBijection
<1> QED
  BY <1>5, FS_Bijection

LEMMA PooledConcat ==
  ASSUME NEW S, NEW s \in Seq(S), NEW t \in Seq(S)
  PROVE  Cardinality(Pooled(s \o t)) = Cardinality(Pooled(s)) + Cardinality(Pooled(t))
<1> DEFINE U == {i + Len(s) : i \in Pooled(t)}
<1>1. /\ Len(s) \in Nat /\ DOMAIN s = 1..Len(s)
      /\ Len(t) \in Nat /\ DOMAIN t = 1..Len(t)
  BY LenProperties
<1>2. /\ DOMAIN (s \o t) = 1..(Len(s) + Len(t))
      /\ \A i \in 1..(Len(s) + Len(t)) :
           (s \o t)[i] = IF i <= Len(s) THEN s[i] ELSE t[i - Len(s)]
  BY ConcatProperties, LenProperties
<1>3. /\ IsFiniteSet(Pooled(s)) /\ IsFiniteSet(Pooled(t))
      /\ Pooled(s) \subseteq 1..Len(s) /\ Pooled(t) \subseteq 1..Len(t)
      /\ Cardinality(Pooled(s)) \in Nat /\ Cardinality(Pooled(t)) \in Nat
  BY PooledFinite
<1>4. IsFiniteSet(U) /\ Cardinality(U) = Cardinality(Pooled(t))
  <2>1. Pooled(t) \subseteq Nat
    BY <1>1, <1>3
  <2> QED
    BY <1>1, <1>3, <2>1, ShiftedPlaces
<1>5. Pooled(s) \cap U = {}
  BY <1>1, <1>3
<1>6. Pooled(s \o t) = Pooled(s) \cup U
  <2>1. ASSUME NEW i \in Pooled(s \o t) PROVE i \in Pooled(s) \cup U
    <3>1. i \in 1..(Len(s) + Len(t)) /\ (s \o t)[i] \in PooledSigs
      BY <1>2, <2>1 DEF Pooled
    <3>2. CASE i <= Len(s)
      BY <1>1, <1>2, <3>1, <3>2 DEF Pooled
    <3>3. CASE i > Len(s)
      <4>1. i - Len(s) \in Pooled(t) /\ i = (i - Len(s)) + Len(s)
        BY <1>1, <1>2, <3>1, <3>3 DEF Pooled
      <4> QED
        BY <4>1
    <3> QED
      BY <1>1, <3>1, <3>2, <3>3
  <2>2. ASSUME NEW i \in Pooled(s) PROVE i \in Pooled(s \o t)
    BY <1>1, <1>2, <2>2 DEF Pooled
  <2>3. ASSUME NEW k \in Pooled(t) PROVE k + Len(s) \in Pooled(s \o t)
    <3>1. k \in 1..Len(t) /\ t[k] \in PooledSigs
      BY <1>1, <2>3 DEF Pooled
    <3>2. /\ k + Len(s) \in 1..(Len(s) + Len(t)) /\ ~(k + Len(s) <= Len(s))
          /\ (k + Len(s)) - Len(s) = k
      BY <1>1, <3>1
    <3> QED
      BY <1>2, <3>1, <3>2 DEF Pooled
  <2> QED
    BY <2>1, <2>2, <2>3
<1>7. Cardinality(Pooled(s) \cap U) = 0
  BY <1>5, FS_EmptySet
<1> HIDE DEF U
<1>8. Cardinality(Pooled(s) \cup U) = Cardinality(Pooled(s)) + Cardinality(U) - 0
  BY <1>3, <1>4, <1>7, FS_Union
<1> QED
  BY <1>3, <1>4, <1>6, <1>8

\* A list that holds nothing else, and one that holds none.
LEMMA PooledAll ==
  ASSUME NEW s \in Seq(PooledSigs)
  PROVE  Cardinality(Pooled(s)) = Len(s)
<1>1. Len(s) \in Nat /\ s \in [1..Len(s) -> PooledSigs] /\ DOMAIN s = 1..Len(s)
  BY LenProperties
<1>2. Pooled(s) = 1..Len(s)
  BY <1>1 DEF Pooled
<1>3. Cardinality(1..Len(s)) = Len(s)
  BY <1>1, FS_Interval
<1> QED
  BY <1>2, <1>3

LEMMA PooledNone ==
  ASSUME NEW s \in Seq(TimeSigs)
  PROVE  Cardinality(Pooled(s)) = 0
<1>1. s \in [1..Len(s) -> TimeSigs] /\ DOMAIN s = 1..Len(s)
  BY LenProperties
<1>2. TimeSigs \cap PooledSigs = {}
  BY TxrAssumption DEF TimeSigs, OneShotSigs, PooledSigs, ModeSigs
<1>3. Pooled(s) = {}
  BY <1>1, <1>2 DEF Pooled
<1> QED
  BY <1>3, FS_EmptySet

\* Taking the first event off the queue takes its block, if it has one.
LEMMA PooledTail ==
  ASSUME NEW S, NEW s \in Seq(S), s # <<>>
  PROVE  Cardinality(Pooled(s)) =
           Cardinality(Pooled(Tail(s))) + (IF Head(s) \in PooledSigs THEN 1 ELSE 0)
<1> DEFINE h == <<Head(s)>>
           c == IF Head(s) \in PooledSigs THEN 1 ELSE 0
<1>1. /\ Len(s) \in Nat \ {0} /\ Head(s) = s[1] /\ Head(s) \in S
      /\ Tail(s) \in Seq(S) /\ Len(Tail(s)) = Len(s) - 1
      /\ \A i \in 1..(Len(s) - 1) : Tail(s)[i] = s[i + 1]
  BY EmptySeq, HeadTailProperties
<1>2. h \in Seq(S) /\ Len(h) = 1 /\ h[1] = Head(s) /\ DOMAIN h = {1}
  BY <1>1
<1>3. Cardinality(Pooled(h)) = c
  <2>1. Pooled(h) = IF Head(s) \in PooledSigs THEN {1} ELSE {}
    BY <1>2 DEF Pooled
  <2> QED
    BY <2>1, FS_Singleton, FS_EmptySet
<1> HIDE DEF h
<1>4. s = h \o Tail(s)
  <2>0. /\ h \o Tail(s) \in Seq(S) /\ Len(h \o Tail(s)) = Len(h) + Len(Tail(s))
        /\ \A i \in 1..(Len(h) + Len(Tail(s))) :
             (h \o Tail(s))[i] = IF i <= Len(h) THEN h[i] ELSE Tail(s)[i - Len(h)]
    <3>1. h \in Seq(S) /\ Tail(s) \in Seq(S)
      BY <1>1, <1>2
    <3> QED
      BY <3>1, ConcatProperties
  <2>1. /\ h \o Tail(s) \in Seq(S) /\ Len(h \o Tail(s)) = 1 + Len(Tail(s))
        /\ \A i \in 1..(1 + Len(Tail(s))) :
             (h \o Tail(s))[i] = IF i <= 1 THEN h[i] ELSE Tail(s)[i - 1]
    BY <1>2, <2>0
  <2>2. ASSUME NEW i \in 1..Len(s) PROVE s[i] = (h \o Tail(s))[i]
    <3>1. CASE i = 1
      BY <1>1, <1>2, <2>1, <3>1
    <3>2. CASE i # 1
      <4>1. i - 1 \in 1..(Len(s) - 1) /\ (i - 1) + 1 = i /\ i \in 1..(1 + Len(Tail(s)))
            /\ ~(i <= 1)
        BY <1>1, <3>2
      <4> QED
        BY <1>1, <2>1, <4>1
    <3> QED
      BY <3>1, <3>2
  <2>3. Len(s) = Len(h \o Tail(s))
    BY <1>1, <2>1
  <2> QED
    BY <2>1, <2>2, <2>3, SeqEqual
<1>5. Cardinality(Pooled(h \o Tail(s))) = Cardinality(Pooled(h)) + Cardinality(Pooled(Tail(s)))
  BY <1>1, <1>2, PooledConcat
<1>6. Cardinality(Pooled(Tail(s))) \in Nat /\ c \in Nat
  BY <1>1, PooledFinite
<1> HIDE DEF c
<1>7. Cardinality(Pooled(s)) = Cardinality(Pooled(Tail(s))) + c
  <2>1. Cardinality(Pooled(s)) = c + Cardinality(Pooled(Tail(s)))
    BY <1>3, <1>4, <1>5
  <2> QED
    BY <1>6, <2>1
<1> QED
  BY <1>7 DEF c

\* The blocks the queue holds, and the one of the event the loop holds.
InQueue == Cardinality(Pooled(queue))
Held == IF cur \in PooledSigs THEN 1 ELSE 0

LEMMA PoolAsSum == PoolAccounting <=> free + InQueue + Held = PoolSize
BY DEF PoolAccounting, PooledQueued, Pooled, InQueue, Held

LEMMA PoolInit == Init => PoolAccounting
<1> SUFFICES ASSUME Init PROVE free + InQueue + Held = PoolSize
  BY PoolAsSum
<1>1. Pooled(queue) = {}
  BY EmptySeqFacts DEF Init, Pooled
<1>2. InQueue = 0
  BY <1>1, FS_EmptySet DEF InQueue
<1>3. Held = 0
  BY DEF Init, Held, NoEvt, PooledSigs, ModeSigs
<1> QED
  BY <1>2, <1>3, TxrAssumption DEF Init

\* An interrupt takes a block for each event it publishes and for no other.
LEMMA TickTakesBlocks ==
  ASSUME TypeOK, NEW b \in BOOLEAN, NEW held \in SUBSET PositionButtons,
         TickAccepted(b, held)
  PROVE  InQueue' = InQueue + Len(Published(b, held)) /\ Len(Published(b, held)) \in Nat
<1> DEFINE pub == Published(b, held)
<1>1. PICK order \in ExpiredPosts : queue' = queue \o order \o pub
  BY DEF TickAccepted
<1>2. order \in Seq(TimeSigs) /\ pub \in Seq(PooledSigs)
  BY ExpiredPostsFacts, PublishedFacts
<1>3. order \in Seq(Sigs) /\ pub \in Seq(Sigs) /\ queue \in Seq(Sigs)
  BY <1>2, SeqMonotonic DEF Sigs, TypeOK
<1>4. queue \o order \in Seq(Sigs)
  BY <1>3, ConcatProperties
<1>5. Len(pub) \in Nat
  BY <1>2, LenProperties
<1>6. /\ Cardinality(Pooled((queue \o order) \o pub))
           = Cardinality(Pooled(queue \o order)) + Cardinality(Pooled(pub))
      /\ Cardinality(Pooled(queue \o order))
           = Cardinality(Pooled(queue)) + Cardinality(Pooled(order))
  BY <1>3, <1>4, PooledConcat
<1>7. Cardinality(Pooled(pub)) = Len(pub) /\ Cardinality(Pooled(order)) = 0
  BY <1>2, PooledAll, PooledNone
<1>8. Cardinality(Pooled(queue)) \in Nat
  BY <1>3, PooledFinite
<1> HIDE DEF pub
<1> QED
  BY <1>1, <1>5, <1>6, <1>7, <1>8 DEF InQueue, pub

LEMMA PoolStep == Typed /\ PoolAccounting /\ [Next]_vars => PoolAccounting'
<1> SUFFICES ASSUME TypeOK, free + InQueue + Held = PoolSize, [Next]_vars
             PROVE  (free + InQueue + Held = PoolSize)'
  BY PoolAsSum DEF Typed, PoolAccounting, PooledQueued, Pooled, InQueue, Held
<1>1. NoEvt \notin PooledSigs
  BY DEF NoEvt, PooledSigs, ModeSigs
<1>2. queue \in Seq(Sigs) /\ free \in Nat /\ PoolSize \in Nat /\ Held \in {0, 1}
  BY TxrAssumption DEF TypeOK, Held
<1>3. InQueue \in Nat
  BY <1>2, PooledFinite DEF InQueue
<1>4. ASSUME UNCHANGED evtVars
      PROVE  (free + InQueue + Held = PoolSize)'
  BY <1>4 DEF evtVars, InQueue, Held, Pooled
<1>5. ASSUME NEW f, Fail(f)
      PROVE  (free + InQueue + Held = PoolSize)'
  BY <1>4, <1>5 DEF Fail
<1>6. ASSUME Recycle
      PROVE  (free + InQueue + Held = PoolSize)'
  <2>1. /\ InQueue' = InQueue /\ Held' = 0 /\ free' = free + Held
    BY <1>1, <1>2, <1>6 DEF Recycle, InQueue, Pooled, Held
  <2> QED
    BY <1>2, <1>3, <2>1
<1>7. CASE Tick
  <2>1. PICK b \in BOOLEAN, held \in SUBSET PositionButtons :
               TickAccepted(b, held) \/ TickRefused(b, held)
    BY <1>7 DEF Tick
  <2>2. CASE TickAccepted(b, held)
    <3>1. /\ InQueue' = InQueue + Len(Published(b, held))
          /\ Len(Published(b, held)) \in Nat
      BY <2>2, TickTakesBlocks
    <3>2. free' = free - Len(Published(b, held)) /\ Held' = Held
      BY <2>2 DEF TickAccepted, Held
    <3> QED
      BY <1>2, <1>3, <3>1, <3>2
  <2> QED
    BY <1>5, <2>1, <2>2 DEF TickRefused
<1>8. CASE Get
  <2>1. /\ queue # <<>> /\ cur = NoEvt /\ cur' = Head(queue) /\ queue' = Tail(queue)
        /\ free' = free
    BY <1>8 DEF Get
  <2>2. Held = 0
    BY <1>1, <2>1 DEF Held
  <2>3. InQueue = InQueue' + Held'
    BY <1>2, <2>1, PooledTail DEF InQueue, Held, Pooled
  <2>4. Tail(queue) \in Seq(Sigs)
    BY <1>2, <2>1, HeadTailProperties
  <2>5. InQueue' \in Nat /\ Held' \in {0, 1}
    BY <2>1, <2>4, PooledFinite DEF InQueue, Held
  <2>6. free + InQueue = PoolSize
    BY <1>2, <1>3, <2>2
  <2>7. free' + InQueue' + Held' = PoolSize
    <3>1. free + (InQueue' + Held') = PoolSize
      BY <2>3, <2>6
    <3>2. free' + (InQueue' + Held') = PoolSize
      BY <2>1, <3>1
    <3>3. free' \in Nat
      BY <1>2, <2>1
    <3>4. InQueue' \in Nat
      BY <2>5
    <3>5. Held' \in Nat
      BY <2>5
    <3> QED
      BY <3>2, <3>3, <3>4, <3>5, GetSum
  <2> QED
    BY <2>7
<1>9. CASE Dispatch
  <2>1. Recycle \/ \E f \in Faults : Fail(f)
    BY <1>9 DEF Dispatch, UncalibratedEncDown, FlashingCalibration, CalibratedMode,
       CalibratedDoubleTap, CalibratedSecondTap, CalibratedTap, SavePosition,
       RecallButton, FlashDone, DispatchOther, Faults, ArmFaults
  <2> QED
    BY <1>5, <1>6, <2>1
<1>10. CASE MoveLever
  BY <1>4, <1>10 DEF MoveLever
<1>11. CASE Reboot
  <2>1. Pooled(queue') = {}
    BY <1>11, EmptySeqFacts DEF Reboot, Pooled
  <2>2. InQueue' = 0
    BY <2>1, FS_EmptySet DEF InQueue, Pooled
  <2>3. Held' = 0 /\ free' = PoolSize
    BY <1>1, <1>11 DEF Reboot, Held
  <2> QED
    BY <1>2, <2>2, <2>3
<1>12. CASE UNCHANGED vars
  BY <1>4, <1>12 DEF vars
<1> QED
  BY <1>7, <1>8, <1>9, <1>10, <1>11, <1>12 DEF Next

\* Every block of the event pool is free, queued or being handled, for every
\* size of the pool: no handler, interrupt or reset loses one or gives one back
\* twice.
THEOREM PoolCorrect == Spec => []PoolAccounting
BY TypedInit, TypedStep, PoolInit, PoolStep, PTL DEF Spec

=============================================================================
