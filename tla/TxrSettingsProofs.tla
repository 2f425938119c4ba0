--------------------------- MODULE TxrSettingsProofs ---------------------------
(***************************************************************************)
(* What the hand unit's settings keep over a loss of power, for every      *)
(* number of presets, every layout of the EEPROM and every sentinel.       *)
(*                                                                         *)
(* The invariant says, for the function the loop is in, which bytes it has *)
(* still to write, and that every byte it is to write is written or among  *)
(* them.  The lists of writes are folded from lists of their own, so what  *)
(* they hold is proved by induction first.                                 *)
(***************************************************************************)
EXTENDS TxrSettings, SequenceTheorems, WellFoundedInduction, TLAPS

-----------------------------------------------------------------------------
-----------------------------------------------------------------------------
(* Induction, and lists of lists.                                          *)

\* The numbers that have a property, as a set.
LEMMA NumbersInduction ==
  ASSUME NEW T \in SUBSET Nat, 0 \in T, \A n \in T : n + 1 \in T
  PROVE  T = Nat
<1> DEFINE R == {ss \in Nat \X Nat : ss[1] < ss[2]}
           U == Nat \ T
<1>1. IsWellFoundedOn(R, Nat)
  BY NatLessThanWellFounded DEF OpToRel
<1>2. SUFFICES ASSUME U # {} PROVE FALSE
  OBVIOUS
<1>3. PICK x \in U : \A y \in U : <<y, x>> \notin R
  BY <1>1, <1>2, WFMin
<1>4. x # 0 /\ x \in Nat
  OBVIOUS
<1>5. x - 1 \in Nat /\ (x - 1) + 1 = x
  BY <1>4
<1>6. x - 1 \in T
  <2>1. x - 1 \in U => <<x - 1, x>> \notin R
    BY <1>3
  <2>2. <<x - 1, x>> \in Nat \X Nat /\ x - 1 < x
    BY <1>4, <1>5
  <2>3. <<x - 1, x>> \in R
    BY <2>2
  <2> QED
    BY <1>5, <2>1, <2>3
<1> QED
  BY <1>5, <1>6

\* What FlattenSeq's function is at i, from what it is before.
Joined(ss, g, i) == IF i = 1 THEN ss[i] ELSE g[i - 1] \o ss[i]

\* The function exists, so that its definition holds of it.
LEMMA JoinedExists ==
  ASSUME NEW ss
  PROVE  \A n \in Nat : \E g : g = [i \in 1..n |-> Joined(ss, g, i)]
<1> DEFINE Fits(g, n) == g = [i \in 1..n |-> Joined(ss, g, i)]
           T == {n \in Nat : \E g : Fits(g, n)}
<1>1. 0 \in T
  <2>1. Fits([i \in 1..0 |-> 0], 0)
    OBVIOUS
  <2> QED
    BY <2>1
<1>2. ASSUME NEW n \in T PROVE n + 1 \in T
  <2>1. PICK g : Fits(g, n)
    OBVIOUS
  <2> DEFINE h == [i \in 1..(n + 1) |-> IF i <= n THEN g[i] ELSE Joined(ss, g, i)]
  <2>2. n \in Nat /\ DOMAIN g = 1..n
    BY <2>1
  <2>3. ASSUME NEW i \in 1..(n + 1) PROVE h[i] = Joined(ss, h, i)
    <3>1. i # 1 => i - 1 \in 1..n /\ i - 1 \in 1..(n + 1) /\ i - 1 <= n
      BY <2>2
    <3>2. i # 1 => h[i - 1] = g[i - 1]
      BY <3>1
    <3>3. Joined(ss, h, i) = Joined(ss, g, i)
      BY <3>2 DEF Joined
    <3>4. i <= n => g[i] = Joined(ss, g, i)
      BY <2>1, <2>2
    <3> QED
      BY <3>3, <3>4
  <2>4. Fits(h, n + 1)
    BY <2>3
  <2> HIDE DEF h, Fits
  <2>5. \E f : Fits(f, n + 1)
    BY <2>4
  <2> QED
    BY <2>2, <2>5
<1> HIDE DEF Fits
<1>3. T \in SUBSET Nat
  OBVIOUS
<1> HIDE DEF T
<1>4. T = Nat
  BY <1>1, <1>2, <1>3, NumbersInduction
<1> QED
  BY <1>4 DEF T, Fits

\* A flattened list holds what its lists hold.
LEMMA FlattenHolds ==
  ASSUME NEW S, NEW ss \in Seq(Seq(S))
  PROVE  /\ FlattenSeq(ss) \in Seq(S)
         /\ Range(FlattenSeq(ss)) = UNION {Range(ss[i]) : i \in 1..Len(ss)}
<1>1. Len(ss) \in Nat /\ \A i \in 1..Len(ss) : ss[i] \in Seq(S)
  BY LenProperties, ElementOfSeq
<1>2. CASE Len(ss) = 0
  <2>1. ss = <<>> /\ FlattenSeq(ss) = ss /\ 1..Len(ss) = {}
    BY <1>2, EmptySeq DEF FlattenSeq
  <2>2. <<>> \in Seq(S) /\ Range(<<>>) = {}
    BY DEF Range
  <2> QED
    BY <2>1, <2>2
<1>3. CASE Len(ss) # 0
  <2> DEFINE g == CHOOSE g : g = [i \in 1..Len(ss) |-> IF i = 1 THEN ss[i] ELSE g[i - 1] \o ss[i]]
             Below(n) == UNION {Range(ss[i]) : i \in 1..n}
             Holds(n) == g[n] \in Seq(S) /\ Range(g[n]) = Below(n)
             T == {n \in Nat : n \in 1..Len(ss) => Holds(n)}
  <2>1. FlattenSeq(ss) = g[Len(ss)]
    BY <1>3 DEF FlattenSeq
  <2>2. g = [i \in 1..Len(ss) |-> IF i = 1 THEN ss[i] ELSE g[i - 1] \o ss[i]]
    <3>1. \E h : h = [i \in 1..Len(ss) |-> IF i = 1 THEN ss[i] ELSE h[i - 1] \o ss[i]]
      BY <1>1, JoinedExists DEF Joined
    <3> QED
      BY <3>1
  <2> HIDE DEF g
  <2>3. \A i \in 1..Len(ss) : g[i] = IF i = 1 THEN ss[i] ELSE g[i - 1] \o ss[i]
    BY <2>2
  <2>4. 0 \in T
    OBVIOUS
  <2>5. ASSUME NEW n \in T PROVE n + 1 \in T
    <3>1. n \in Nat
      OBVIOUS
    <3>2. SUFFICES ASSUME n + 1 \in 1..Len(ss) PROVE Holds(n + 1)
      BY <3>1
    <3>3. CASE n = 0
      <4>1. g[1] = ss[1] /\ ss[1] \in Seq(S) /\ n + 1 = 1
        BY <1>1, <2>3, <3>2, <3>3
      <4>2. Below(1) = Range(ss[1])
        OBVIOUS
      <4> QED
        BY <4>1, <4>2
    <3>4. CASE n # 0
      <4>1. n \in 1..Len(ss) /\ n + 1 # 1 /\ (n + 1) - 1 = n
        BY <1>1, <3>1, <3>2, <3>4
      <4>2. g[n] \in Seq(S) /\ Range(g[n]) = Below(n)
        BY <4>1
      <4>3. g[n + 1] = g[n] \o ss[n + 1] /\ ss[n + 1] \in Seq(S)
        BY <1>1, <2>3, <3>2, <4>1
      <4>4. g[n + 1] \in Seq(S) /\ Range(g[n + 1]) = Range(g[n]) \cup Range(ss[n + 1])
        BY <4>2, <4>3, ConcatProperties, RangeConcatenation
      <4>5. Below(n + 1) = Below(n) \cup Range(ss[n + 1])
        <5>1. 1..(n + 1) = (1..n) \cup {n + 1}
          BY <3>1
        <5> QED
          BY <5>1
      <4> QED
        BY <4>2, <4>4, <4>5
    <3> QED
      BY <3>3, <3>4
  <2> HIDE DEF T
  <2>6. T \in SUBSET Nat
    BY DEF T
  <2>7. T = Nat
    BY <2>4, <2>5, <2>6, NumbersInduction
  <2>8. Holds(Len(ss))
    <3>1. Len(ss) \in T /\ Len(ss) \in 1..Len(ss)
      BY <1>1, <1>3, <2>7
    <3> QED
      BY <3>1 DEF T
  <2> QED
    BY <2>1, <2>8
<1> QED
  BY <1>2, <1>3

-----------------------------------------------------------------------------
(* Addresses.                                                              *)

LEMMA Spread == \A m, a, b \in Nat : a + 2 <= b => m * a + 2 * m <= m * b
<1> SUFFICES ASSUME NEW m \in Nat, NEW a \in Nat, NEW b \in Nat, a + 2 <= b
             PROVE  m * a + 2 * m <= m * b
  OBVIOUS
<1> DEFINE d == b - (a + 2)
<1>1. d \in Nat /\ b = a + 2 + d
  OBVIOUS
<1>2. m * b = m * a + 2 * m + m * d
  BY <1>1
<1>3. m * d \in Nat /\ m * a \in Nat
  BY <1>1
<1> HIDE DEF d
<1> QED
  BY <1>2, <1>3

\* The places of the index, of the sentinel and of the values are in the EEPROM,
\* and no two of them are one.
LEMMA PositionPlace ==
  ASSUME NEW p \in Presets, NEW f \in Fields, NEW k \in 1..2
  PROVE  /\ Position(p, f) \in Nat
         /\ Position(p, f) + k - 1 \in Addresses
         /\ Position(p, f) + k - 1 > PresetIndexOffset
<1>1. /\ MaxProfiles \in Nat /\ ProfileStart \in Nat /\ ProfileSize \in Nat
      /\ Offset[f] \in Nat /\ Offset[f] + 2 <= ProfileSize
      /\ SentinelLoc \in Nat /\ PresetIndexOffset \in Nat
      /\ SentinelLoc <= PresetIndexOffset - 4 /\ PresetIndexOffset < ProfileStart
  BY SettingsAssumption
<1>2. p \in Nat /\ p + 1 <= MaxProfiles
  BY <1>1 DEF Presets
<1>3. MaxProfiles * Offset[f] + 2 * MaxProfiles <= MaxProfiles * ProfileSize
  BY <1>1, Spread
<1>4. MaxProfiles * Offset[f] \in Nat /\ MaxProfiles * ProfileSize \in Nat
  BY <1>1
<1> QED
  BY <1>1, <1>2, <1>3, <1>4 DEF Position, Addresses

LEMMA PositionsApart ==
  ASSUME NEW p \in Presets, NEW f \in Fields, NEW k \in 1..2,
         NEW q \in Presets, NEW g \in Fields, NEW l \in 1..2,
         Position(p, f) + k - 1 = Position(q, g) + l - 1
  PROVE  p = q /\ f = g /\ k = l
<1>1. MaxProfiles \in Nat /\ ProfileStart \in Nat /\ Offset[f] \in Nat /\ Offset[g] \in Nat
  BY SettingsAssumption
<1>2. /\ p \in Nat /\ p + 1 <= MaxProfiles
      /\ q \in Nat /\ q + 1 <= MaxProfiles
  BY <1>1 DEF Presets
<1>3. MaxProfiles * Offset[f] \in Nat /\ MaxProfiles * Offset[g] \in Nat
  BY <1>1
<1>4. MaxProfiles * Offset[f] + 2 * p + k = MaxProfiles * Offset[g] + 2 * q + l
  BY <1>1, <1>2, <1>3 DEF Position
<1>5. f = g
  <2>1. SUFFICES ASSUME f # g PROVE FALSE
    OBVIOUS
  <2>2. Offset[f] + 2 <= Offset[g] \/ Offset[g] + 2 <= Offset[f]
    BY <2>1, SettingsAssumption
  <2>3. \/ MaxProfiles * Offset[f] + 2 * MaxProfiles <= MaxProfiles * Offset[g]
        \/ MaxProfiles * Offset[g] + 2 * MaxProfiles <= MaxProfiles * Offset[f]
    BY <1>1, <2>2, Spread
  <2> QED
    BY <1>1, <1>2, <1>3, <1>4, <2>3
<1> QED
  BY <1>2, <1>3, <1>4, <1>5

LEMMA OtherPlaces ==
  /\ PresetIndexOffset \in Addresses
  /\ \A i \in 1..4 : SentinelLoc + i - 1 \in Addresses /\ SentinelLoc + i - 1 < PresetIndexOffset
  /\ \A i, j \in 1..4 : SentinelLoc + i - 1 = SentinelLoc + j - 1 => i = j
<1>1. /\ MaxProfiles \in Nat /\ ProfileStart \in Nat /\ ProfileSize \in Nat
      /\ SentinelLoc \in Nat /\ PresetIndexOffset \in Nat
      /\ SentinelLoc <= PresetIndexOffset - 4 /\ PresetIndexOffset < ProfileStart
  BY SettingsAssumption
<1>2. MaxProfiles * ProfileSize \in Nat
  BY <1>1
<1> QED
  BY <1>1, <1>2 DEF Addresses

-----------------------------------------------------------------------------
(* Lists of writes.                                                        *)

Entries == Addresses \X Byte

\* A write of the selected preset's values, of the defaults, of a sentinel.
LiveEntries ==
  {e \in Entries : \E f \in Fields, k \in 1..2 :
     e = <<Position(preset_index, f) + k - 1, live[f][k]>>}
InitEntries ==
  {e \in Entries : \/ e = <<PresetIndexOffset, 0>>
                   \/ \E p \in Presets, f \in Fields, k \in 1..2 :
                        e = <<Position(p, f) + k - 1, Default[f][k]>>}
SentinelEntries(bytes) ==
  {e \in Entries : \E i \in 1..4 : e = <<SentinelLoc + i - 1, bytes[i]>>}

\* The byte at a is b, or will be once s is written.
Due(m, a, b, s) == m[a] = b \/ <<a, b>> \in Range(s)

LiveDue(s) ==
  \A f \in Fields, k \in 1..2 : Due(mem, Position(preset_index, f) + k - 1, live[f][k], s)
InitDue(s) ==
  /\ Due(mem, PresetIndexOffset, 0, s)
  /\ \A p \in Presets, f \in Fields, k \in 1..2 :
       Due(mem, Position(p, f) + k - 1, Default[f][k], s)
SentinelDue(s) == \A i \in 1..4 : Due(mem, SentinelLoc + i - 1, SentinelValue[i], s)

MemWith(m, e) == [m EXCEPT ![e[1]] = e[2]]

\* If there is one value for a place in the list, a write brings it nearer.
LEMMA DueKept ==
  ASSUME NEW m \in [Addresses -> Byte], NEW S \in SUBSET Entries, NEW s \in Seq(S), s # <<>>,
         NEW a \in Addresses, NEW b, Due(m, a, b, s),
         \A e \in S : e[1] = a => e[2] = b
  PROVE  Due(MemWith(m, Head(s)), a, b, Tail(s))
<1>1. /\ Head(s) \in S /\ Tail(s) \in Seq(S) /\ Len(s) \in Nat /\ Len(s) >= 1
      /\ Head(s) = s[1] /\ Len(Tail(s)) = Len(s) - 1
      /\ \A i \in 1..Len(s) - 1 : Tail(s)[i] = s[i + 1]
  BY HeadTailProperties, EmptySeq, LenProperties
<1>2. Head(s) \in Entries /\ Head(s)[1] \in Addresses /\ Head(s)[2] \in Byte
  BY <1>1 DEF Entries
<1>3. CASE Head(s)[1] = a
  BY <1>1, <1>2, <1>3 DEF Due, MemWith
<1>4. CASE Head(s)[1] # a
  <2>1. MemWith(m, Head(s))[a] = m[a]
    BY <1>2, <1>4 DEF MemWith
  <2>2. ASSUME <<a, b>> \in Range(s) PROVE <<a, b>> \in Range(Tail(s))
    <3>1. PICK i \in 1..Len(s) : s[i] = <<a, b>>
      BY <2>2, LenProperties DEF Range
    <3>2. i # 1
      BY <1>1, <1>4, <3>1
    <3>3. i - 1 \in 1..Len(Tail(s)) /\ (i - 1) + 1 = i /\ i - 1 \in 1..Len(s) - 1
      BY <1>1, <3>1, <3>2
    <3>4. Tail(s)[i - 1] = <<a, b>>
      BY <1>1, <3>1, <3>3
    <3> QED
      BY <1>1, <3>3, <3>4, LenProperties DEF Range
  <2> QED
    BY <2>1, <2>2 DEF Due
<1> QED
  BY <1>3, <1>4

\* What a write leaves as it is.
LEMMA DueElsewhere ==
  ASSUME NEW m \in [Addresses -> Byte], NEW e \in Entries,
         NEW a \in Addresses, NEW b, NEW s, Due(m, a, b, s), e[1] # a
  PROVE  Due(MemWith(m, e), a, b, s)
BY DEF Due, MemWith, Entries

LEMMA WordWritten ==
  ASSUME NEW a, NEW w, NEW S, <<a, w[1]>> \in S, <<a + 1, w[2]>> \in S
  PROVE  /\ WordWrites(a, w) \in Seq(S)
         /\ Range(WordWrites(a, w)) = {<<a, w[1]>>, <<a + 1, w[2]>>}
<1>1. WordWrites(a, w) \in Seq(S) /\ Len(WordWrites(a, w)) = 2
  BY DEF WordWrites
<1>2. DOMAIN WordWrites(a, w) = {1, 2}
  BY DEF WordWrites
<1>3. WordWrites(a, w)[1] = <<a, w[1]>> /\ WordWrites(a, w)[2] = <<a + 1, w[2]>>
  BY DEF WordWrites
<1> HIDE DEF WordWrites
<1>4. Range(WordWrites(a, w)) = {WordWrites(a, w)[i] : i \in {1, 2}}
  BY <1>2 DEF Range
<1> QED
  BY <1>1, <1>3, <1>4

LEMMA SentinelWritten ==
  ASSUME NEW bytes \in [1..4 -> Byte]
  PROVE  /\ SentinelWrites(bytes) \in Seq(SentinelEntries(bytes))
         /\ SentinelWrites(bytes) # <<>>
         /\ \A i \in 1..4 : <<SentinelLoc + i - 1, bytes[i]>> \in Range(SentinelWrites(bytes))
<1>1. \A i \in 1..4 : <<SentinelLoc + i - 1, bytes[i]>> \in SentinelEntries(bytes)
  BY OtherPlaces DEF SentinelEntries, Entries
<1>2. SentinelWrites(bytes) \in [1..4 -> SentinelEntries(bytes)]
  BY <1>1 DEF SentinelWrites
<1>3. SentinelWrites(bytes) \in Seq(SentinelEntries(bytes))
  BY <1>2, SeqDef
<1>4. DOMAIN SentinelWrites(bytes) = 1..4
  BY <1>2
<1>5. SentinelWrites(bytes) # <<>>
  BY <1>4
<1> QED
  BY <1>3, <1>4, <1>5 DEF Range, SentinelWrites

-----------------------------------------------------------------------------
(* The invariant.                                                          *)

Typed ==
  /\ mem \in [Addresses -> Byte]
  /\ live \in [Fields -> Words]
  /\ job \in [op : Ops, index : Presets, todo : Seq(Entries)]

InNothing == job.op \in {"off", "idle"} => job.todo = <<>>

\* The defaults, then the sentinel.
InInit ==
  job.op = "init" =>
    \E s \in Seq(InitEntries), t \in Seq(SentinelEntries(SentinelValue)) :
      /\ job.todo = s \o t
      /\ s # <<>> => ~Ready
      /\ InitDue(s) /\ SentinelDue(t)

InFlush == job.op = "flush" => job.todo \in Seq(LiveEntries)

\* The values, then the index.
InSelect ==
  job.op = "select" =>
    /\ job.index \in Indices
    /\ \/ job.todo = <<>> /\ mem[PresetIndexOffset] = job.index
       \/ \E s \in Seq(LiveEntries) :
            job.todo = s \o << <<PresetIndexOffset, job.index>> >> /\ LiveDue(s)

InReset == job.op = "reset" => job.todo \in Seq(SentinelEntries(<<0, 0, 0, 0>>))

Running == job.op \in {"idle", "flush", "select", "reset"}

\* Once the device runs, its sentinel is whole or has been wiped.
WholeOrWiped ==
  Running => \A i \in 1..4 : mem[SentinelLoc + i - 1] \in {SentinelValue[i], 0}

SettingsInv ==
  /\ Typed /\ InNothing /\ InInit /\ InFlush /\ InSelect /\ InReset /\ WholeOrWiped

LEMMA FieldsOfSeq ==
  /\ DOMAIN FieldSeq = 1..Len(FieldSeq) /\ Len(FieldSeq) \in Nat
  /\ \A i \in 1..Len(FieldSeq) : FieldSeq[i] \in Fields
  /\ \A f \in Fields : \E i \in 1..Len(FieldSeq) : f = FieldSeq[i]
<1>1. FieldSeq \in Seq(Fields)
  BY SettingsAssumption
<1>2. DOMAIN FieldSeq = 1..Len(FieldSeq) /\ Len(FieldSeq) \in Nat
  BY <1>1, LenProperties
<1> QED
  BY <1>2 DEF Fields

LEMMA IndexIsPreset ==
  ASSUME Typed
  PROVE  preset_index \in Presets /\ preset_index \in 0..MaxIndex
<1>1. MaxIndex \in Presets /\ MaxIndex \in Nat /\ MaxProfiles \in Nat /\ MaxIndex < MaxProfiles
  BY SettingsAssumption DEF Presets
<1>2. mem[PresetIndexOffset] \in 0..255
  BY OtherPlaces DEF Typed, Byte
<1>3. preset_index \in 0..MaxIndex
  BY <1>1, <1>2 DEF preset_index
<1> QED
  BY <1>1, <1>3 DEF Presets

LEMMA WordBytes == \A w \in Words, k \in 1..2 : w[k] \in Byte
BY DEF Words

LEMMA LiveIsEntry ==
  ASSUME Typed, NEW f \in Fields, NEW k \in 1..2
  PROVE  <<Position(preset_index, f) + k - 1, live[f][k]>> \in LiveEntries
<1>1. live[f] \in Words
  BY DEF Typed
<1>2. <<Position(preset_index, f) + k - 1, live[f][k]>> \in Entries
  BY <1>1, IndexIsPreset, PositionPlace, WordBytes DEF Entries
<1> QED
  BY <1>2 DEF LiveEntries

LEMMA DefaultIsEntry ==
  ASSUME NEW p \in Presets, NEW f \in Fields, NEW k \in 1..2
  PROVE  <<Position(p, f) + k - 1, Default[f][k]>> \in InitEntries
<1>1. Default[f] \in Words
  BY SettingsAssumption
<1>2. <<Position(p, f) + k - 1, Default[f][k]>> \in Entries
  BY <1>1, PositionPlace, WordBytes DEF Entries
<1> QED
  BY <1>2 DEF InitEntries

LEMMA BytesOf == \A a \in Nat : a + 1 - 1 = a /\ a + 2 - 1 = a + 1
OBVIOUS

LEMMA OneOrTwo == \A k \in 1..2 : k = 1 \/ k = 2
OBVIOUS

\* What settings_flush_debounced_values writes.
LEMMA FlushLists ==
  ASSUME Typed
  PROVE  FlushWrites \in Seq(LiveEntries) /\ LiveDue(FlushWrites)
<1> DEFINE a(i) == Position(preset_index, FieldSeq[i])
           l(i) == live[FieldSeq[i]]
           ss == [i \in DOMAIN FieldSeq |->
                    IF ReadWord(a(i)) = l(i) THEN <<>> ELSE WordWrites(a(i), l(i))]
<1>1. ASSUME NEW i \in 1..Len(FieldSeq)
      PROVE  /\ a(i) \in Nat
             /\ <<a(i), l(i)[1]>> \in LiveEntries
             /\ <<a(i) + 1, l(i)[2]>> \in LiveEntries
  <2>1. FieldSeq[i] \in Fields
    BY FieldsOfSeq
  <2>2. a(i) \in Nat
    BY <2>1, IndexIsPreset, PositionPlace
  <2>3. 1 \in 1..2 /\ 2 \in 1..2
    OBVIOUS
  <2>4. /\ <<a(i) + 1 - 1, l(i)[1]>> \in LiveEntries
        /\ <<a(i) + 2 - 1, l(i)[2]>> \in LiveEntries
    BY <2>1, <2>3, LiveIsEntry
  <2> QED
    BY <2>2, <2>4, BytesOf
<1>2. ASSUME NEW i \in 1..Len(FieldSeq)
      PROVE  /\ ss[i] \in Seq(LiveEntries)
             /\ \/ ReadWord(a(i)) = l(i)
                \/ Range(ss[i]) = {<<a(i), l(i)[1]>>, <<a(i) + 1, l(i)[2]>>}
  <2>1. /\ WordWrites(a(i), l(i)) \in Seq(LiveEntries)
        /\ Range(WordWrites(a(i), l(i))) = {<<a(i), l(i)[1]>>, <<a(i) + 1, l(i)[2]>>}
    BY <1>1, WordWritten
  <2>2. <<>> \in Seq(LiveEntries)
    OBVIOUS
  <2>3. ss[i] = IF ReadWord(a(i)) = l(i) THEN <<>> ELSE WordWrites(a(i), l(i))
    BY FieldsOfSeq
  <2> QED
    BY <2>1, <2>2, <2>3
<1>3. FlushWrites = FlattenSeq(ss)
  BY DEF FlushWrites
<1>4. ss \in Seq(Seq(LiveEntries)) /\ Len(ss) = Len(FieldSeq)
  <2>1. DOMAIN ss = 1..Len(FieldSeq)
    BY FieldsOfSeq
  <2>2. ss \in [1..Len(FieldSeq) -> Seq(LiveEntries)]
    BY <1>2, <2>1
  <2> HIDE DEF ss
  <2>3. ss \in Seq(Seq(LiveEntries))
    BY <2>2, FieldsOfSeq, SeqDef
  <2> QED
    BY <2>1, <2>3, FieldsOfSeq, LenProperties
<1> HIDE DEF ss
<1>5. /\ FlushWrites \in Seq(LiveEntries)
      /\ Range(FlushWrites) = UNION {Range(ss[i]) : i \in 1..Len(FieldSeq)}
  BY <1>3, <1>4, FlattenHolds
<1>6. ASSUME NEW f \in Fields, NEW k \in 1..2
      PROVE  Due(mem, Position(preset_index, f) + k - 1, live[f][k], FlushWrites)
  <2>1. PICK i \in 1..Len(FieldSeq) : f = FieldSeq[i]
    BY FieldsOfSeq
  <2>2. Position(preset_index, f) = a(i) /\ live[f] = l(i)
    BY <2>1
  <2> HIDE DEF a, l
  <2>3. CASE ReadWord(a(i)) = l(i)
    <3>1. mem[a(i)] = l(i)[1] /\ mem[a(i) + 1] = l(i)[2]
      BY <2>3 DEF ReadWord
    <3>2. mem[a(i) + k - 1] = l(i)[k]
      BY <1>1, <3>1, BytesOf, OneOrTwo
    <3> QED
      BY <2>2, <3>2 DEF Due
  <2>4. CASE ReadWord(a(i)) # l(i)
    <3>1. <<a(i), l(i)[1]>> \in Range(ss[i]) /\ <<a(i) + 1, l(i)[2]>> \in Range(ss[i])
      BY <1>2, <2>4
    <3>2. <<a(i) + k - 1, l(i)[k]>> \in Range(ss[i])
      BY <1>1, <3>1, BytesOf, OneOrTwo
    <3>3. <<a(i) + k - 1, l(i)[k]>> \in Range(FlushWrites)
      BY <1>5, <3>2
    <3> QED
      BY <2>2, <3>3 DEF Due
  <2> QED
    BY <2>3, <2>4
<1> QED
  BY <1>5, <1>6 DEF LiveDue

\* What settings_init writes of a preset, and of all.
LEMMA ProfileLists ==
  ASSUME NEW p \in Presets
  PROVE  /\ ProfileWrites(p) \in Seq(InitEntries)
         /\ \A f \in Fields, k \in 1..2 :
              <<Position(p, f) + k - 1, Default[f][k]>> \in Range(ProfileWrites(p))
<1> DEFINE a(i) == Position(p, FieldSeq[i])
           d(i) == Default[FieldSeq[i]]
           ss == [i \in DOMAIN FieldSeq |-> WordWrites(a(i), d(i))]
<1>1. ASSUME NEW i \in 1..Len(FieldSeq)
      PROVE  /\ a(i) \in Nat
             /\ <<a(i), d(i)[1]>> \in InitEntries
             /\ <<a(i) + 1, d(i)[2]>> \in InitEntries
  <2>1. FieldSeq[i] \in Fields
    BY FieldsOfSeq
  <2>2. a(i) \in Nat
    BY <2>1, PositionPlace
  <2>3. 1 \in 1..2 /\ 2 \in 1..2
    OBVIOUS
  <2>4. /\ <<a(i) + 1 - 1, d(i)[1]>> \in InitEntries
        /\ <<a(i) + 2 - 1, d(i)[2]>> \in InitEntries
    BY <2>1, <2>3, DefaultIsEntry
  <2> QED
    BY <2>2, <2>4, BytesOf
<1>2. ASSUME NEW i \in 1..Len(FieldSeq)
      PROVE  /\ ss[i] \in Seq(InitEntries)
             /\ Range(ss[i]) = {<<a(i), d(i)[1]>>, <<a(i) + 1, d(i)[2]>>}
  <2>1. /\ WordWrites(a(i), d(i)) \in Seq(InitEntries)
        /\ Range(WordWrites(a(i), d(i))) = {<<a(i), d(i)[1]>>, <<a(i) + 1, d(i)[2]>>}
    BY <1>1, WordWritten
  <2>2. ss[i] = WordWrites(a(i), d(i))
    BY FieldsOfSeq
  <2> QED
    BY <2>1, <2>2
<1>3. ProfileWrites(p) = FlattenSeq(ss)
  BY DEF ProfileWrites
<1>4. ss \in Seq(Seq(InitEntries)) /\ Len(ss) = Len(FieldSeq)
  <2>1. DOMAIN ss = 1..Len(FieldSeq)
    BY FieldsOfSeq
  <2>2. ss \in [1..Len(FieldSeq) -> Seq(InitEntries)]
    BY <1>2, <2>1
  <2> HIDE DEF ss
  <2>3. ss \in Seq(Seq(InitEntries))
    BY <2>2, FieldsOfSeq, SeqDef
  <2> QED
    BY <2>1, <2>3, FieldsOfSeq, LenProperties
<1> HIDE DEF ss
<1>5. /\ ProfileWrites(p) \in Seq(InitEntries)
      /\ Range(ProfileWrites(p)) = UNION {Range(ss[i]) : i \in 1..Len(FieldSeq)}
  BY <1>3, <1>4, FlattenHolds
<1>6. ASSUME NEW f \in Fields, NEW k \in 1..2
      PROVE  <<Position(p, f) + k - 1, Default[f][k]>> \in Range(ProfileWrites(p))
  <2>1. PICK i \in 1..Len(FieldSeq) : f = FieldSeq[i]
    BY FieldsOfSeq
  <2>2. Position(p, f) = a(i) /\ Default[f] = d(i)
    BY <2>1
  <2> HIDE DEF a, d
  <2>3. <<a(i), d(i)[1]>> \in Range(ss[i]) /\ <<a(i) + 1, d(i)[2]>> \in Range(ss[i])
    BY <1>2
  <2>4. <<a(i) + k - 1, d(i)[k]>> \in Range(ss[i])
    BY <1>1, <2>3, BytesOf, OneOrTwo
  <2> QED
    BY <1>5, <2>2, <2>4
<1> QED
  BY <1>5, <1>6

LEMMA InitLists ==
  ASSUME Typed
  PROVE  \E s \in Seq(InitEntries) :
           /\ InitWrites = s \o SentinelWrites(SentinelValue)
           /\ InitDue(s) /\ s # <<>>
<1> DEFINE ss == [i \in 1..MaxProfiles |-> ProfileWrites(i - 1)]
           index == << <<PresetIndexOffset, 0>> >>
<1>1. MaxProfiles \in Nat /\ \A i \in 1..MaxProfiles : i - 1 \in Presets
  BY SettingsAssumption DEF Presets
<1>2. \A p \in Presets : p + 1 \in 1..MaxProfiles /\ (p + 1) - 1 = p
  BY <1>1 DEF Presets
<1>3. ss \in Seq(Seq(InitEntries)) /\ Len(ss) = MaxProfiles
  <2>1. ss \in [1..MaxProfiles -> Seq(InitEntries)]
    BY <1>1, ProfileLists
  <2>2. DOMAIN ss = 1..MaxProfiles
    OBVIOUS
  <2> HIDE DEF ss
  <2>3. ss \in Seq(Seq(InitEntries))
    BY <1>1, <2>1, SeqDef
  <2> QED
    BY <1>1, <2>2, <2>3, LenProperties
<1>4. \A i \in 1..MaxProfiles : ss[i] = ProfileWrites(i - 1)
  OBVIOUS
<1>5. InitWrites = FlattenSeq(ss) \o index \o SentinelWrites(SentinelValue)
  BY DEF InitWrites
<1> HIDE DEF ss
<1>6. /\ FlattenSeq(ss) \in Seq(InitEntries)
      /\ Range(FlattenSeq(ss)) = UNION {Range(ss[i]) : i \in 1..MaxProfiles}
  BY <1>3, FlattenHolds
<1>7. index \in Seq(InitEntries) /\ Range(index) = {<<PresetIndexOffset, 0>>} /\ Len(index) = 1
  <2>1. <<PresetIndexOffset, 0>> \in InitEntries
    BY OtherPlaces DEF InitEntries, Entries, Byte
  <2>2. DOMAIN index = {1} /\ index[1] = <<PresetIndexOffset, 0>> /\ Len(index) = 1
    OBVIOUS
  <2>3. index \in Seq(InitEntries)
    BY <2>1
  <2> HIDE DEF index
  <2>4. Range(index) = {index[i] : i \in {1}}
    BY <2>2 DEF Range
  <2> QED
    BY <2>2, <2>3, <2>4
<1> HIDE DEF index
<1> DEFINE s == FlattenSeq(ss) \o index
<1>8. s \in Seq(InitEntries) /\ Range(s) = Range(FlattenSeq(ss)) \cup Range(index)
  BY <1>6, <1>7, ConcatProperties, RangeConcatenation
<1>9. s # <<>>
  <2>1. Len(s) = Len(FlattenSeq(ss)) + Len(index)
    BY <1>6, <1>7, ConcatProperties
  <2>2. Len(FlattenSeq(ss)) \in Nat
    BY <1>6, LenProperties
  <2>3. Len(s) # 0
    BY <1>7, <2>1, <2>2
  <2> HIDE DEF s
  <2> QED
    BY <1>8, <2>3, EmptySeq
<1>10. InitDue(s)
  <2>1. <<PresetIndexOffset, 0>> \in Range(s)
    BY <1>7, <1>8
  <2>2. ASSUME NEW p \in Presets, NEW f \in Fields, NEW k \in 1..2
        PROVE  <<Position(p, f) + k - 1, Default[f][k]>> \in Range(s)
    <3>1. <<Position(p, f) + k - 1, Default[f][k]>> \in Range(ss[p + 1])
      BY <1>2, <1>4, ProfileLists
    <3> QED
      BY <1>2, <1>6, <1>8, <3>1
  <2> QED
    BY <2>1, <2>2 DEF InitDue, Due
<1> QED
  BY <1>5, <1>8, <1>9, <1>10

LEMMA SavedTyped ==
  ASSUME Typed, NEW p \in Presets
  PROVE  Saved(p) \in [Fields -> Words]
<1>1. ASSUME NEW f \in Fields PROVE ReadWord(Position(p, f)) \in Words
  <2>1. 1 \in 1..2 /\ 2 \in 1..2
    OBVIOUS
  <2>2. Position(p, f) \in Addresses /\ Position(p, f) + 1 \in Addresses
    BY <2>1, PositionPlace, BytesOf
  <2> QED
    BY <2>2 DEF Typed, ReadWord, Words
<1> QED
  BY <1>1 DEF Saved

\* A place is written one value only.
LEMMA LiveUnique ==
  ASSUME Typed, NEW e \in LiveEntries
  PROVE  /\ e \in Entries /\ e[1] > PresetIndexOffset
         /\ \A f \in Fields, k \in 1..2 :
              e[1] = Position(preset_index, f) + k - 1 => e[2] = live[f][k]
         /\ \A p \in Presets \ {preset_index}, f \in Fields, k \in 1..2 :
              e[1] # Position(p, f) + k - 1
<1>1. PICK g \in Fields, l \in 1..2 :
        e = <<Position(preset_index, g) + l - 1, live[g][l]>>
  BY DEF LiveEntries
<1>2. e \in Entries /\ e[1] = Position(preset_index, g) + l - 1 /\ e[2] = live[g][l]
  BY <1>1 DEF LiveEntries
<1> QED
  BY <1>2, IndexIsPreset, PositionPlace, PositionsApart

LEMMA InitUnique ==
  ASSUME NEW e \in InitEntries
  PROVE  /\ e \in Entries /\ e[1] >= PresetIndexOffset
         /\ e[1] = PresetIndexOffset => e[2] = 0
         /\ \A p \in Presets, f \in Fields, k \in 1..2 :
              e[1] = Position(p, f) + k - 1 => e[2] = Default[f][k]
<1>1. PresetIndexOffset \in Nat
  BY SettingsAssumption
<1>2. CASE e = <<PresetIndexOffset, 0>>
  <2>1. e \in Entries /\ e[1] = PresetIndexOffset /\ e[2] = 0
    BY <1>2 DEF InitEntries
  <2>2. \A p \in Presets, f \in Fields, k \in 1..2 : e[1] # Position(p, f) + k - 1
    BY <1>1, <2>1, PositionPlace
  <2> QED
    BY <1>1, <2>1, <2>2
<1>3. CASE \E q \in Presets, g \in Fields, l \in 1..2 :
             e = <<Position(q, g) + l - 1, Default[g][l]>>
  <2>1. PICK q \in Presets, g \in Fields, l \in 1..2 :
          e = <<Position(q, g) + l - 1, Default[g][l]>>
    BY <1>3
  <2>2. e \in Entries /\ e[1] = Position(q, g) + l - 1 /\ e[2] = Default[g][l]
    BY <2>1 DEF InitEntries
  <2>3. e[1] > PresetIndexOffset
    BY <2>2, PositionPlace
  <2> QED
    BY <1>1, <2>2, <2>3, PositionsApart, PositionPlace
<1> QED
  BY <1>2, <1>3 DEF InitEntries

LEMMA SentinelUnique ==
  ASSUME NEW bytes, NEW e \in SentinelEntries(bytes)
  PROVE  /\ e \in Entries /\ e[1] < PresetIndexOffset
         /\ \A i \in 1..4 : e[1] = SentinelLoc + i - 1 => e[2] = bytes[i]
<1>1. PICK j \in 1..4 : e = <<SentinelLoc + j - 1, bytes[j]>>
  BY DEF SentinelEntries
<1>2. e \in Entries /\ e[1] = SentinelLoc + j - 1 /\ e[2] = bytes[j]
  BY <1>1 DEF SentinelEntries
<1> QED
  BY <1>2, OtherPlaces

LEMMA JoinedLists ==
  ASSUME NEW S, NEW s \in Seq(S), NEW t \in Seq(S)
  PROVE  /\ s \o t = <<>> => s = <<>> /\ t = <<>>
         /\ s # <<>> => Head(s \o t) = Head(s) /\ Tail(s \o t) = Tail(s) \o t
         /\ s = <<>> => s \o t = t
<1>1. s \o t \in Seq(S) /\ Len(s \o t) = Len(s) + Len(t) /\ Len(s) \in Nat /\ Len(t) \in Nat
  BY ConcatProperties, LenProperties
<1>2. s \o t = <<>> => s = <<>> /\ t = <<>>
  <2>1. s \o t = <<>> => Len(s \o t) = 0
    OBVIOUS
  <2>2. s \o t = <<>> => Len(s) = 0 /\ Len(t) = 0
    BY <1>1, <2>1
  <2> QED
    BY <2>2, EmptySeq
<1>3. s # <<>> => Head(s \o t) = Head(s) /\ Tail(s \o t) = Tail(s) \o t
  BY ConcatSimplifications
<1>4. s = <<>> => s \o t = t
  BY ConcatEmptySeq
<1> QED
  BY <1>2, <1>3, <1>4

\* The lists' elements are writes.
LEMMA ListsOfWrites ==
  /\ Seq(LiveEntries) \subseteq Seq(Entries)
  /\ Seq(InitEntries) \subseteq Seq(Entries)
  /\ \A bytes : Seq(SentinelEntries(bytes)) \subseteq Seq(Entries)
BY SeqMonotonic DEF LiveEntries, InitEntries, SentinelEntries

\* What a write of a byte is.
LEMMA WriteIs ==
  ASSUME Typed, WriteByte
  PROVE  /\ Head(job.todo) \in Entries /\ job.todo # <<>>
         /\ mem' = MemWith(mem, Head(job.todo))
         /\ job'.op = job.op /\ job'.index = job.index /\ job'.todo = Tail(job.todo)
         /\ live' = live
         /\ Typed'
<1>1. job.todo \in Seq(Entries) /\ job.todo # <<>>
  BY DEF Typed, WriteByte
<1>2. Head(job.todo) \in Entries /\ Tail(job.todo) \in Seq(Entries)
  BY <1>1, HeadTailProperties
<1>3. mem' = MemWith(mem, Head(job.todo)) /\ live' = live
  BY DEF WriteByte, MemWith
<1>4. /\ job'.op = job.op /\ job'.index = job.index /\ job'.todo = Tail(job.todo)
      /\ job' \in [op : Ops, index : Presets, todo : Seq(Entries)]
  <2>1. job' = [job EXCEPT !.todo = Tail(job.todo)]
    BY DEF WriteByte
  <2>2. job \in [op : Ops, index : Presets, todo : Seq(Entries)]
    BY DEF Typed
  <2> QED
    BY <1>2, <2>1, <2>2
<1>5. mem' \in [Addresses -> Byte]
  BY <1>2, <1>3 DEF Typed, MemWith, Entries
<1> QED
  BY <1>1, <1>2, <1>3, <1>4, <1>5 DEF Typed

\* What it leaves as it is.
LEMMA WriteAbove ==
  ASSUME Typed, NEW e \in Entries, mem' = MemWith(mem, e), e[1] >= PresetIndexOffset
  PROVE  /\ \A i \in 1..4 : mem'[SentinelLoc + i - 1] = mem[SentinelLoc + i - 1]
         /\ Ready' <=> Ready
<1>1. ASSUME NEW i \in 1..4 PROVE mem'[SentinelLoc + i - 1] = mem[SentinelLoc + i - 1]
  <2>1. SentinelLoc + i - 1 \in Addresses /\ SentinelLoc + i - 1 < PresetIndexOffset
    BY OtherPlaces
  <2>2. e[1] # SentinelLoc + i - 1 /\ PresetIndexOffset \in Nat
    BY <2>1, SettingsAssumption
  <2> QED
    BY <2>1, <2>2 DEF Typed, MemWith
<1> QED
  BY <1>1 DEF Ready

LEMMA WriteBeside ==
  ASSUME Typed, NEW e \in Entries, mem' = MemWith(mem, e), e[1] # PresetIndexOffset
  PROVE  mem'[PresetIndexOffset] = mem[PresetIndexOffset] /\ preset_index' = preset_index
<1>1. mem'[PresetIndexOffset] = mem[PresetIndexOffset]
  BY OtherPlaces DEF Typed, MemWith
<1> QED
  BY <1>1 DEF preset_index

-----------------------------------------------------------------------------
(* The steps.                                                              *)

LEMMA SettingsStart == Init => SettingsInv
<1> SUFFICES ASSUME Init PROVE SettingsInv
  OBVIOUS
<1>1. Typed
  <2>1. 0 \in Presets
    BY SettingsAssumption DEF Presets
  <2>2. job \in [op : Ops, index : Presets, todo : Seq(Entries)]
    BY <2>1 DEF Init, Off, Ops
  <2> QED
    BY <2>2 DEF Typed, Init, Byte, Words
<1>2. job.op = "off" /\ job.todo = <<>>
  BY DEF Init, Off
<1> QED
  BY <1>1, <1>2
     DEF SettingsInv, InNothing, InInit, InFlush, InSelect, InReset, WholeOrWiped, Running

LEMMA BootKeeps ==
  ASSUME SettingsInv, Boot
  PROVE  SettingsInv'
<1>1. Typed /\ mem' = mem /\ 0 \in Presets
  BY SettingsAssumption DEF SettingsInv, Boot, Presets
<1>2. CASE ~Ready /\ job' = Job("init", 0, InitWrites) /\ UNCHANGED live
  <2>1. PICK s \in Seq(InitEntries) :
          /\ InitWrites = s \o SentinelWrites(SentinelValue)
          /\ InitDue(s) /\ s # <<>>
    BY <1>1, InitLists
  <2>2. /\ SentinelWrites(SentinelValue) \in Seq(SentinelEntries(SentinelValue))
        /\ SentinelDue(SentinelWrites(SentinelValue))
    BY SettingsAssumption, SentinelWritten DEF SentinelDue, Due
  <2>3. job'.op = "init" /\ job'.index = 0 /\ job'.todo = InitWrites
    BY <1>2 DEF Job
  <2>4. InitWrites \in Seq(Entries)
    <3>1. s \in Seq(Entries) /\ SentinelWrites(SentinelValue) \in Seq(Entries)
      BY <2>2, ListsOfWrites
    <3> QED
      BY <2>1, <3>1, ConcatProperties
  <2>5. Typed'
    <3>1. job' \in [op : Ops, index : Presets, todo : Seq(Entries)]
      BY <1>1, <1>2, <2>4 DEF Job, Ops
    <3> QED
      BY <1>1, <1>2, <3>1 DEF Typed
  <2>6. ~Ready' /\ InitDue(s)' /\ SentinelDue(SentinelWrites(SentinelValue))'
    BY <1>1, <1>2, <2>1, <2>2 DEF Ready, InitDue, SentinelDue
  <2>7. InInit'
    BY <2>1, <2>2, <2>3, <2>6 DEF InInit
  <2> QED
    BY <2>3, <2>5, <2>7
       DEF SettingsInv, InNothing, InFlush, InSelect, InReset, WholeOrWiped, Running
<1>3. CASE Ready /\ job' = Idle /\ live' = Saved(preset_index)
  <2>1. job'.op = "idle" /\ job'.todo = <<>> /\ job' \in [op : Ops, index : Presets, todo : Seq(Entries)]
    BY <1>1, <1>3 DEF Idle, Ops
  <2>2. live' \in [Fields -> Words]
    BY <1>1, <1>3, SavedTyped, IndexIsPreset
  <2>3. WholeOrWiped'
    BY <1>1, <1>3 DEF WholeOrWiped, Ready
  <2> QED
    BY <1>1, <2>1, <2>2, <2>3
       DEF SettingsInv, Typed, InNothing, InInit, InFlush, InSelect, InReset
<1> QED
  BY <1>2, <1>3 DEF Boot

LEMMA ChangeKeeps ==
  ASSUME SettingsInv, Change
  PROVE  SettingsInv'
<1>1. /\ Typed /\ mem' = mem /\ job' = job /\ job = Idle
      /\ live' \in [Fields -> Words]
  BY SettingsAssumption DEF SettingsInv, Typed, Change
<1>2. job.op = "idle" /\ job.todo = <<>>
  BY <1>1 DEF Idle
<1>3. Typed' /\ WholeOrWiped'
  BY <1>1 DEF SettingsInv, Typed, WholeOrWiped, Running
<1> QED
  BY <1>1, <1>2, <1>3 DEF SettingsInv, InNothing, InInit, InFlush, InSelect, InReset

LEMMA FlushKeeps ==
  ASSUME SettingsInv, Flush
  PROVE  SettingsInv'
<1>1. /\ Typed /\ mem' = mem /\ live' = live /\ job = Idle
      /\ job' = Job("flush", 0, FlushWrites) /\ 0 \in Presets
  BY SettingsAssumption DEF SettingsInv, Flush, Presets
<1>2. job'.op = "flush" /\ job'.todo = FlushWrites /\ job.op = "idle"
  BY <1>1 DEF Job, Idle
<1>3. FlushWrites \in Seq(LiveEntries) /\ LiveEntries' = LiveEntries
  BY <1>1, FlushLists DEF LiveEntries, preset_index
<1>4. job' \in [op : Ops, index : Presets, todo : Seq(Entries)]
  BY <1>1, <1>3, ListsOfWrites DEF Job, Ops
<1>5. Typed' /\ WholeOrWiped'
  BY <1>1, <1>2, <1>4 DEF SettingsInv, Typed, WholeOrWiped, Running
<1> QED
  BY <1>2, <1>3, <1>5 DEF SettingsInv, InNothing, InInit, InFlush, InSelect, InReset

LEMMA SelectKeeps ==
  ASSUME SettingsInv, SetPresetIndex
  PROVE  SettingsInv'
<1>1. PICK index \in Indices : job' = Job("select", index, SelectWrites(index))
  BY DEF SetPresetIndex
<1>2. /\ Typed /\ mem' = mem /\ live' = live /\ job = Idle
      /\ index \in Presets /\ index \in Byte
  BY SettingsAssumption DEF SettingsInv, SetPresetIndex, Presets, Byte
<1>3. /\ job'.op = "select" /\ job'.index = index /\ job.op = "idle"
      /\ job'.todo = FlushWrites \o << <<PresetIndexOffset, index>> >>
  BY <1>1, <1>2 DEF Job, Idle, SelectWrites
<1>4. PICK s \in Seq(LiveEntries) : s = FlushWrites /\ LiveDue(s)
  BY <1>2, FlushLists
<1>5. LiveEntries' = LiveEntries /\ LiveDue(s)'
  BY <1>2, <1>4 DEF LiveEntries, LiveDue, preset_index
<1>6. << <<PresetIndexOffset, index>> >> \in Seq(Entries)
  BY <1>2, OtherPlaces DEF Entries
<1>7. job'.todo \in Seq(Entries)
  <2>1. s \in Seq(Entries)
    BY ListsOfWrites
  <2> QED
    BY <1>3, <1>4, <1>6, <2>1, ConcatProperties
<1>8. job' \in [op : Ops, index : Presets, todo : Seq(Entries)]
  BY <1>1, <1>2, <1>3, <1>7 DEF Job, Ops
<1>9. Typed' /\ WholeOrWiped'
  BY <1>2, <1>3, <1>8 DEF SettingsInv, Typed, WholeOrWiped, Running
<1>10. InSelect'
  BY <1>3, <1>4, <1>5 DEF InSelect
<1> QED
  BY <1>3, <1>9, <1>10 DEF SettingsInv, InNothing, InInit, InFlush, InReset

LEMMA ResetKeeps ==
  ASSUME SettingsInv, ResetToDefaults
  PROVE  SettingsInv'
<1> DEFINE zeros == <<0, 0, 0, 0>>
<1>1. /\ Typed /\ mem' = mem /\ live' = live /\ job = Idle
      /\ job' = Job("reset", 0, SentinelWrites(zeros)) /\ 0 \in Presets
  BY SettingsAssumption DEF SettingsInv, ResetToDefaults, Presets
<1>2. job'.op = "reset" /\ job'.todo = SentinelWrites(zeros) /\ job.op = "idle"
  BY <1>1 DEF Job, Idle
<1>3. SentinelWrites(zeros) \in Seq(SentinelEntries(zeros))
  <2>1. zeros \in [1..4 -> Byte]
    BY DEF Byte
  <2> HIDE DEF zeros
  <2> QED
    BY <2>1, SentinelWritten
<1>4. job' \in [op : Ops, index : Presets, todo : Seq(Entries)]
  BY <1>1, <1>3, ListsOfWrites DEF Job, Ops
<1>5. Typed' /\ WholeOrWiped'
  BY <1>1, <1>2, <1>4 DEF SettingsInv, Typed, WholeOrWiped, Running
<1> QED
  BY <1>2, <1>3, <1>5 DEF SettingsInv, InNothing, InInit, InFlush, InSelect, InReset

LEMMA ReturnKeeps ==
  ASSUME SettingsInv, Return
  PROVE  SettingsInv'
<1>1. /\ Typed /\ mem' = mem /\ job' = Idle /\ job.todo = <<>> /\ 0 \in Presets
      /\ job.op \in {"init", "flush", "select", "reset"}
  BY SettingsAssumption DEF SettingsInv, Return, Presets
<1>2. live' \in [Fields -> Words]
  <2>1. Saved(preset_index) \in [Fields -> Words] /\ Saved(job.index) \in [Fields -> Words]
    BY <1>1, IndexIsPreset, SavedTyped DEF Typed
  <2>2. live \in [Fields -> Words]
    BY <1>1 DEF Typed
  <2> QED
    BY <2>1, <2>2 DEF Return
<1>3. job'.op = "idle" /\ job'.todo = <<>> /\ job' \in [op : Ops, index : Presets, todo : Seq(Entries)]
  BY <1>1 DEF Idle, Ops
<1>4. WholeOrWiped'
  <2>1. CASE job.op = "init"
    <3>1. PICK s \in Seq(InitEntries), t \in Seq(SentinelEntries(SentinelValue)) :
            job.todo = s \o t /\ SentinelDue(t)
      BY <2>1 DEF SettingsInv, InInit
    <3>2. t = <<>>
      BY <1>1, <3>1, ListsOfWrites, JoinedLists
    <3>3. \A i \in 1..4 : mem[SentinelLoc + i - 1] = SentinelValue[i]
      BY <3>1, <3>2 DEF SentinelDue, Due, Range
    <3> QED
      BY <1>1, <3>3 DEF WholeOrWiped
  <2>2. CASE job.op # "init"
    BY <1>1, <2>2 DEF SettingsInv, WholeOrWiped, Running
  <2> QED
    BY <2>1, <2>2
<1> QED
  BY <1>1, <1>2, <1>3, <1>4
     DEF SettingsInv, Typed, InNothing, InInit, InFlush, InSelect, InReset

LEMMA LossKeeps ==
  ASSUME SettingsInv, PowerLoss
  PROVE  SettingsInv'
<1>1. Typed /\ mem' = mem /\ job' = Off /\ live' \in [Fields -> Words] /\ 0 \in Presets
  BY SettingsAssumption DEF SettingsInv, PowerLoss, Presets, Words, Byte
<1>2. job'.op = "off" /\ job'.todo = <<>> /\ job' \in [op : Ops, index : Presets, todo : Seq(Entries)]
  BY <1>1 DEF Off, Ops
<1> QED
  BY <1>1, <1>2
     DEF SettingsInv, Typed, InNothing, InInit, InFlush, InSelect, InReset, WholeOrWiped, Running

\* A write of each list.
LEMMA InitWriteKeeps ==
  ASSUME SettingsInv, WriteByte, job.op = "init"
  PROVE  InInit'
<1> DEFINE h == Head(job.todo)
<1>1. Typed /\ h \in Entries /\ mem' = MemWith(mem, h) /\ job'.todo = Tail(job.todo)
  BY WriteIs DEF SettingsInv
<1>2. PICK s \in Seq(InitEntries), t \in Seq(SentinelEntries(SentinelValue)) :
        /\ job.todo = s \o t
        /\ s # <<>> => ~Ready
        /\ InitDue(s) /\ SentinelDue(t)
  BY DEF SettingsInv, InInit
<1>3. s \in Seq(Entries) /\ t \in Seq(Entries) /\ job.todo # <<>>
  BY <1>2, ListsOfWrites, WriteIs DEF SettingsInv
<1>4. mem \in [Addresses -> Byte] /\ InitEntries \in SUBSET Entries
      /\ SentinelEntries(SentinelValue) \in SUBSET Entries
  BY <1>1 DEF Typed, InitEntries, SentinelEntries
<1>5. CASE s # <<>>
  <2>1. h = Head(s) /\ job'.todo = Tail(s) \o t
    BY <1>1, <1>2, <1>3, <1>5, JoinedLists
  <2>2. h \in InitEntries /\ Tail(s) \in Seq(InitEntries)
    BY <1>5, <2>1, HeadTailProperties
  <2>3. h[1] >= PresetIndexOffset
    BY <2>2, InitUnique
  <2>4. ~Ready' /\ SentinelDue(t)'
    <3>1. /\ \A i \in 1..4 : mem'[SentinelLoc + i - 1] = mem[SentinelLoc + i - 1]
          /\ Ready' <=> Ready
      BY <1>1, <2>3, WriteAbove
    <3> QED
      BY <1>2, <1>5, <3>1 DEF SentinelDue, Due
  <2>5. Due(mem', PresetIndexOffset, 0, Tail(s))
    <3>1. \A e \in InitEntries : e[1] = PresetIndexOffset => e[2] = 0
      BY InitUnique
    <3>2. Due(mem, PresetIndexOffset, 0, s)
      BY <1>2 DEF InitDue
    <3> HIDE DEF h
    <3>3. Due(MemWith(mem, Head(s)), PresetIndexOffset, 0, Tail(s))
      BY <1>4, <1>5, <3>1, <3>2, OtherPlaces, DueKept
    <3> QED
      BY <1>1, <2>1, <3>3
  <2>6. ASSUME NEW p \in Presets, NEW f \in Fields, NEW k \in 1..2
        PROVE  Due(mem', Position(p, f) + k - 1, Default[f][k], Tail(s))
    <3> DEFINE a == Position(p, f) + k - 1
    <3>1. \A e \in InitEntries : e[1] = a => e[2] = Default[f][k]
      BY InitUnique
    <3>2. Due(mem, a, Default[f][k], s) /\ a \in Addresses
      BY <1>2, PositionPlace DEF InitDue
    <3> HIDE DEF h, a
    <3>3. Due(MemWith(mem, Head(s)), a, Default[f][k], Tail(s))
      BY <1>4, <1>5, <3>1, <3>2, DueKept
    <3> QED
      BY <1>1, <2>1, <3>3 DEF a
  <2>7. InitDue(Tail(s))'
    BY <2>5, <2>6 DEF InitDue
  <2> QED
    BY <2>1, <2>2, <2>4, <2>7 DEF InInit
<1>6. CASE s = <<>>
  <2>1. t # <<>> /\ h = Head(t) /\ job'.todo = Tail(t)
    BY <1>1, <1>2, <1>3, <1>6, JoinedLists
  <2>2. h \in SentinelEntries(SentinelValue) /\ Tail(t) \in Seq(SentinelEntries(SentinelValue))
    BY <2>1, HeadTailProperties
  <2>3. h[1] < PresetIndexOffset /\ PresetIndexOffset \in Nat
    BY <2>2, SentinelUnique, SettingsAssumption
  <2>4. InitDue(s)'
    <3>1. h[1] # PresetIndexOffset
      BY <2>3
    <3>2. \A p \in Presets, f \in Fields, k \in 1..2 :
            /\ h[1] # Position(p, f) + k - 1
            /\ Position(p, f) + k - 1 \in Addresses
      <4>1. h[1] \in Nat
        <5>1. h[1] \in Addresses /\ SentinelLoc \in Nat
          BY <1>1, SettingsAssumption DEF Entries
        <5> QED
          BY <5>1 DEF Addresses
      <4> HIDE DEF h
      <4> QED
        BY <2>3, <4>1, PositionPlace
    <3> HIDE DEF h
    <3>3. Due(mem', PresetIndexOffset, 0, s)
      BY <1>1, <1>2, <1>4, <3>1, OtherPlaces, DueElsewhere DEF InitDue
    <3>4. \A p \in Presets, f \in Fields, k \in 1..2 :
            Due(mem', Position(p, f) + k - 1, Default[f][k], s)
      BY <1>1, <1>2, <1>4, <3>2, DueElsewhere DEF InitDue
    <3> QED
      BY <3>3, <3>4 DEF InitDue
  <2>5. SentinelDue(Tail(t))'
    <3>1. ASSUME NEW i \in 1..4
          PROVE  Due(mem', SentinelLoc + i - 1, SentinelValue[i], Tail(t))
      <4> DEFINE a == SentinelLoc + i - 1
      <4>1. \A e \in SentinelEntries(SentinelValue) : e[1] = a => e[2] = SentinelValue[i]
        BY SentinelUnique
      <4>2. Due(mem, a, SentinelValue[i], t) /\ a \in Addresses
        BY <1>2, OtherPlaces DEF SentinelDue
      <4> HIDE DEF h, a
      <4>3. Due(MemWith(mem, Head(t)), a, SentinelValue[i], Tail(t))
        BY <1>4, <2>1, <4>1, <4>2, DueKept
      <4> QED
        BY <1>1, <2>1, <4>3 DEF a
    <3> QED
      BY <3>1 DEF SentinelDue
  <2>6. <<>> \in Seq(InitEntries) /\ job'.todo = <<>> \o Tail(t)
    BY <2>1, <2>2, ConcatEmptySeq
  <2> QED
    BY <1>6, <2>2, <2>4, <2>5, <2>6 DEF InInit
<1> QED
  BY <1>5, <1>6

LEMMA LiveWriteIs ==
  ASSUME Typed, NEW e \in LiveEntries, mem' = MemWith(mem, e), live' = live
  PROVE  /\ \A i \in 1..4 : mem'[SentinelLoc + i - 1] = mem[SentinelLoc + i - 1]
         /\ Ready' <=> Ready
         /\ preset_index' = preset_index
         /\ LiveEntries' = LiveEntries
<1>1. e \in Entries /\ e[1] > PresetIndexOffset /\ PresetIndexOffset \in Nat
  BY LiveUnique, SettingsAssumption
<1>2. e[1] \in Nat
  <2>1. e[1] \in Addresses /\ SentinelLoc \in Nat
    BY <1>1, SettingsAssumption DEF Entries
  <2> QED
    BY <2>1 DEF Addresses
<1>3. e[1] >= PresetIndexOffset /\ e[1] # PresetIndexOffset
  BY <1>1, <1>2
<1>4. preset_index' = preset_index
  BY <1>1, <1>3, WriteBeside
<1> QED
  BY <1>1, <1>3, <1>4, WriteAbove DEF LiveEntries

LEMMA IndexIsByte == \A i \in Indices : i \in Byte
<1>1. \A m \in 1..128 : \A i \in 0..(m - 1) : i \in 0..255
  OBVIOUS
<1> QED
  BY <1>1, SettingsAssumption DEF Presets, Byte

LEMMA OneWrite ==
  ASSUME NEW S, NEW e \in S
  PROVE  <<e>> \in Seq(S) /\ Head(<<e>>) = e /\ Tail(<<e>>) = <<>>
OBVIOUS

LEMMA SelectWriteKeeps ==
  ASSUME SettingsInv, WriteByte, job.op = "select"
  PROVE  InSelect' /\ WholeOrWiped'
<1> DEFINE h == Head(job.todo)
           last == << <<PresetIndexOffset, job.index>> >>
<1>1. /\ Typed /\ h \in Entries /\ mem' = MemWith(mem, h) /\ job'.todo = Tail(job.todo)
      /\ job.todo # <<>> /\ live' = live /\ job'.op = job.op /\ job'.index = job.index
  BY WriteIs DEF SettingsInv
<1>2. PICK s \in Seq(LiveEntries) : job.todo = s \o last /\ LiveDue(s)
  BY <1>1 DEF SettingsInv, InSelect
<1>3. job.index \in Indices /\ job.index \in Byte /\ PresetIndexOffset \in Nat
  <2>1. job.index \in Indices
    BY DEF SettingsInv, InSelect
  <2>2. job.index \in Byte
    BY <2>1, IndexIsByte
  <2>3. PresetIndexOffset \in Nat
    BY SettingsAssumption
  <2> QED
    BY <2>1, <2>2, <2>3
<1>4. last \in Seq(Entries) /\ Head(last) = <<PresetIndexOffset, job.index>> /\ Tail(last) = <<>>
  <2>1. <<PresetIndexOffset, job.index>> \in Entries
    BY <1>3, OtherPlaces DEF Entries
  <2> QED
    BY <2>1, OneWrite
<1>5. s \in Seq(Entries) /\ LiveEntries \in SUBSET Entries /\ mem \in [Addresses -> Byte]
  BY <1>1, <1>2, ListsOfWrites DEF Typed, LiveEntries
<1>6. CASE s # <<>>
  <2> HIDE DEF last
  <2>1. h = Head(s) /\ job'.todo = Tail(s) \o last
    BY <1>1, <1>2, <1>4, <1>5, <1>6, JoinedLists
  <2>2. h \in LiveEntries /\ Tail(s) \in Seq(LiveEntries)
    BY <1>6, <2>1, HeadTailProperties
  <2>3. /\ \A i \in 1..4 : mem'[SentinelLoc + i - 1] = mem[SentinelLoc + i - 1]
        /\ preset_index' = preset_index
        /\ LiveEntries' = LiveEntries
    BY <1>1, <2>2, LiveWriteIs
  <2>4. ASSUME NEW f \in Fields, NEW k \in 1..2
        PROVE  Due(mem', Position(preset_index, f) + k - 1, live[f][k], Tail(s))
    <3> DEFINE a == Position(preset_index, f) + k - 1
    <3>1. \A e \in LiveEntries : e[1] = a => e[2] = live[f][k]
      BY <1>1, LiveUnique
    <3>2. Due(mem, a, live[f][k], s) /\ a \in Addresses
      BY <1>1, <1>2, IndexIsPreset, PositionPlace DEF LiveDue
    <3> HIDE DEF h, a
    <3>3. Due(MemWith(mem, Head(s)), a, live[f][k], Tail(s))
      BY <1>5, <1>6, <3>1, <3>2, DueKept
    <3> QED
      BY <1>1, <2>1, <3>3 DEF a
  <2>5. LiveDue(Tail(s))'
    BY <1>1, <2>3, <2>4 DEF LiveDue
  <2>6. InSelect'
    BY <1>1, <1>3, <2>1, <2>2, <2>3, <2>5 DEF InSelect, last
  <2>7. WholeOrWiped'
    BY <1>1, <2>3 DEF SettingsInv, WholeOrWiped, Running
  <2> QED
    BY <2>6, <2>7
<1>7. CASE s = <<>>
  <2> HIDE DEF last
  <2>1. h = <<PresetIndexOffset, job.index>> /\ job'.todo = <<>>
    BY <1>1, <1>2, <1>4, <1>5, <1>7, JoinedLists
  <2>2. mem'[PresetIndexOffset] = job.index
    BY <1>1, <1>5, <2>1, OtherPlaces DEF MemWith
  <2>3. \A i \in 1..4 : mem'[SentinelLoc + i - 1] = mem[SentinelLoc + i - 1]
    BY <1>1, <1>3, <2>1, WriteAbove
  <2>4. InSelect'
    BY <1>1, <1>3, <2>1, <2>2 DEF InSelect
  <2>5. WholeOrWiped'
    BY <1>1, <2>3 DEF SettingsInv, WholeOrWiped, Running
  <2> QED
    BY <2>4, <2>5
<1> QED
  BY <1>6, <1>7

LEMMA WriteKeeps ==
  ASSUME SettingsInv, WriteByte
  PROVE  SettingsInv'
<1> DEFINE h == Head(job.todo)
<1>1. /\ Typed /\ h \in Entries /\ mem' = MemWith(mem, h) /\ job'.todo = Tail(job.todo)
      /\ job.todo # <<>> /\ live' = live /\ job'.op = job.op /\ job'.index = job.index
      /\ Typed'
  BY WriteIs DEF SettingsInv
<1>2. job.op \in {"init", "flush", "select", "reset"}
  BY <1>1 DEF SettingsInv, InNothing, Typed, Ops
<1>3. CASE job.op = "init"
  <2>1. InInit'
    BY <1>3, InitWriteKeeps
  <2> QED
    BY <1>1, <1>3, <2>1
       DEF SettingsInv, InNothing, InFlush, InSelect, InReset, WholeOrWiped, Running
<1>4. CASE job.op = "flush"
  <2>1. job.todo \in Seq(LiveEntries)
    BY <1>4 DEF SettingsInv, InFlush
  <2>2. h \in LiveEntries /\ Tail(job.todo) \in Seq(LiveEntries)
    BY <1>1, <2>1, HeadTailProperties
  <2>3. /\ \A i \in 1..4 : mem'[SentinelLoc + i - 1] = mem[SentinelLoc + i - 1]
        /\ LiveEntries' = LiveEntries
    BY <1>1, <2>2, LiveWriteIs
  <2>4. InFlush' /\ WholeOrWiped'
    BY <1>1, <1>4, <2>2, <2>3 DEF SettingsInv, InFlush, WholeOrWiped, Running
  <2> QED
    BY <1>1, <1>4, <2>4 DEF SettingsInv, InNothing, InInit, InSelect, InReset
<1>5. CASE job.op = "select"
  <2>1. InSelect' /\ WholeOrWiped'
    BY <1>5, SelectWriteKeeps
  <2> QED
    BY <1>1, <1>5, <2>1 DEF SettingsInv, InNothing, InInit, InFlush, InReset
<1>6. CASE job.op = "reset"
  <2> DEFINE zeros == <<0, 0, 0, 0>>
  <2>1. job.todo \in Seq(SentinelEntries(zeros))
    BY <1>6 DEF SettingsInv, InReset
  <2>2. \A i \in 1..4 : zeros[i] = 0
    OBVIOUS
  <2> HIDE DEF zeros
  <2>3. h \in SentinelEntries(zeros) /\ Tail(job.todo) \in Seq(SentinelEntries(zeros))
    BY <1>1, <2>1, HeadTailProperties
  <2>4. ASSUME NEW i \in 1..4
        PROVE  mem'[SentinelLoc + i - 1] \in {mem[SentinelLoc + i - 1], 0}
    <3>1. h[1] = SentinelLoc + i - 1 => h[2] = 0
      BY <2>2, <2>3, SentinelUnique
    <3>2. SentinelLoc + i - 1 \in Addresses /\ mem \in [Addresses -> Byte] /\ h[1] \in Addresses
      BY <1>1, OtherPlaces DEF Typed, Entries
    <3> HIDE DEF h
    <3> QED
      BY <1>1, <3>1, <3>2 DEF MemWith
  <2>5. WholeOrWiped'
    BY <1>1, <1>6, <2>4 DEF SettingsInv, WholeOrWiped, Running
  <2>6. InReset'
    BY <1>1, <2>3 DEF InReset, zeros
  <2> QED
    BY <1>1, <1>6, <2>5, <2>6 DEF SettingsInv, InNothing, InInit, InFlush, InSelect
<1> QED
  BY <1>2, <1>3, <1>4, <1>5, <1>6

LEMMA SettingsStep == SettingsInv /\ [Next]_vars => SettingsInv'
<1> SUFFICES ASSUME SettingsInv, [Next]_vars PROVE SettingsInv'
  OBVIOUS
<1>1. CASE UNCHANGED vars
  <2>1. mem' = mem /\ live' = live /\ job' = job
    BY <1>1 DEF vars
  <2>2. Typed' /\ InNothing' /\ InReset' /\ WholeOrWiped'
    BY <2>1 DEF SettingsInv, Typed, InNothing, InReset, WholeOrWiped, Running
  <2>3. LiveEntries' = LiveEntries /\ (Ready' <=> Ready)
    BY <2>1 DEF LiveEntries, Ready, preset_index
  <2>4. InInit'
    <3>1. SUFFICES ASSUME job.op = "init" PROVE InInit'
      BY <2>1 DEF InInit
    <3>2. PICK s \in Seq(InitEntries), t \in Seq(SentinelEntries(SentinelValue)) :
            /\ job.todo = s \o t
            /\ s # <<>> => ~Ready
            /\ InitDue(s) /\ SentinelDue(t)
      BY <3>1 DEF SettingsInv, InInit
    <3>3. InitDue(s)' /\ SentinelDue(t)'
      BY <2>1, <3>2 DEF InitDue, SentinelDue
    <3> QED
      BY <2>1, <2>3, <3>2, <3>3 DEF InInit
  <2>5. InFlush'
    BY <2>1, <2>3 DEF SettingsInv, InFlush
  <2>6. InSelect'
    <3>1. SUFFICES ASSUME job.op = "select" PROVE InSelect'
      BY <2>1 DEF InSelect
    <3>2. job.index \in Indices
      BY <3>1 DEF SettingsInv, InSelect
    <3>3. CASE job.todo = <<>> /\ mem[PresetIndexOffset] = job.index
      BY <2>1, <3>2, <3>3 DEF InSelect
    <3>4. CASE \E s \in Seq(LiveEntries) :
                 job.todo = s \o << <<PresetIndexOffset, job.index>> >> /\ LiveDue(s)
      <4>1. PICK s \in Seq(LiveEntries) :
              job.todo = s \o << <<PresetIndexOffset, job.index>> >> /\ LiveDue(s)
        BY <3>4
      <4>2. LiveDue(s)'
        BY <2>1, <4>1 DEF LiveDue, preset_index
      <4> QED
        BY <2>1, <2>3, <3>2, <4>1, <4>2 DEF InSelect
    <3> QED
      BY <3>1, <3>3, <3>4 DEF SettingsInv, InSelect
  <2> QED
    BY <2>2, <2>4, <2>5, <2>6 DEF SettingsInv
<1>2. CASE Next
  BY <1>2, BootKeeps, ChangeKeeps, FlushKeeps, SelectKeeps, ResetKeeps, WriteKeeps,
     ReturnKeeps, LossKeeps DEF Next
<1> QED
  BY <1>1, <1>2

\* What a function has still to write, and what it has written, at every moment.
THEOREM SettingsTyped == Spec => []SettingsInv
<1> QED
  BY SettingsStart, SettingsStep, PTL DEF Spec

-----------------------------------------------------------------------------
(* A valid sentinel means that everything has been written.                *)

\* While the defaults are written, a valid sentinel means that they all are.
DefaultsWritten ==
  /\ mem[PresetIndexOffset] = 0
  /\ \A p \in Presets, f \in Fields, k \in 1..2 : mem[Position(p, f) + k - 1] = Default[f][k]

LEMMA NothingDue == \A m, a, b : Due(m, a, b, <<>>) => m[a] = b
BY DEF Due, Range

LEMMA InitReady ==
  ASSUME SettingsInv, job.op = "init", Ready \/ job.todo = <<>>
  PROVE  DefaultsWritten
<1>1. PICK s \in Seq(InitEntries), t \in Seq(SentinelEntries(SentinelValue)) :
        job.todo = s \o t /\ (s # <<>> => ~Ready) /\ InitDue(s)
  BY DEF SettingsInv, InInit
<1>2. s = <<>>
  BY <1>1, ListsOfWrites, JoinedLists
<1> QED
  BY <1>1, <1>2, NothingDue DEF InitDue, DefaultsWritten

\* The same after a step.
LEMMA InitReadyNext ==
  ASSUME SettingsInv', job'.op = "init", Ready'
  PROVE  DefaultsWritten'
<1>1. PICK s \in Seq(InitEntries), t \in Seq(SentinelEntries(SentinelValue)) :
        (s # <<>> => ~Ready') /\ InitDue(s)'
  BY DEF SettingsInv, InInit
<1>2. s = <<>>
  BY <1>1
<1> QED
  BY <1>1, <1>2, NothingDue DEF InitDue, DefaultsWritten

\* What no step of a function that runs does: write above the index but the
\* selected preset's values.
LEMMA RunningWrites ==
  ASSUME SettingsInv, WriteByte, Running
  PROVE  \/ Head(job.todo) \in LiveEntries
         \/ Head(job.todo) \in Entries /\ Head(job.todo)[1] <= PresetIndexOffset
<1>1. /\ Typed /\ job.todo # <<>> /\ Head(job.todo) \in Entries
      /\ PresetIndexOffset \in Nat
  BY WriteIs, SettingsAssumption DEF SettingsInv
<1>2. job.op \in {"flush", "select", "reset"}
  BY <1>1 DEF SettingsInv, InNothing, Running
<1>3. CASE job.op = "flush"
  BY <1>1, <1>3, HeadTailProperties DEF SettingsInv, InFlush
<1>4. CASE job.op = "select"
  <2> DEFINE last == << <<PresetIndexOffset, job.index>> >>
  <2>1. PICK s \in Seq(LiveEntries) : job.todo = s \o last
    BY <1>1, <1>4 DEF SettingsInv, InSelect
  <2>2. /\ last \in Seq(Entries) /\ Head(last)[1] = PresetIndexOffset
        /\ s \in Seq(Entries)
    <3>1. job.index \in Indices
      BY <1>4 DEF SettingsInv, InSelect
    <3>2. <<PresetIndexOffset, job.index>> \in Entries
      BY <3>1, IndexIsByte, OtherPlaces DEF Entries
    <3> QED
      BY <3>2, OneWrite, ListsOfWrites
  <2> HIDE DEF last
  <2>3. s # <<>> => Head(job.todo) = Head(s) /\ Head(s) \in LiveEntries
    BY <2>1, <2>2, JoinedLists, HeadTailProperties
  <2>4. s = <<>> => Head(job.todo)[1] = PresetIndexOffset
    BY <2>1, <2>2, JoinedLists
  <2> QED
    BY <1>1, <2>3, <2>4
<1>5. CASE job.op = "reset"
  <2>1. job.todo \in Seq(SentinelEntries(<<0, 0, 0, 0>>))
    BY <1>5 DEF SettingsInv, InReset
  <2>2. Head(job.todo) \in SentinelEntries(<<0, 0, 0, 0>>)
    BY <1>1, <2>1, HeadTailProperties
  <2>3. Head(job.todo)[1] < PresetIndexOffset
    BY <2>2, SentinelUnique
  <2>4. Head(job.todo)[1] \in Nat
    <3>1. Head(job.todo)[1] \in Addresses /\ SentinelLoc \in Nat
      BY <1>1, SettingsAssumption DEF Entries
    <3> QED
      BY <3>1 DEF Addresses
  <2> QED
    BY <1>1, <2>3, <2>4
<1> QED
  BY <1>2, <1>3, <1>4, <1>5

\* The byte of a value after a write.
LEMMA ValueAfter ==
  ASSUME SettingsInv, WriteByte, Running,
         NEW p \in Presets, NEW f \in Fields, NEW k \in 1..2
  PROVE  \/ mem'[Position(p, f) + k - 1] = mem[Position(p, f) + k - 1]
         \/ p = preset_index /\ mem'[Position(p, f) + k - 1] = live[f][k]
<1> DEFINE h == Head(job.todo)
           a == Position(p, f) + k - 1
<1>1. /\ Typed /\ h \in Entries /\ mem' = MemWith(mem, h) /\ mem \in [Addresses -> Byte]
  BY WriteIs DEF SettingsInv, Typed
<1>2. a \in Addresses /\ a > PresetIndexOffset /\ a \in Nat /\ PresetIndexOffset \in Nat
  <2>1. a \in Addresses /\ a > PresetIndexOffset
    BY PositionPlace
  <2>2. SentinelLoc \in Nat /\ PresetIndexOffset \in Nat
    BY SettingsAssumption
  <2> HIDE DEF a
  <2> QED
    BY <2>1, <2>2 DEF Addresses
<1>3. h \in LiveEntries \/ h[1] <= PresetIndexOffset
  BY RunningWrites
<1> HIDE DEF h
<1>4. CASE h[1] <= PresetIndexOffset
  <2>1. h[1] # a
    BY <1>2, <1>4
  <2> HIDE DEF a
  <2>2. mem'[a] = mem[a]
    BY <1>1, <1>2, <2>1 DEF MemWith
  <2> QED
    BY <2>2 DEF a
<1>5. CASE h \in LiveEntries
  <2>1. p = preset_index => (h[1] = a => h[2] = live[f][k])
    BY <1>1, <1>5, LiveUnique
  <2>2. p # preset_index => h[1] # a
    BY <1>1, <1>5, LiveUnique
  <2> HIDE DEF a
  <2>3. mem'[a] = IF h[1] = a THEN h[2] ELSE mem[a]
    BY <1>1, <1>2 DEF MemWith, Entries
  <2> QED
    BY <2>1, <2>2, <2>3 DEF a
<1> QED
  BY <1>3, <1>4, <1>5

\* A word is not that of an erased EEPROM if its high byte is not 255.
HighBytes == \A p \in Presets, f \in Fields : mem[Position(p, f) + 2 - 1] # 255
LiveHighBytes == \A f \in Fields : live[f][2] # 255

HighInv ==
  /\ Ready \/ Running => HighBytes
  /\ Running => LiveHighBytes

\* No setting is so large: the values and the defaults are below 65280.
HighByteFree ==
  /\ \A f \in Fields : Default[f][2] # 255
  /\ \A w \in Values : w[2] # 255

LEMMA SavedHigh ==
  ASSUME HighBytes, NEW p \in Presets, live' = Saved(p)
  PROVE  LiveHighBytes'
<1>1. ASSUME NEW f \in Fields PROVE live'[f][2] # 255
  <2>1. live'[f][2] = mem[Position(p, f) + 1]
    BY DEF Saved, ReadWord
  <2>2. 2 \in 1..2 /\ Position(p, f) + 2 - 1 = Position(p, f) + 1
    BY PositionPlace, BytesOf
  <2> QED
    BY <2>1, <2>2 DEF HighBytes
<1> QED
  BY <1>1 DEF LiveHighBytes

LEMMA DefaultsHigh ==
  ASSUME HighByteFree, DefaultsWritten
  PROVE  HighBytes
<1>1. 2 \in 1..2
  OBVIOUS
<1> QED
  BY <1>1 DEF HighByteFree, DefaultsWritten, HighBytes

LEMMA HighStep ==
  ASSUME HighByteFree, SettingsInv, SettingsInv', HighInv, [Next]_vars
  PROVE  HighInv'
<1>1. Typed /\ preset_index \in Presets
  BY IndexIsPreset DEF SettingsInv
<1>2. ASSUME mem' = mem, job' = job, live' = live PROVE HighInv'
  BY <1>2 DEF HighInv, Ready, Running, HighBytes, LiveHighBytes
<1>3. CASE UNCHANGED vars
  BY <1>2, <1>3 DEF vars
<1>4. CASE Boot
  <2>1. mem' = mem /\ (Ready' <=> Ready) /\ (HighBytes' <=> HighBytes)
    BY <1>4 DEF Boot, Ready, HighBytes
  <2>2. CASE ~Ready /\ job' = Job("init", 0, InitWrites)
    BY <2>1, <2>2 DEF Job, HighInv, Running
  <2>3. CASE Ready /\ live' = Saved(preset_index)
    <3>1. HighBytes
      BY <2>3 DEF HighInv
    <3>2. LiveHighBytes'
      BY <1>1, <2>3, <3>1, SavedHigh
    <3> QED
      BY <2>1, <3>1, <3>2 DEF HighInv
  <2> QED
    BY <1>4, <2>2, <2>3 DEF Boot
<1>5. CASE Change
  <2>1. mem' = mem /\ job' = job /\ job.op = "idle"
    BY <1>5 DEF Change, Idle
  <2>2. PICK f \in Fields, w \in Values : live' = [live EXCEPT ![f] = w]
    BY <1>5 DEF Change
  <2>3. LiveHighBytes
    BY <2>1 DEF HighInv, Running
  <2>4. live \in [Fields -> Words]
    BY <1>1 DEF Typed
  <2>5. w[2] # 255
    BY DEF HighByteFree
  <2>6. LiveHighBytes'
    BY <2>2, <2>3, <2>4, <2>5 DEF LiveHighBytes
  <2> QED
    BY <2>1, <2>6 DEF HighInv, Ready, Running, HighBytes
<1>6. CASE Flush \/ SetPresetIndex \/ ResetToDefaults
  <2>1. mem' = mem /\ live' = live /\ job.op = "idle"
    BY <1>6 DEF Flush, SetPresetIndex, ResetToDefaults, Idle
  <2>2. HighBytes /\ LiveHighBytes
    BY <2>1 DEF HighInv, Running
  <2> QED
    BY <2>1, <2>2 DEF HighInv, HighBytes, LiveHighBytes
<1>7. CASE WriteByte
  <2>1. job'.op = job.op /\ live' = live
    BY <1>1, <1>7, WriteIs
  <2>2. CASE Running
    <3>1. HighBytes /\ LiveHighBytes
      BY <2>2 DEF HighInv
    <3>2. 2 \in 1..2
      OBVIOUS
    <3>3. HighBytes'
      BY <1>7, <2>2, <3>1, <3>2, ValueAfter DEF HighBytes, LiveHighBytes
    <3> QED
      BY <2>1, <3>1, <3>3 DEF HighInv, LiveHighBytes
  <2>3. CASE ~Running
    <3>1. job.op = "init"
      <4>1. job.todo # <<>>
        BY <1>7 DEF WriteByte
      <4> QED
        BY <1>1, <2>3, <4>1 DEF SettingsInv, InNothing, Running, Typed, Ops
    <3>2. ~Running'
      BY <2>1, <2>3 DEF Running
    <3>3. Ready' => HighBytes'
      <4>1. SUFFICES ASSUME Ready' PROVE HighBytes'
        OBVIOUS
      <4>2. DefaultsWritten'
        BY <2>1, <3>1, <4>1, InitReadyNext
      <4>3. 2 \in 1..2
        OBVIOUS
      <4> QED
        BY <4>2, <4>3 DEF HighByteFree, DefaultsWritten, HighBytes
    <3> QED
      BY <3>2, <3>3 DEF HighInv
  <2> QED
    BY <2>2, <2>3
<1>8. CASE Return
  <2>1. mem' = mem /\ job.todo = <<>> /\ job.op \in {"init", "flush", "select", "reset"}
    BY <1>8 DEF Return
  <2>2. HighBytes
    <3>1. CASE job.op = "init"
      BY <2>1, <3>1, InitReady, DefaultsHigh
    <3>2. CASE job.op # "init"
      BY <2>1, <3>2 DEF HighInv, Running
    <3> QED
      BY <3>1, <3>2
  <2>3. LiveHighBytes'
    <3>1. CASE job.op = "init"
      <4>1. live' = Saved(preset_index)
        BY <1>8, <3>1 DEF Return
      <4> QED
        BY <1>1, <2>2, <4>1, SavedHigh
    <3>2. CASE job.op = "select"
      <4>1. live' = Saved(job.index) /\ job.index \in Presets
        BY <1>1, <1>8, <3>2 DEF Return, Typed
      <4> QED
        BY <2>2, <4>1, SavedHigh
    <3>3. CASE job.op \in {"flush", "reset"}
      BY <1>8, <3>3 DEF Return, HighInv, Running, LiveHighBytes
    <3> QED
      BY <2>1, <3>1, <3>2, <3>3
  <2> QED
    BY <2>1, <2>2, <2>3 DEF HighInv, HighBytes
<1>9. CASE PowerLoss
  <2>1. mem' = mem /\ job'.op = "off"
    BY <1>9 DEF PowerLoss, Off
  <2> QED
    BY <2>1 DEF HighInv, Running, Ready, HighBytes
<1> QED
  BY <1>3, <1>4, <1>5, <1>6, <1>7, <1>8, <1>9 DEF Next

\* An erased EEPROM has no sentinel.
LEMMA ErasedNotReady == Init => ~Ready
<1> SUFFICES ASSUME Init, Ready PROVE FALSE
  OBVIOUS
<1>1. \A i \in 1..4 : SentinelValue[i] = 255
  BY OtherPlaces DEF Init, Ready
<1>2. SentinelValue = [i \in 1..4 |-> 255]
  BY <1>1, SettingsAssumption
<1>3. <<255, 255, 255, 255>> = [i \in 1..4 |-> 255]
  OBVIOUS
<1> QED
  BY <1>2, <1>3, SettingsAssumption

\* A valid sentinel means that every value has been written since the EEPROM
\* was erased, wherever the power failed, for every layout of the settings
\* (settings.cpp:85).
THEOREM SentinelIsLast ==
  ASSUME HighByteFree
  PROVE  Spec => []SentinelLast
<1>1. Init => HighInv
  <2>1. Init => ~Running
    BY DEF Init, Off, Running
  <2> QED
    BY <2>1, ErasedNotReady DEF HighInv
<1>2. SettingsInv /\ SettingsInv' /\ HighInv /\ [Next]_vars => HighInv'
  BY HighStep
<1>3. SettingsInv /\ HighInv => SentinelLast
  <2> SUFFICES ASSUME SettingsInv, HighInv, Ready, NEW p \in Presets, NEW f \in Fields
               PROVE  ReadWord(Position(p, f)) # <<255, 255>>
    BY DEF SentinelLast
  <2>1. mem[Position(p, f) + 1] # 255
    BY PositionPlace, BytesOf DEF HighInv, HighBytes
  <2> QED
    BY <2>1 DEF ReadWord
<1> QED
  BY <1>1, <1>2, <1>3, SettingsTyped, PTL DEF Spec

LEMMA NotResetWrites ==
  ASSUME SettingsInv, WriteByte, Running, job.op # "reset"
  PROVE  Head(job.todo)[1] >= PresetIndexOffset
<1>1. /\ Typed /\ job.todo # <<>> /\ PresetIndexOffset \in Nat
  BY WriteIs, SettingsAssumption DEF SettingsInv
<1>2. \A e \in LiveEntries : e[1] >= PresetIndexOffset
  <2> SUFFICES ASSUME NEW e \in LiveEntries PROVE e[1] >= PresetIndexOffset
    OBVIOUS
  <2>1. e \in Entries /\ e[1] > PresetIndexOffset
    BY <1>1, LiveUnique
  <2>2. e[1] \in Nat
    <3>1. e[1] \in Addresses /\ SentinelLoc \in Nat
      BY <2>1, SettingsAssumption DEF Entries
    <3> QED
      BY <3>1 DEF Addresses
  <2> QED
    BY <1>1, <2>1, <2>2
<1>3. CASE job.op = "flush"
  <2>1. Head(job.todo) \in LiveEntries
    BY <1>1, <1>3, HeadTailProperties DEF SettingsInv, InFlush
  <2> QED
    BY <1>2, <2>1
<1>4. CASE job.op = "select"
  <2> DEFINE last == << <<PresetIndexOffset, job.index>> >>
  <2>1. PICK s \in Seq(LiveEntries) : job.todo = s \o last
    BY <1>1, <1>4 DEF SettingsInv, InSelect
  <2>2. /\ last \in Seq(Entries) /\ Head(last)[1] = PresetIndexOffset
        /\ s \in Seq(Entries)
    <3>1. job.index \in Indices
      BY <1>4 DEF SettingsInv, InSelect
    <3>2. <<PresetIndexOffset, job.index>> \in Entries
      BY <3>1, IndexIsByte, OtherPlaces DEF Entries
    <3> QED
      BY <3>2, OneWrite, ListsOfWrites
  <2> HIDE DEF last
  <2>3. s # <<>> => Head(job.todo) = Head(s) /\ Head(s) \in LiveEntries
    BY <2>1, <2>2, JoinedLists, HeadTailProperties
  <2>4. s = <<>> => Head(job.todo)[1] = PresetIndexOffset
    BY <2>1, <2>2, JoinedLists
  <2> QED
    BY <1>1, <1>2, <2>3, <2>4
<1> QED
  BY <1>1, <1>3, <1>4 DEF Running, SettingsInv, InNothing

-----------------------------------------------------------------------------
(* The settings implement the profiles.                                    *)

\* The presets that are asked for are the ones that can be read back.
ReadBack == MaxIndex <= 127 /\ Indices \subseteq 0..MaxIndex

LEMMA SeenTyped ==
  ASSUME Typed
  PROVE  SeenProfile \in [Presets -> [Fields -> Words]]
BY SavedTyped DEF SeenProfile, Typed

LEMMA SavedSame ==
  ASSUME NEW p \in Presets,
         \A f \in Fields, k \in 1..2 :
           mem'[Position(p, f) + k - 1] = mem[Position(p, f) + k - 1]
  PROVE  Saved(p)' = Saved(p)
<1>1. ASSUME NEW f \in Fields PROVE ReadWord(Position(p, f))' = ReadWord(Position(p, f))
  <2>1. 1 \in 1..2 /\ 2 \in 1..2
    OBVIOUS
  <2>2. /\ Position(p, f) + 1 - 1 = Position(p, f)
        /\ Position(p, f) + 2 - 1 = Position(p, f) + 1
    BY <2>1, PositionPlace, BytesOf
  <2>3. mem'[Position(p, f)] = mem[Position(p, f)] /\ mem'[Position(p, f) + 1] = mem[Position(p, f) + 1]
    BY <2>1, <2>2
  <2> QED
    BY <2>3 DEF ReadWord
<1> QED
  BY <1>1 DEF Saved

\* A step that leaves the EEPROM, and that does not change whose values are seen.
LEMMA SeenSame ==
  ASSUME preset_index' = preset_index,
         \A p \in Presets : Saved(p)' = Saved(p),
         LiveIsCurrent' => live' = IF LiveIsCurrent THEN live ELSE Saved(preset_index),
         ~LiveIsCurrent' /\ LiveIsCurrent => live = Saved(preset_index)
  PROVE  SeenProfile' = SeenProfile
<1>1. ASSUME NEW p \in Presets
      PROVE  (IF LiveIsCurrent' /\ p = preset_index' THEN live' ELSE Saved(p)') =
             (IF LiveIsCurrent /\ p = preset_index THEN live ELSE Saved(p))
  OBVIOUS
<1> QED
  BY <1>1 DEF SeenProfile

LEMMA MemSame ==
  ASSUME mem' = mem
  PROVE  /\ preset_index' = preset_index /\ (Ready' <=> Ready)
         /\ \A p \in Presets : Saved(p)' = Saved(p)
BY DEF preset_index, Ready, Saved, ReadWord

\* What only the functions that run can do to the sentinel.
LEMMA RunningStaysUnready ==
  ASSUME SettingsInv, SettingsInv', WriteByte, Running, ~Ready
  PROVE  ~Ready'
<1> DEFINE h == Head(job.todo)
<1>1. /\ Typed /\ h \in Entries /\ mem' = MemWith(mem, h)
      /\ job.todo # <<>>
  BY WriteIs DEF SettingsInv
<1>2. CASE job.op = "reset"
  <2> DEFINE zeros == <<0, 0, 0, 0>>
  <2>1. job.todo \in Seq(SentinelEntries(zeros)) /\ \A i \in 1..4 : zeros[i] = 0
    BY <1>2 DEF SettingsInv, InReset
  <2> HIDE DEF zeros
  <2>2. h \in SentinelEntries(zeros)
    BY <1>1, <2>1, HeadTailProperties
  <2>3. PICK i \in 1..4 : mem[SentinelLoc + i - 1] # SentinelValue[i]
    BY DEF Ready
  <2>4. mem[SentinelLoc + i - 1] = 0 /\ SentinelValue[i] # 0
    BY <2>3 DEF SettingsInv, WholeOrWiped
  <2>5. mem'[SentinelLoc + i - 1] = 0
    <3>1. h[1] = SentinelLoc + i - 1 => h[2] = 0
      BY <2>1, <2>2, SentinelUnique
    <3>2. SentinelLoc + i - 1 \in Addresses /\ mem \in [Addresses -> Byte] /\ h[1] \in Addresses
      BY <1>1, OtherPlaces DEF Typed, Entries
    <3> HIDE DEF h
    <3> QED
      BY <1>1, <2>4, <3>1, <3>2 DEF MemWith
  <2> QED
    BY <2>4, <2>5 DEF Ready
<1>3. CASE job.op # "reset"
  <2>1. h[1] >= PresetIndexOffset
    BY <1>3, NotResetWrites
  <2> HIDE DEF h
  <2> QED
    BY <1>1, <2>1, WriteAbove
<1> QED
  BY <1>2, <1>3

\* The defaults are complete: Prepare.
LEMMA Preparing ==
  ASSUME SettingsInv, SettingsInv', WriteByte, ~Ready, Ready'
  PROVE  P!Prepare
<1>1. job'.op = job.op /\ Typed /\ Typed' /\ job.todo # <<>>
  BY WriteIs DEF SettingsInv
<1>2. job.op = "init"
  <2>1. ~Running
    BY RunningStaysUnready
  <2> QED
    BY <1>1, <2>1 DEF Running, SettingsInv, InNothing, Typed, Ops
<1>3. DefaultsWritten'
  BY <1>1, <1>2, InitReadyNext
<1>4. preset_index' = 0
  <2>1. mem'[PresetIndexOffset] = 0 /\ MaxIndex \in Nat
    BY <1>3, SettingsAssumption DEF DefaultsWritten, Presets
  <2> QED
    BY <2>1 DEF preset_index
<1>5. ASSUME NEW p \in Presets PROVE Saved(p)' = Default
  <2>1. ASSUME NEW f \in Fields PROVE ReadWord(Position(p, f))' = Default[f]
    <3>1. 1 \in 1..2 /\ 2 \in 1..2
      OBVIOUS
    <3>2. /\ Position(p, f) + 1 - 1 = Position(p, f)
          /\ Position(p, f) + 2 - 1 = Position(p, f) + 1
      BY <3>1, PositionPlace, BytesOf
    <3>3. /\ mem'[Position(p, f)] = Default[f][1]
          /\ mem'[Position(p, f) + 1] = Default[f][2]
      BY <1>3, <3>1, <3>2 DEF DefaultsWritten
    <3>4. Default[f] \in Byte \X Byte
      BY SettingsAssumption DEF Words
    <3> QED
      BY <3>3, <3>4 DEF ReadWord
  <2>2. Default = [f \in Fields |-> Default[f]]
    BY SettingsAssumption
  <2> QED
    BY <2>1, <2>2 DEF Saved
<1>6. ~LiveIsCurrent'
  BY <1>1, <1>2 DEF LiveIsCurrent
<1>7. SeenProfile' = [p \in Presets |-> Default]
  BY <1>5, <1>6 DEF SeenProfile
<1>8. job # Off /\ job' # Off
  BY <1>1, <1>2 DEF Off
<1> QED
  BY <1>4, <1>7, <1>8 DEF P!Prepare

\* Such an index is read back as it is.
LEMMA ReadAsStored ==
  ASSUME ReadBack, NEW i \in Indices
  PROVE  /\ i \in Presets
         /\ i = IF i > 127 THEN 0 ELSE IF i > MaxIndex THEN MaxIndex ELSE i
<1>1. i \in 0..MaxIndex /\ MaxIndex <= 127
  BY DEF ReadBack
<1>2. i \in Presets /\ MaxIndex \in Presets
  BY SettingsAssumption
<1>3. MaxIndex \in Nat
  BY <1>2 DEF Presets
<1> QED
  BY <1>1, <1>2, <1>3

\* The functions start and end behind the user's back.
LEMMA BeginOrEnd ==
  ASSUME SettingsInv, ReadBack, Ready,
         Flush \/ SetPresetIndex \/ ResetToDefaults \/ Return
  PROVE  UNCHANGED P!pvars
<1>1. mem' = mem /\ job # Off /\ job' # Off
  BY DEF Flush, SetPresetIndex, ResetToDefaults, Return, Off, Idle, Job
<1>2. preset_index' = preset_index /\ (Ready' <=> Ready) /\ \A p \in Presets : Saved(p)' = Saved(p)
  BY <1>1, MemSame
<1>3. CASE Flush \/ ResetToDefaults
  <2>1. LiveIsCurrent /\ LiveIsCurrent' /\ live' = live
    BY <1>3 DEF Flush, ResetToDefaults, Idle, Job, LiveIsCurrent
  <2>2. SeenProfile' = SeenProfile
    BY <1>2, <2>1, SeenSame
  <2> QED
    BY <1>1, <1>2, <2>2 DEF P!pvars
<1>4. CASE SetPresetIndex
  <2>1. job.op = "idle" /\ live' = live /\ Typed
    BY <1>4 DEF SetPresetIndex, Idle, SettingsInv
  <2>2. PICK index \in Indices : job' = Job("select", index, SelectWrites(index))
    BY <1>4 DEF SetPresetIndex
  <2>3. job'.op = "select" /\ job'.todo = FlushWrites \o << <<PresetIndexOffset, index>> >>
    BY <2>2 DEF Job, SelectWrites
  <2>4. job'.todo # <<>>
    <3>1. FlushWrites \in Seq(Entries)
      BY <2>1, FlushLists, ListsOfWrites
    <3>2. << <<PresetIndexOffset, index>> >> \in Seq(Entries)
      <4>1. <<PresetIndexOffset, index>> \in Entries
        BY IndexIsByte, OtherPlaces DEF Entries
      <4> QED
        BY <4>1
    <3> QED
      BY <2>3, <3>1, <3>2, JoinedLists
  <2>5. LiveIsCurrent /\ LiveIsCurrent'
    BY <2>1, <2>3, <2>4 DEF LiveIsCurrent
  <2>6. SeenProfile' = SeenProfile
    BY <1>2, <2>1, <2>5, SeenSame
  <2> QED
    BY <1>1, <1>2, <2>6 DEF P!pvars
<1>5. CASE Return
  <2>1. job' = Idle /\ job.todo = <<>> /\ LiveIsCurrent'
    BY <1>5 DEF Return, Idle, LiveIsCurrent
  <2>2. live' = IF LiveIsCurrent THEN live ELSE Saved(preset_index)
    <3>1. CASE job.op = "init"
      BY <1>5, <3>1 DEF Return, LiveIsCurrent
    <3>2. CASE job.op = "select"
      <4>1. job.index \in Indices /\ mem[PresetIndexOffset] = job.index
        <5>1. \A s \in Seq(LiveEntries) :
                s \o << <<PresetIndexOffset, job.index>> >> # <<>>
          <6>1. job.index \in Indices
            BY <3>2 DEF SettingsInv, InSelect
          <6>2. << <<PresetIndexOffset, job.index>> >> \in Seq(Entries)
            BY <6>1, IndexIsByte, OtherPlaces DEF Entries
          <6> QED
            BY <6>2, ListsOfWrites, JoinedLists
        <5> QED
          BY <2>1, <3>2, <5>1 DEF SettingsInv, InSelect
      <4>2. preset_index = job.index
        BY <4>1, ReadAsStored DEF preset_index
      <4>3. live' = Saved(job.index) /\ ~LiveIsCurrent
        BY <1>5, <2>1, <3>2 DEF Return, LiveIsCurrent
      <4> QED
        BY <4>2, <4>3
    <3>3. CASE job.op \in {"flush", "reset"}
      BY <1>5, <3>3 DEF Return, LiveIsCurrent
    <3> QED
      BY <1>5, <3>1, <3>2, <3>3 DEF Return
  <2>3. SeenProfile' = SeenProfile
    BY <1>2, <2>1, <2>2, SeenSame
  <2> QED
    BY <1>1, <1>2, <2>3 DEF P!pvars
<1> QED
  BY <1>3, <1>4, <1>5

LEMMA Booting ==
  ASSUME SettingsInv, Ready, Boot
  PROVE  P!Start
<1>1. mem' = mem /\ job = Off /\ job' = Idle /\ live' = Saved(preset_index)
  BY DEF Boot
<1>2. job' # Off /\ ~LiveIsCurrent /\ LiveIsCurrent'
  BY <1>1 DEF Off, Idle, LiveIsCurrent
<1>3. preset_index' = preset_index /\ (Ready' <=> Ready) /\ \A p \in Presets : Saved(p)' = Saved(p)
  BY <1>1, MemSame
<1>4. SeenProfile' = SeenProfile
  BY <1>1, <1>2, <1>3, SeenSame
<1> QED
  BY <1>1, <1>2, <1>3, <1>4 DEF P!Start

LEMMA Changing ==
  ASSUME SettingsInv, Ready, Change
  PROVE  P!Change
<1>1. /\ mem' = mem /\ job' = job /\ job = Idle /\ Typed
      /\ preset_index \in Presets
  BY IndexIsPreset DEF Change, SettingsInv
<1>2. PICK f \in Fields, w \in Values : live' = [live EXCEPT ![f] = w]
  BY DEF Change
<1>3. preset_index' = preset_index /\ (Ready' <=> Ready) /\ \A p \in Presets : Saved(p)' = Saved(p)
  BY <1>1, MemSame
<1>4. LiveIsCurrent /\ LiveIsCurrent' /\ job # Off /\ job' # Off
  BY <1>1 DEF Idle, Off, LiveIsCurrent
<1>5. SeenProfile' = [SeenProfile EXCEPT ![preset_index] = live']
  BY <1>1, <1>3, <1>4 DEF SeenProfile
<1>6. SeenProfile'[preset_index] = live' /\ SeenProfile[preset_index] = live
  BY <1>1, <1>4, <1>5, SeenTyped DEF SeenProfile
<1>7. live' = [live EXCEPT ![f] = live'[f]]
  BY <1>1, <1>2 DEF Typed
<1>8. SeenProfile' =
        [SeenProfile EXCEPT ![preset_index] =
          [SeenProfile[preset_index] EXCEPT ![f] = SeenProfile'[preset_index][f]]]
  BY <1>5, <1>6, <1>7
<1>9. SeenProfile' =
        [SeenProfile EXCEPT ![preset_index][f] = SeenProfile'[preset_index][f]]
  BY <1>8
<1> QED
  BY <1>3, <1>4, <1>9 DEF P!Change

LEMMA Losing ==
  ASSUME SettingsInv, Ready, PowerLoss
  PROVE  P!Lose
<1>1. mem' = mem /\ job # Off /\ job' = Off
  BY DEF PowerLoss
<1>2. preset_index' = preset_index /\ (Ready' <=> Ready) /\ \A p \in Presets : Saved(p)' = Saved(p)
  BY <1>1, MemSame
<1>3. ~LiveIsCurrent'
  BY <1>1 DEF Off, LiveIsCurrent
<1>4. \A p \in Presets \ {preset_index} : SeenProfile'[p] = SeenProfile[p]
  BY <1>2, <1>3 DEF SeenProfile
<1> QED
  BY <1>1, <1>2, <1>4 DEF P!Lose

\* A byte of the selected preset's values is not seen: what is seen of it is live.
LEMMA LiveWriteUnseen ==
  ASSUME SettingsInv, WriteByte, Running, Head(job.todo) \in LiveEntries,
         LiveIsCurrent, LiveIsCurrent'
  PROVE  UNCHANGED <<Ready, preset_index, SeenProfile>>
<1>1. /\ Typed /\ mem' = MemWith(mem, Head(job.todo)) /\ live' = live
  BY WriteIs DEF SettingsInv
<1>2. preset_index' = preset_index /\ (Ready' <=> Ready)
  BY <1>1, LiveWriteIs
<1>3. \A p \in Presets \ {preset_index} : Saved(p)' = Saved(p)
  BY ValueAfter, SavedSame
<1>4. SeenProfile' = SeenProfile
  BY <1>1, <1>2, <1>3 DEF SeenProfile
<1> QED
  BY <1>2, <1>4

LEMMA Writing ==
  ASSUME SettingsInv, SettingsInv', ReadBack, Ready, WriteByte
  PROVE  P!Wipe \/ P!Select \/ UNCHANGED P!pvars
<1> DEFINE h == Head(job.todo)
<1>1. /\ Typed /\ h \in Entries /\ mem' = MemWith(mem, h) /\ job'.todo = Tail(job.todo)
      /\ job.todo # <<>> /\ live' = live /\ job'.op = job.op /\ job'.index = job.index
      /\ mem \in [Addresses -> Byte]
  BY WriteIs DEF SettingsInv, Typed
<1>2. job.op \in {"init", "flush", "select", "reset"}
  BY <1>1 DEF SettingsInv, InNothing, Typed, Ops
<1>3. job # Off /\ job' # Off
  BY <1>1, <1>2 DEF Off
<1>4. CASE job.op = "init"
  <2>1. PICK s \in Seq(InitEntries), t \in Seq(SentinelEntries(SentinelValue)) :
          job.todo = s \o t /\ (s # <<>> => ~Ready)
    BY <1>4 DEF SettingsInv, InInit
  <2>2. s = <<>> /\ job.todo = t
    BY <2>1, ListsOfWrites, JoinedLists
  <2>3. h \in SentinelEntries(SentinelValue)
    BY <1>1, <2>2, HeadTailProperties
  <2>4. mem' = mem
    <3>1. PICK i \in 1..4 : h = <<SentinelLoc + i - 1, SentinelValue[i]>>
      BY <2>3 DEF SentinelEntries
    <3>2. mem[h[1]] = h[2]
      BY <3>1 DEF Ready
    <3> HIDE DEF h
    <3> QED
      BY <1>1, <3>2 DEF MemWith
  <2>5. ~LiveIsCurrent /\ ~LiveIsCurrent'
    BY <1>1, <1>4 DEF LiveIsCurrent
  <2>6. preset_index' = preset_index /\ (Ready' <=> Ready) /\ \A p \in Presets : Saved(p)' = Saved(p)
    BY <2>4, MemSame
  <2>7. SeenProfile' = SeenProfile
    BY <2>5, <2>6, SeenSame
  <2> QED
    BY <1>3, <2>6, <2>7 DEF P!pvars
<1>5. CASE job.op = "flush"
  <2>1. h \in LiveEntries
    BY <1>1, <1>5, HeadTailProperties DEF SettingsInv, InFlush
  <2>2. Running /\ LiveIsCurrent /\ LiveIsCurrent'
    BY <1>1, <1>5 DEF Running, LiveIsCurrent
  <2>3. UNCHANGED <<Ready, preset_index, SeenProfile>>
    BY <2>1, <2>2, LiveWriteUnseen
  <2> QED
    BY <1>3, <2>3 DEF P!pvars
<1>6. CASE job.op = "select"
  <2> DEFINE last == << <<PresetIndexOffset, job.index>> >>
  <2>1. PICK s \in Seq(LiveEntries) : job.todo = s \o last /\ LiveDue(s)
    BY <1>1, <1>6 DEF SettingsInv, InSelect
  <2>2. job.index \in Indices
    BY <1>6 DEF SettingsInv, InSelect
  <2>3. last \in Seq(Entries) /\ last # <<>> /\ Head(last) = <<PresetIndexOffset, job.index>>
        /\ Tail(last) = <<>>
    <3>1. <<PresetIndexOffset, job.index>> \in Entries
      BY <2>2, IndexIsByte, OtherPlaces DEF Entries
    <3> QED
      BY <3>1, OneWrite
  <2>4. s \in Seq(Entries)
    BY ListsOfWrites
  <2>5. Running /\ LiveIsCurrent
    BY <1>1, <1>6 DEF Running, LiveIsCurrent
  <2> HIDE DEF last
  <2>6. CASE s # <<>>
    <3>1. h = Head(s) /\ job'.todo = Tail(s) \o last
      BY <1>1, <2>1, <2>3, <2>4, <2>6, JoinedLists
    <3>2. h \in LiveEntries
      BY <2>6, <3>1, HeadTailProperties
    <3>3. job'.todo # <<>>
      <4>1. Tail(s) \in Seq(Entries)
        BY <2>4, <2>6, HeadTailProperties
      <4> QED
        BY <2>3, <3>1, <4>1, JoinedLists
    <3>4. LiveIsCurrent'
      BY <1>1, <1>6, <3>3 DEF LiveIsCurrent
    <3>5. UNCHANGED <<Ready, preset_index, SeenProfile>>
      BY <2>5, <3>2, <3>4, LiveWriteUnseen
    <3> QED
      BY <1>3, <3>5 DEF P!pvars
  <2>7. CASE s = <<>>
    <3>1. h = <<PresetIndexOffset, job.index>> /\ job'.todo = <<>>
      BY <1>1, <2>1, <2>3, <2>4, <2>7, JoinedLists
    <3>2. mem'[PresetIndexOffset] = job.index
      BY <1>1, <3>1, OtherPlaces DEF MemWith
    <3>3. Ready' <=> Ready
      <4>1. h[1] >= PresetIndexOffset
        BY <3>1, SettingsAssumption
      <4> HIDE DEF h
      <4> QED
        BY <1>1, <4>1, WriteAbove
    <3>4. preset_index' \in Presets
      BY <2>2, <3>2, ReadAsStored DEF preset_index
    <3>5. ~LiveIsCurrent'
      BY <1>1, <1>6, <3>1 DEF LiveIsCurrent
    <3>6. \A p \in Presets : Saved(p)' = Saved(p)
      <4> SUFFICES ASSUME NEW p \in Presets PROVE Saved(p)' = Saved(p)
        OBVIOUS
      <4>1. ASSUME NEW f \in Fields, NEW k \in 1..2
            PROVE  mem'[Position(p, f) + k - 1] = mem[Position(p, f) + k - 1]
        <5> DEFINE a == Position(p, f) + k - 1
        <5>1. a \in Addresses /\ a > PresetIndexOffset /\ PresetIndexOffset \in Nat
          BY PositionPlace, SettingsAssumption
        <5>2. h[1] # a
          BY <3>1, <5>1
        <5> HIDE DEF h, a
        <5>3. mem'[a] = mem[a]
          BY <1>1, <5>1, <5>2 DEF MemWith
        <5> QED
          BY <5>3 DEF a
      <4> QED
        BY <4>1, SavedSame
    <3>7. live = Saved(preset_index)
      <4>1. \A f \in Fields, k \in 1..2 : mem[Position(preset_index, f) + k - 1] = live[f][k]
        BY <2>1, <2>7, NothingDue DEF LiveDue
      <4>2. ASSUME NEW f \in Fields PROVE ReadWord(Position(preset_index, f)) = live[f]
        <5>1. 1 \in 1..2 /\ 2 \in 1..2 /\ preset_index \in Presets
          BY <1>1, IndexIsPreset
        <5>2. /\ Position(preset_index, f) + 1 - 1 = Position(preset_index, f)
              /\ Position(preset_index, f) + 2 - 1 = Position(preset_index, f) + 1
          BY <5>1, PositionPlace, BytesOf
        <5>3. /\ mem[Position(preset_index, f)] = live[f][1]
              /\ mem[Position(preset_index, f) + 1] = live[f][2]
          BY <4>1, <5>1, <5>2
        <5>4. live[f] \in Byte \X Byte
          BY <1>1 DEF Typed, Words
        <5> QED
          BY <5>3, <5>4 DEF ReadWord
      <4>3. live = [f \in Fields |-> live[f]]
        BY <1>1 DEF Typed
      <4> QED
        BY <4>2, <4>3 DEF Saved
    <3>8. SeenProfile' = SeenProfile
      BY <3>5, <3>6, <3>7 DEF SeenProfile
    <3>9. P!Select
      BY <1>3, <3>3, <3>4, <3>8 DEF P!Select
    <3> QED
      BY <3>9
  <2> QED
    BY <2>6, <2>7
<1>7. CASE job.op = "reset"
  <2>1. job.todo \in Seq(SentinelEntries(<<0, 0, 0, 0>>))
    BY <1>7 DEF SettingsInv, InReset
  <2>2. h \in SentinelEntries(<<0, 0, 0, 0>>)
    BY <1>1, <2>1, HeadTailProperties
  <2>3. h[1] < PresetIndexOffset /\ PresetIndexOffset \in Nat
    BY <2>2, SentinelUnique, SettingsAssumption
  <2>4. h[1] \in Nat
    <3>1. h[1] \in Addresses /\ SentinelLoc \in Nat
      BY <1>1, SettingsAssumption DEF Entries
    <3> QED
      BY <3>1 DEF Addresses
  <2> HIDE DEF h
  <2>5. h[1] # PresetIndexOffset
    BY <2>3, <2>4
  <2>6. preset_index' = preset_index
    BY <1>1, <2>5, WriteBeside
  <2>7. \A p \in Presets : Saved(p)' = Saved(p)
    <3> SUFFICES ASSUME NEW p \in Presets PROVE Saved(p)' = Saved(p)
      OBVIOUS
    <3>1. ASSUME NEW f \in Fields, NEW k \in 1..2
          PROVE  mem'[Position(p, f) + k - 1] = mem[Position(p, f) + k - 1]
      <4> DEFINE a == Position(p, f) + k - 1
      <4>1. a \in Addresses /\ a > PresetIndexOffset
        BY PositionPlace
      <4>2. h[1] # a
        BY <2>3, <2>4, <4>1
      <4> HIDE DEF a
      <4>3. mem'[a] = mem[a]
        BY <1>1, <4>1, <4>2 DEF MemWith
      <4> QED
        BY <4>3 DEF a
    <3> QED
      BY <3>1, SavedSame
  <2>8. LiveIsCurrent /\ LiveIsCurrent'
    BY <1>1, <1>7 DEF LiveIsCurrent
  <2>9. SeenProfile' = SeenProfile
    BY <1>1, <2>6, <2>7, <2>8, SeenSame
  <2>10. CASE Ready'
    BY <1>3, <2>6, <2>9, <2>10 DEF P!pvars
  <2>11. CASE ~Ready'
    <3>1. P!Wipe
      BY <1>3, <2>6, <2>9, <2>11 DEF P!Wipe
    <3> QED
      BY <3>1
  <2> QED
    BY <2>10, <2>11
<1> QED
  BY <1>2, <1>4, <1>5, <1>6, <1>7

LEMMA ProfilesStep ==
  ASSUME SettingsInv, SettingsInv', ReadBack, [Next]_vars
  PROVE  [P!Next]_(P!pvars)
<1>1. CASE UNCHANGED vars
  BY <1>1 DEF vars, P!pvars, Ready, preset_index, SeenProfile, LiveIsCurrent, Saved, ReadWord
<1>2. CASE Next /\ Ready
  <2>1. CASE Boot
    BY <1>2, <2>1, Booting DEF P!Next
  <2>2. CASE Change
    BY <1>2, <2>2, Changing DEF P!Next
  <2>3. CASE Flush \/ SetPresetIndex \/ ResetToDefaults \/ Return
    BY <1>2, <2>3, BeginOrEnd
  <2>4. CASE WriteByte
    BY <1>2, <2>4, Writing DEF P!Next
  <2>5. CASE PowerLoss
    BY <1>2, <2>5, Losing DEF P!Next
  <2> QED
    BY <1>2, <2>1, <2>2, <2>3, <2>4, <2>5 DEF Next
<1>3. CASE Next /\ ~Ready /\ Ready'
  <2>1. WriteByte
    <3>1. ~WriteByte => mem' = mem
      BY <1>3 DEF Next, Boot, Change, Flush, SetPresetIndex, ResetToDefaults, Return, PowerLoss
    <3> QED
      BY <1>3, <3>1, MemSame
  <2> QED
    BY <1>3, <2>1, Preparing DEF P!Next
<1>4. CASE ~Ready /\ ~Ready'
  BY <1>4 DEF P!Next, P!Unprepared
<1> QED
  BY <1>1, <1>2, <1>3, <1>4

\* The settings keep their promise: the defaults appear all at once, a change of
\* preset loses nothing, and a power loss harms the selected preset only, for
\* every number of presets and every layout (settings.cpp:32, 51, 100).
THEOREM SettingsImplementProfiles ==
  ASSUME ReadBack
  PROVE  Spec => ProfilesSpec
<1>1. Init => P!Init
  <2> SUFFICES ASSUME Init PROVE P!Init
    OBVIOUS
  <2>1. Typed /\ ~Ready /\ job = Off
    BY SettingsStart, ErasedNotReady DEF SettingsInv, Init
  <2> QED
    BY <2>1, IndexIsPreset, SeenTyped DEF P!Init
<1>2. SettingsInv /\ SettingsInv' /\ [Next]_vars => [P!Next]_(P!pvars)
  BY ProfilesStep
<1> QED
  BY <1>1, <1>2, SettingsTyped, PTL DEF Spec, ProfilesSpec, P!Spec

=============================================================================
