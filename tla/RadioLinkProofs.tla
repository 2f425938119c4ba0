--------------------------- MODULE RadioLinkProofs ---------------------------
(***************************************************************************)
(* The order of the targets and the arrival of the newest, for every ring, *)
(* chip and number of commands, losses, overflows and restarts.            *)
(*                                                                         *)
(* Everything on its way from the hand unit's memory to the motor unit's   *)
(* is one sequence: what the motor unit goes by, its chip, the ring, and   *)
(* the stamp of the newest target.  Each step leaves some of it out, or    *)
(* puts something in before the last; an overflow does both.  So along the *)
(* sequence the stamps do not fall, and behind the newest target there are *)
(* neither targets nor announcements.                                      *)
(***************************************************************************)
EXTENDS RadioLink, TLAPS

-----------------------------------------------------------------------------
(* Sequences of packets, as functions on 1..n.                             *)

IsTarget(p) == p.type = "TARGET_POSITION_SET"
IsMark(p) == p.type \in {"TARGET_POSITION_SET", "mark"}
IsOther(p) == p.type \in {"SETTING_SET", "GET"}

Ordered(A, n) ==
  \A k, i \in 1..n : k < i /\ IsMark(A[k]) /\ IsMark(A[i]) => A[k].stamp <= A[i].stamp

\* B is what is left of A when some elements are left out, f saying where each
\* of B's has been.
Left(A, n, B, m, f) ==
  /\ f \in [1..m -> 1..n]
  /\ \A x, y \in 1..m : x < y => f[x] < f[y]
  /\ \A x \in 1..m : IsMark(B[x]) => IsMark(A[f[x]]) /\ B[x].stamp = A[f[x]].stamp

LEMMA LeftOrdered ==
  ASSUME NEW n \in Nat, NEW m \in Nat, NEW A, NEW B, NEW f,
         Left(A, n, B, m, f), Ordered(A, n)
  PROVE  Ordered(B, m)
<1> SUFFICES ASSUME NEW k \in 1..m, NEW i \in 1..m, k < i, IsMark(B[k]), IsMark(B[i])
             PROVE  B[k].stamp <= B[i].stamp
  BY DEF Ordered
<1>1. /\ f[k] \in 1..n /\ f[i] \in 1..n /\ f[k] < f[i]
      /\ IsMark(A[f[k]]) /\ IsMark(A[f[i]])
      /\ B[k].stamp = A[f[k]].stamp /\ B[i].stamp = A[f[i]].stamp
  BY DEF Left
<1> QED BY <1>1 DEF Ordered

\* B is A with the elements from n on, all of stamp s, in place of its last.
LEMMA PutOrdered ==
  ASSUME NEW n \in Nat \ {0}, NEW m \in Nat, NEW A, NEW B, NEW s \in Nat, n <= m,
         \A x \in 1..(n - 1) : B[x] = A[x],
         \A x \in n..m : IsMark(B[x]) => B[x].stamp = s,
         \A x \in 1..n : IsMark(A[x]) => A[x].stamp \in Nat,
         IsMark(A[n]), A[n].stamp <= s,
         Ordered(A, n)
  PROVE  Ordered(B, m)
<1> SUFFICES ASSUME NEW k \in 1..m, NEW i \in 1..m, k < i, IsMark(B[k]), IsMark(B[i])
             PROVE  B[k].stamp <= B[i].stamp
  BY DEF Ordered
<1>1. CASE i < n
  BY <1>1 DEF Ordered
<1>2. CASE i >= n /\ k < n
  <2>1. A[k].stamp <= A[n].stamp /\ A[k].stamp \in Nat /\ A[n].stamp \in Nat
    BY <1>2 DEF Ordered
  <2>2. B[k] = A[k] /\ B[i].stamp = s
    BY <1>2
  <2> QED BY <2>1, <2>2
<1>3. CASE k >= n
  BY <1>3
<1> QED BY <1>1, <1>2, <1>3

-----------------------------------------------------------------------------
(* The ring.                                                               *)

Indices == 0..(RingSize - 1)

RingTyped ==
  /\ ring \in [Indices -> Packets \cup {NoPacket}]
  /\ read_index \in Indices /\ write_index \in Indices

LEMMA Wrap ==
  ASSUME NEW x \in Nat, x < 2 * RingSize
  PROVE  x % RingSize = IF x < RingSize THEN x ELSE x - RingSize
  BY LinkAssumption

\* Without a remainder: how many packets there are, and where.
Described ==
  RingTyped =>
    /\ Backlog \in Indices
    /\ Backlog = (IF read_index <= write_index THEN write_index - read_index
                  ELSE write_index + RingSize - read_index)
    /\ \A i \in 1..Backlog :
         Queued[i] = ring[IF read_index + i - 1 < RingSize THEN read_index + i - 1
                          ELSE read_index + i - 1 - RingSize]

LEMMA RingDescribed == Described
<1> SUFFICES ASSUME RingTyped
             PROVE  /\ Backlog \in Indices
                    /\ Backlog = (IF read_index <= write_index THEN write_index - read_index
                                  ELSE write_index + RingSize - read_index)
                    /\ \A i \in 1..Backlog :
                         Queued[i] = ring[IF read_index + i - 1 < RingSize THEN read_index + i - 1
                                          ELSE read_index + i - 1 - RingSize]
  BY DEF Described
<1>1. /\ read_index \in Nat /\ write_index \in Nat /\ RingSize \in Nat
      /\ read_index < RingSize /\ write_index < RingSize
  BY LinkAssumption DEF RingTyped, Indices
<1>2. /\ Backlog = (IF read_index <= write_index THEN write_index - read_index
                    ELSE write_index + RingSize - read_index)
      /\ Backlog \in Indices
  <2>1. write_index + RingSize - read_index \in Nat
    BY <1>1
  <2>2. Backlog = IF write_index + RingSize - read_index < RingSize
                  THEN write_index + RingSize - read_index
                  ELSE write_index + RingSize - read_index - RingSize
    BY <1>1, <2>1, Wrap DEF Backlog
  <2> QED BY <1>1, <2>2 DEF Indices
<1>3. ASSUME NEW i \in 1..Backlog
      PROVE  Queued[i] = ring[IF read_index + i - 1 < RingSize THEN read_index + i - 1
                              ELSE read_index + i - 1 - RingSize]
  <2>1. read_index + i - 1 \in Nat /\ read_index + i - 1 < 2 * RingSize
    BY <1>1, <1>2 DEF Indices
  <2>2. Queued[i] = ring[(read_index + i - 1) % RingSize]
    BY DEF Queued
  <2> DEFINE x == read_index + i - 1
  <2>3. x % RingSize = IF x < RingSize THEN x ELSE x - RingSize
    <3>1. x \in Nat /\ x < 2 * RingSize
      BY <2>1
    <3> HIDE DEF x
    <3> QED BY <3>1, Wrap
  <2>4. CASE x < RingSize
    BY <1>1, <2>1, <2>2, <2>3, <2>4
  <2>5. CASE ~(x < RingSize)
    BY <1>1, <2>1, <2>2, <2>3, <2>5
  <2> QED BY <2>4, <2>5
<1> QED BY <1>2, <1>3

\* Where radio_queue_message writes, whether there is room or not.
LEMMA QueueWrites ==
  ASSUME RingTyped, NEW packets \in Seq(Packets), QueueMessages(packets), Len(packets) < RingSize
  PROVE  /\ RingTyped'
         /\ read_index' = read_index
         /\ write_index' = (IF write_index + Len(packets) < RingSize
                            THEN write_index + Len(packets)
                            ELSE write_index + Len(packets) - RingSize)
         /\ \A s \in Indices :
              ring'[s] = IF write_index <= s
                         THEN IF s - write_index < Len(packets) THEN packets[s - write_index + 1]
                              ELSE ring[s]
                         ELSE IF s + RingSize - write_index < Len(packets)
                              THEN packets[s + RingSize - write_index + 1]
                              ELSE ring[s]
<1>1. /\ read_index \in Nat /\ write_index \in Nat /\ RingSize \in Nat
      /\ read_index < RingSize /\ write_index < RingSize
      /\ Len(packets) \in Nat
  BY LinkAssumption DEF RingTyped, Indices
<1>2. /\ read_index' = read_index
      /\ write_index' = (IF write_index + Len(packets) < RingSize
                         THEN write_index + Len(packets)
                         ELSE write_index + Len(packets) - RingSize)
  <2> DEFINE x == write_index + Len(packets)
  <2>1. x % RingSize = IF x < RingSize THEN x ELSE x - RingSize
    <3>1. x \in Nat /\ x < 2 * RingSize
      BY <1>1
    <3> HIDE DEF x
    <3> QED BY <3>1, Wrap
  <2>2. read_index' = read_index /\ write_index' = x % RingSize
    BY DEF QueueMessages
  <2> QED BY <1>1, <2>1, <2>2
<1>3. ASSUME NEW s \in Indices
      PROVE  ring'[s] = IF write_index <= s
                        THEN IF s - write_index < Len(packets) THEN packets[s - write_index + 1]
                             ELSE ring[s]
                        ELSE IF s + RingSize - write_index < Len(packets)
                             THEN packets[s + RingSize - write_index + 1]
                             ELSE ring[s]
  <2>1. s \in Nat /\ s < RingSize /\ s + RingSize - write_index \in Nat
        /\ s + RingSize - write_index < 2 * RingSize
    BY <1>1 DEF Indices
  <2>2. (s + RingSize - write_index) % RingSize
        = IF write_index <= s THEN s - write_index ELSE s + RingSize - write_index
    <3> DEFINE x == s + RingSize - write_index
    <3>1. x % RingSize = IF x < RingSize THEN x ELSE x - RingSize
      <4>1. x \in Nat /\ x < 2 * RingSize
        BY <2>1
      <4> HIDE DEF x
      <4> QED BY <4>1, Wrap
    <3> QED BY <1>1, <2>1, <3>1
  <2>3. ring'[s] = LET n == ((s + RingSize - write_index) % RingSize) + 1
                   IN  IF n <= Len(packets) THEN packets[n] ELSE ring[s]
    BY DEF QueueMessages, Indices
  <2> DEFINE r == (s + RingSize - write_index) % RingSize
  <2>4. r \in Nat
    BY <1>1, <2>1, <2>2
  <2>5. ring'[s] = IF r < Len(packets) THEN packets[r + 1] ELSE ring[s]
    <3> HIDE DEF r
    <3> QED BY <1>1, <2>3, <2>4 DEF r
  <2>6. CASE write_index <= s
    BY <2>2, <2>5, <2>6
  <2>7. CASE ~(write_index <= s)
    BY <2>2, <2>5, <2>7
  <2> QED BY <2>6, <2>7
<1>4. RingTyped'
  <2>1. \A s \in Indices : ring'[s] \in Packets \cup {NoPacket}
    <3> SUFFICES ASSUME NEW s \in Indices PROVE ring'[s] \in Packets \cup {NoPacket}
      OBVIOUS
    <3>1. \A n \in 1..Len(packets) : packets[n] \in Packets
      OBVIOUS
    <3>2. ring[s] \in Packets \cup {NoPacket}
      BY DEF RingTyped
    <3>3. s \in Nat /\ s < RingSize
      BY <1>1 DEF Indices
    <3>4. CASE write_index <= s /\ s - write_index < Len(packets)
      <4>1. s - write_index + 1 \in 1..Len(packets)
        BY <1>1, <3>3, <3>4
      <4> QED BY <1>3, <3>1, <3>4, <4>1
    <3>5. CASE ~(write_index <= s) /\ s + RingSize - write_index < Len(packets)
      <4>1. s + RingSize - write_index + 1 \in 1..Len(packets)
        BY <1>1, <3>3, <3>5
      <4> QED BY <1>3, <3>1, <3>5, <4>1
    <3> QED BY <1>3, <3>2, <3>4, <3>5
  <2>2. ring' = [i \in Indices |-> ring'[i]]
    BY DEF QueueMessages, Indices
  <2> QED BY <1>1, <1>2, <2>1, <2>2 DEF RingTyped, Indices
<1> QED BY <1>2, <1>3, <1>4

\* With room for them, the packets follow those in the ring.
LEMMA Enqueued ==
  ASSUME RingTyped, NEW packets \in Seq(Packets), QueueMessages(packets), Room(Len(packets))
  PROVE  /\ RingTyped'
         /\ Backlog' = Backlog + Len(packets)
         /\ \A i \in 1..Backlog : Queued'[i] = Queued[i]
         /\ \A i \in 1..Len(packets) : Queued'[Backlog + i] = packets[i]
<1>1. /\ read_index \in Nat /\ write_index \in Nat /\ RingSize \in Nat
      /\ read_index < RingSize /\ write_index < RingSize
      /\ Backlog \in Nat /\ Len(packets) \in Nat
      /\ Backlog + Len(packets) < RingSize /\ Len(packets) < RingSize
      /\ Backlog = (IF read_index <= write_index THEN write_index - read_index
                    ELSE write_index + RingSize - read_index)
  <2>1. /\ read_index \in Nat /\ write_index \in Nat /\ RingSize \in Nat
        /\ read_index < RingSize /\ write_index < RingSize
        /\ Backlog \in Nat /\ Len(packets) \in Nat
        /\ Backlog = (IF read_index <= write_index THEN write_index - read_index
                      ELSE write_index + RingSize - read_index)
    BY RingDescribed, LinkAssumption DEF RingTyped, Indices, Described
  <2>2. Backlog + Len(packets) < RingSize
    BY DEF Room
  <2>3. \A b, l, r \in Nat : b + l < r => l < r
    OBVIOUS
  <2> QED BY <2>1, <2>2, <2>3
<1>2. /\ read_index' = read_index
      /\ write_index' = (IF write_index + Len(packets) < RingSize
                         THEN write_index + Len(packets)
                         ELSE write_index + Len(packets) - RingSize)
  BY <1>1, QueueWrites
<1>3. ASSUME NEW s \in Indices
      PROVE  ring'[s] = IF write_index <= s
                        THEN IF s - write_index < Len(packets) THEN packets[s - write_index + 1]
                             ELSE ring[s]
                        ELSE IF s + RingSize - write_index < Len(packets)
                             THEN packets[s + RingSize - write_index + 1]
                             ELSE ring[s]
  BY <1>1, QueueWrites
<1>4. RingTyped'
  BY <1>1, QueueWrites
<1>5. /\ Backlog' = (IF read_index' <= write_index' THEN write_index' - read_index'
                     ELSE write_index' + RingSize - read_index')
      /\ \A i \in 1..Backlog' :
           Queued'[i] = ring'[IF read_index' + i - 1 < RingSize THEN read_index' + i - 1
                              ELSE read_index' + i - 1 - RingSize]
  <2>1. Described'
    BY RingDescribed, PTL
  <2> QED BY <1>4, <2>1 DEF Described
<1>6. Backlog' = Backlog + Len(packets)
  BY <1>1, <1>2, <1>5
<1>7. ASSUME NEW i \in 1..Backlog PROVE Queued'[i] = Queued[i]
  <2> DEFINE s == IF read_index + i - 1 < RingSize THEN read_index + i - 1
                  ELSE read_index + i - 1 - RingSize
  <2>1. Queued[i] = ring[s]
    BY RingDescribed DEF Described
  <2>2. Queued'[i] = ring'[s]
    BY <1>1, <1>2, <1>5, <1>6
  <2>3. s \in Indices
    BY <1>1 DEF Indices
  <2>4. IF write_index <= s THEN s - write_index >= Len(packets)
        ELSE s + RingSize - write_index >= Len(packets)
    BY <1>1
  <2> HIDE DEF s
  <2> QED BY <1>1, <1>3, <2>1, <2>2, <2>3, <2>4 DEF Indices
<1>8. ASSUME NEW i \in 1..Len(packets) PROVE Queued'[Backlog + i] = packets[i]
  <2> DEFINE s == IF read_index + Backlog + i - 1 < RingSize THEN read_index + Backlog + i - 1
                  ELSE read_index + Backlog + i - 1 - RingSize
  <2>1. Queued'[Backlog + i] = ring'[s]
    <3>1. Backlog + i \in 1..Backlog'
      BY <1>1, <1>6
    <3>2. read_index' + (Backlog + i) - 1 = read_index + Backlog + i - 1
      BY <1>1, <1>2
    <3> DEFINE j == Backlog + i
    <3>3. Queued'[j] = ring'[IF read_index' + j - 1 < RingSize THEN read_index' + j - 1
                             ELSE read_index' + j - 1 - RingSize]
      <4> HIDE DEF j
      <4> QED BY <1>5, <3>1 DEF j
    <3> QED BY <1>1, <1>2, <3>2, <3>3
  <2>2. s \in Indices
    BY <1>1 DEF Indices
  <2>3. IF write_index <= s THEN s - write_index + 1 = i
        ELSE s + RingSize - write_index + 1 = i
    BY <1>1
  <2> HIDE DEF s
  <2> QED BY <1>1, <1>3, <2>1, <2>2, <2>3 DEF Indices
<1> QED BY <1>4, <1>6, <1>7, <1>8

\* Without, the ring holds the last of them only.
LEMMA Overflowed ==
  ASSUME RingTyped, NEW packets \in Seq(Packets), QueueMessages(packets),
         Len(packets) < RingSize, ~Room(Len(packets))
  PROVE  /\ RingTyped'
         /\ Backlog' \in Nat /\ Backlog' <= Len(packets)
         /\ \A i \in 1..Backlog' :
              /\ Len(packets) - Backlog' + i \in 1..Len(packets)
              /\ Queued'[i] = packets[Len(packets) - Backlog' + i]
<1>1. /\ read_index \in Nat /\ write_index \in Nat /\ RingSize \in Nat
      /\ read_index < RingSize /\ write_index < RingSize
      /\ Backlog \in Nat /\ Len(packets) \in Nat /\ Backlog < RingSize
      /\ Backlog = (IF read_index <= write_index THEN write_index - read_index
                    ELSE write_index + RingSize - read_index)
  BY RingDescribed, LinkAssumption DEF RingTyped, Indices, Described
<1>2. Backlog + Len(packets) >= RingSize
  BY <1>1 DEF Room
<1>3. /\ RingTyped' /\ read_index' = read_index
      /\ write_index' = (IF write_index + Len(packets) < RingSize
                         THEN write_index + Len(packets)
                         ELSE write_index + Len(packets) - RingSize)
  BY QueueWrites
<1>4. Described'
  BY RingDescribed, PTL
<1>5. Backlog' = Backlog + Len(packets) - RingSize
  BY <1>1, <1>2, <1>3, <1>4 DEF Described
<1>6. Backlog' \in Nat /\ Backlog' <= Len(packets)
  BY <1>1, <1>2, <1>5
<1>7. ASSUME NEW i \in 1..Backlog'
      PROVE  /\ Len(packets) - Backlog' + i \in 1..Len(packets)
             /\ Queued'[i] = packets[Len(packets) - Backlog' + i]
  <2> DEFINE s == IF read_index + i - 1 < RingSize THEN read_index + i - 1
                  ELSE read_index + i - 1 - RingSize
  <2>1. Queued'[i] = ring'[s]
    BY <1>3, <1>4 DEF Described
  <2>2. s \in Indices
    BY <1>1, <1>5 DEF Indices
  <2>3. IF write_index <= s
        THEN s - write_index < Len(packets) /\ s - write_index + 1 = Len(packets) - Backlog' + i
        ELSE s + RingSize - write_index < Len(packets)
             /\ s + RingSize - write_index + 1 = Len(packets) - Backlog' + i
    <3>1. /\ i \in Nat /\ 1 <= i /\ i <= Backlog + Len(packets) - RingSize
          /\ Len(packets) - Backlog' + i = RingSize - Backlog + i
      BY <1>1, <1>5, <1>6
    <3>2. CASE read_index <= write_index
      <4>1. s = read_index + i - 1 /\ s < write_index
        BY <1>1, <3>1, <3>2
      <4>2. IF write_index <= s
            THEN s - write_index < Len(packets) /\ s - write_index + 1 = RingSize - Backlog + i
            ELSE s + RingSize - write_index < Len(packets)
                 /\ s + RingSize - write_index + 1 = RingSize - Backlog + i
        BY <1>1, <3>1, <3>2, <4>1
      <4> QED BY <3>1, <4>2
    <3>3. CASE read_index > write_index
      <4>1. IF write_index <= s
            THEN s - write_index < Len(packets) /\ s - write_index + 1 = RingSize - Backlog + i
            ELSE s + RingSize - write_index < Len(packets)
                 /\ s + RingSize - write_index + 1 = RingSize - Backlog + i
        BY <1>1, <3>1, <3>3
      <4> QED BY <3>1, <4>1
    <3> QED BY <1>1, <3>2, <3>3
  <2>4. Len(packets) - Backlog' + i \in 1..Len(packets)
    BY <1>1, <1>6
  <2> HIDE DEF s
  <2>5. ring'[s] = IF write_index <= s
                   THEN IF s - write_index < Len(packets) THEN packets[s - write_index + 1]
                        ELSE ring[s]
                   ELSE IF s + RingSize - write_index < Len(packets)
                        THEN packets[s + RingSize - write_index + 1]
                        ELSE ring[s]
    BY <2>2, QueueWrites
  <2> QED BY <2>1, <2>3, <2>4, <2>5
<1> QED BY <1>3, <1>6, <1>7

LEMMA Dequeued ==
  ASSUME RingTyped, Backlog > 0,
         read_index' = (read_index + 1) % RingSize, UNCHANGED <<ring, write_index>>
  PROVE  /\ RingTyped'
         /\ Backlog' = Backlog - 1
         /\ \A i \in 1..(Backlog - 1) : Queued'[i] = Queued[i + 1]
         /\ ring[read_index] = Queued[1]
<1>1. /\ read_index \in Nat /\ write_index \in Nat /\ RingSize \in Nat
      /\ read_index < RingSize /\ write_index < RingSize /\ Backlog \in Nat
      /\ Backlog = (IF read_index <= write_index THEN write_index - read_index
                    ELSE write_index + RingSize - read_index)
  BY RingDescribed, LinkAssumption DEF RingTyped, Indices, Described
<1>2. read_index' = IF read_index + 1 < RingSize THEN read_index + 1 ELSE 0
  BY <1>1, Wrap
<1>3. RingTyped'
  BY <1>1, <1>2 DEF RingTyped, Indices
<1>4. Described'
  BY RingDescribed, PTL
<1>5. Backlog' = Backlog - 1
  BY <1>1, <1>2, <1>3, <1>4 DEF Described
<1>6. ASSUME NEW i \in 1..(Backlog - 1) PROVE Queued'[i] = Queued[i + 1]
  <2> DEFINE s == IF read_index + i < RingSize THEN read_index + i ELSE read_index + i - RingSize
  <2>1. Queued[i + 1] = ring[s]
    <3>1. i + 1 \in 1..Backlog
      BY <1>1
    <3>2. read_index + (i + 1) - 1 = read_index + i
      BY <1>1
    <3> QED BY <3>1, <3>2, RingDescribed DEF Described
  <2>2. Queued'[i] = ring'[IF read_index' + i - 1 < RingSize THEN read_index' + i - 1
                           ELSE read_index' + i - 1 - RingSize]
    BY <1>3, <1>4, <1>5 DEF Described
  <2>3. (IF read_index' + i - 1 < RingSize THEN read_index' + i - 1
         ELSE read_index' + i - 1 - RingSize) = s
    BY <1>1, <1>2
  <2> QED BY <2>1, <2>2, <2>3
<1>7. ring[read_index] = Queued[1]
  <2>1. 1 \in 1..Backlog /\ read_index + 1 - 1 = read_index
    BY <1>1
  <2> QED BY <1>1, <2>1, RingDescribed DEF Described
<1> QED BY <1>3, <1>5, <1>6, <1>7

LEMMA Started ==
  ASSUME NEW packets \in Seq(Packets), Len(packets) <= 1, StartRing(packets)
  PROVE  /\ RingTyped'
         /\ Backlog' = Len(packets)
         /\ \A i \in 1..Len(packets) : Queued'[i] = packets[i]
<1>1. read_index' = 0 /\ write_index' = Len(packets) /\ Len(packets) \in Nat
  BY DEF StartRing
<1>2. \A i \in Indices : ring'[i] = IF i < Len(packets) THEN packets[i + 1] ELSE NoPacket
  BY DEF StartRing, Indices
<1>3. RingTyped'
  <2>1. \A i \in Indices : ring'[i] \in Packets \cup {NoPacket}
    BY <1>1, <1>2 DEF Indices
  <2>2. ring' = [i \in Indices |-> ring'[i]]
    BY DEF StartRing, Indices
  <2> QED BY <1>1, <2>1, <2>2, LinkAssumption DEF RingTyped, Indices
<1>4. Described'
  BY RingDescribed, PTL
<1>5. Backlog' = Len(packets)
  BY <1>1, <1>3, <1>4 DEF Described
<1>6. ASSUME NEW i \in 1..Len(packets) PROVE Queued'[i] = packets[i]
  <2>1. i = 1
    BY <1>1
  <2>2. Queued'[1] = ring'[0]
    BY <1>1, <1>3, <1>4, <1>5, <2>1, LinkAssumption DEF Described
  <2>3. ring'[0] = packets[1]
    BY <1>1, <1>2, <2>1, LinkAssumption DEF Indices
  <2> QED BY <2>1, <2>2, <2>3
<1> QED BY <1>3, <1>5, <1>6

-----------------------------------------------------------------------------
(* What is on its way, the motor unit's end first.                         *)

\* What the motor unit goes by: a target, or only how new the last one was.
Mark == IF rx.initialised THEN TargetSet(rx.target, rx.stamp)
        ELSE [type |-> "mark", stamp |-> rx.stamp]

\* How new the hand unit's next target is at least.
Newest == [type |-> "mark", stamp |-> stamp]

Length == Len(fifo) + Backlog + 2

History ==
  [i \in 1..Length |->
     IF i = 1 THEN Mark
     ELSE IF i <= Len(fifo) + 1 THEN fifo[i - 1]
     ELSE IF i <= Len(fifo) + Backlog + 1 THEN Queued[i - Len(fifo) - 1]
     ELSE Newest]

QueueTyped == \A i \in 1..Backlog : Queued[i] \in Packets

\* The bounded steps that are left pay for the stamps.
Paid == stamp + steps <= MaxSteps

\* The newest target that was queued is at j, with neither target nor
\* announcement behind it.
Arrival(j) ==
  /\ IsTarget(History[j]) /\ History[j].val = sent /\ History[j].stamp = stamp
  /\ \A i \in 1..(Length - 1) : i > j => IsOther(History[i])

Arriving == intact => \E j \in 1..(Length - 1) : Arrival(j)

LinkInv == TypeOK /\ QueueTyped /\ Paid /\ Arriving /\ Ordered(History, Length)

LEMMA PacketFields ==
  ASSUME NEW p \in Packets
  PROVE  /\ p.type \in {"TARGET_POSITION_SET", "RE_INIT_POSITION", "SETTING_SET", "GET"}
         /\ p.type = "TARGET_POSITION_SET" =>
              /\ p.val \in Positions /\ p.stamp \in 0..MaxSteps
              /\ p = TargetSet(p.val, p.stamp)
         /\ p.type = "SETTING_SET" => p.key \in Settings /\ p.val \in Values
<1>1. CASE p \in {ReInit, Query}
  BY <1>1 DEF ReInit, Query
<1>2. CASE \E x \in Positions, s \in 0..MaxSteps : p = TargetSet(x, s)
  BY <1>2 DEF TargetSet
<1>3. CASE \E k \in Settings, v \in Values : p = SettingSet(k, v)
  BY <1>3 DEF SettingSet
<1> QED BY <1>1, <1>2, <1>3 DEF Packets

LEMMA TypedRing == ASSUME TypeOK PROVE RingTyped
BY DEF TypeOK, RingTyped, Indices

Parted ==
  TypeOK =>
    /\ Len(fifo) \in Nat /\ Backlog \in Nat /\ Length = Len(fifo) + Backlog + 2
    /\ History[1] = Mark
    /\ \A i \in 1..Len(fifo) : History[i + 1] = fifo[i]
    /\ \A i \in 1..Backlog : History[Len(fifo) + 1 + i] = Queued[i]
    /\ History[Length] = Newest

LEMMA Parts == Parted
<1> SUFFICES ASSUME TypeOK
             PROVE  /\ Len(fifo) \in Nat /\ Backlog \in Nat /\ Length = Len(fifo) + Backlog + 2
                    /\ History[1] = Mark
                    /\ \A i \in 1..Len(fifo) : History[i + 1] = fifo[i]
                    /\ \A i \in 1..Backlog : History[Len(fifo) + 1 + i] = Queued[i]
                    /\ History[Length] = Newest
  BY DEF Parted
<1>1. Len(fifo) \in Nat
  BY DEF TypeOK
<1>2. Backlog \in Nat
  BY TypedRing, RingDescribed DEF Described, Indices
<1>3. Length = Len(fifo) + Backlog + 2
  BY DEF Length
<1>4. History[1] = Mark
  BY <1>1, <1>2, <1>3 DEF History
<1>5. ASSUME NEW i \in 1..Len(fifo) PROVE History[i + 1] = fifo[i]
  <2>1. i + 1 \in 1..Length /\ i + 1 # 1 /\ i + 1 <= Len(fifo) + 1 /\ (i + 1) - 1 = i
    BY <1>1, <1>2, <1>3
  <2> QED BY <2>1 DEF History
<1>6. ASSUME NEW i \in 1..Backlog PROVE History[Len(fifo) + 1 + i] = Queued[i]
  <2> DEFINE k == Len(fifo) + 1 + i
  <2>1. /\ k \in 1..Length /\ k # 1 /\ ~(k <= Len(fifo) + 1) /\ k <= Len(fifo) + Backlog + 1
        /\ k - Len(fifo) - 1 = i
    BY <1>1, <1>2, <1>3
  <2> HIDE DEF k
  <2>2. History[k] = Queued[k - Len(fifo) - 1]
    BY <2>1 DEF History
  <2> QED BY <2>1, <2>2 DEF k
<1>7. History[Length] = Newest
  <2>1. /\ Length \in 1..Length /\ Length # 1 /\ ~(Length <= Len(fifo) + 1)
        /\ ~(Length <= Len(fifo) + Backlog + 1)
    BY <1>1, <1>2, <1>3
  <2> QED BY <2>1 DEF History
<1> QED BY <1>1, <1>2, <1>3, <1>4, <1>5, <1>6, <1>7

\* Every place in the sequence is one of the four.
LEMMA Places ==
  ASSUME TypeOK, NEW x \in 1..Length
  PROVE  \/ x = 1
         \/ x - 1 \in 1..Len(fifo) /\ x = (x - 1) + 1
         \/ x - Len(fifo) - 1 \in 1..Backlog /\ x = Len(fifo) + 1 + (x - Len(fifo) - 1)
         \/ x = Length
BY Parts DEF Parted

LEMMA PlacesTyped ==
  ASSUME TypeOK, QueueTyped, NEW x \in 1..Length
  PROVE  /\ IsMark(History[x]) => History[x].stamp \in Nat
         /\ x # 1 /\ x # Length => History[x] \in Packets
<1>1. MaxSteps \in Nat
  BY LinkAssumption
<1>2. CASE x = 1
  BY <1>1, <1>2, Parts DEF Parted, Mark, TargetSet, TypeOK, IsMark
<1>3. CASE History[x] \in Packets
  BY <1>1, <1>3, PacketFields DEF IsMark
<1>4. CASE x - 1 \in 1..Len(fifo) /\ x = (x - 1) + 1
  <2>1. History[x] = fifo[x - 1]
    BY <1>4, Parts DEF Parted
  <2> QED BY <1>3, <1>4, <2>1 DEF TypeOK
<1>5. CASE x - Len(fifo) - 1 \in 1..Backlog /\ x = Len(fifo) + 1 + (x - Len(fifo) - 1)
  <2>1. History[x] = Queued[x - Len(fifo) - 1]
    BY <1>5, Parts DEF Parted
  <2> QED BY <1>3, <1>5, <2>1 DEF QueueTyped
<1>6. CASE x = Length
  BY <1>1, <1>6, Parts DEF Parted, Newest, TypeOK, IsMark
<1> QED BY <1>2, <1>4, <1>5, <1>6, Places

-----------------------------------------------------------------------------
(* What the steps do to it.                                                *)

\* Packets are put in before the last, whose stamp may grow.
LEMMA PutIn ==
  ASSUME NEW n \in Nat \ {0}, NEW A, NEW packets \in Seq(Packets), TypeOK, TypeOK',
         Length' = n + Len(packets),
         \A x \in 1..(n - 1) : History'[x] = A[x],
         \A i \in 1..Len(packets) : History'[n - 1 + i] = packets[i],
         A[n] = Newest,
         \A x \in 1..n : IsMark(A[x]) => A[x].stamp \in Nat,
         Ordered(A, n),
         stamp <= stamp',
         \A i \in 1..Len(packets) : IsTarget(packets[i]) => packets[i].stamp = stamp'
  PROVE  Ordered(History, Length)'
<1>1. Len(packets) \in Nat /\ Length' \in Nat /\ n <= Length'
  OBVIOUS
<1>2. History'[Length'] = Newest'
  <2>1. Parted'
    BY Parts, PTL
  <2> QED BY <2>1 DEF Parted
<1>3. stamp \in Nat /\ stamp' \in Nat
  BY LinkAssumption DEF TypeOK
<1>4. ASSUME NEW x \in n..Length'
      PROVE  IsMark(History'[x]) => History'[x].stamp = stamp'
  <2>1. CASE x = Length'
    BY <1>2, <2>1 DEF Newest
  <2>2. CASE x # Length'
    <3>1. x - n + 1 \in 1..Len(packets) /\ n - 1 + (x - n + 1) = x
      BY <1>1, <2>2
    <3>2. History'[x] = packets[x - n + 1]
      BY <3>1
    <3>3. packets[x - n + 1] \in Packets
      BY <3>1
    <3>4. IsMark(packets[x - n + 1]) => IsTarget(packets[x - n + 1])
      BY <3>3, PacketFields DEF IsMark, IsTarget
    <3> QED BY <3>1, <3>2, <3>4
  <2> QED BY <2>1, <2>2
<1>5. IsMark(A[n]) /\ A[n].stamp = stamp
  BY DEF Newest, IsMark
<1>6. Ordered(History', Length')
  BY <1>1, <1>3, <1>4, <1>5, PutOrdered
<1> QED BY <1>6

LEMMA LeaveOut ==
  ASSUME LinkInv, TypeOK', NEW f, Left(History, Length, History', Length', f)
  PROVE  Ordered(History, Length)'
<1>1. Length \in Nat /\ Length' \in Nat
  <2>1. Parted'
    BY Parts, PTL
  <2> QED BY <2>1, Parts DEF Parted, LinkInv
<1>2. Ordered(History', Length')
  BY <1>1, LeftOrdered DEF LinkInv
<1> QED BY <1>2

\* The stamps stay where they are.
LEMMA LeaveAlone ==
  ASSUME LinkInv, Length' = Length,
         \A x \in 1..Length :
           IsMark(History'[x]) => IsMark(History[x]) /\ History'[x].stamp = History[x].stamp
  PROVE  Ordered(History, Length)'
<1>1. Ordered(History', Length')
  BY DEF Ordered, LinkInv
<1> QED BY <1>1

\* radio_queue_message, by whatever puts packets into the ring.
LEMMA QueueWithRoom ==
  ASSUME LinkInv, NEW packets \in Seq(Packets), QueueMessages(packets), Room(Len(packets)), TypeOK',
         UNCHANGED <<fifo, rx>>, stamp <= stamp',
         \A i \in 1..Len(packets) : IsTarget(packets[i]) => packets[i].stamp = stamp'
  PROVE  /\ QueueTyped' /\ Ordered(History, Length)'
         /\ Length \in Nat /\ Length >= 2 /\ Length' = Length + Len(packets)
         /\ \A x \in 1..(Length - 1) : History'[x] = History[x]
         /\ \A i \in 1..Len(packets) : History'[Length - 1 + i] = packets[i]
<1>1. /\ Backlog' = Backlog + Len(packets)
      /\ \A i \in 1..Backlog : Queued'[i] = Queued[i]
      /\ \A i \in 1..Len(packets) : Queued'[Backlog + i] = packets[i]
  BY TypedRing, Enqueued DEF LinkInv
<1>2. Parted /\ Parted'
  <2>1. Parted'
    BY Parts, PTL
  <2> QED BY <2>1, Parts
<1>3. /\ Len(fifo) \in Nat /\ Backlog \in Nat /\ Len(packets) \in Nat
      /\ Length = Len(fifo) + Backlog + 2 /\ Length' = Length + Len(packets)
  BY <1>1, <1>2 DEF Parted, LinkInv
<1>4. QueueTyped'
  <2> SUFFICES ASSUME NEW i \in 1..(Backlog + Len(packets)) PROVE Queued'[i] \in Packets
    BY <1>1 DEF QueueTyped
  <2>1. CASE i <= Backlog
    BY <1>1, <1>3, <2>1 DEF LinkInv, QueueTyped
  <2>2. CASE ~(i <= Backlog)
    <3>1. i - Backlog \in 1..Len(packets) /\ Backlog + (i - Backlog) = i
      BY <1>3, <2>2
    <3>2. Queued'[i] = packets[i - Backlog]
      BY <1>1, <3>1
    <3> QED BY <3>1, <3>2
  <2> QED BY <2>1, <2>2
<1>5. ASSUME NEW x \in 1..(Length - 1) PROVE History'[x] = History[x]
  <2>1. x \in 1..Length /\ x # Length
    BY <1>3
  <2>2. CASE x = 1
    <3>1. Mark' = Mark
      BY DEF Mark
    <3> QED BY <1>2, <2>2, <3>1 DEF Parted, LinkInv
  <2>3. CASE x - 1 \in 1..Len(fifo) /\ x = (x - 1) + 1
    <3> DEFINE i == x - 1
    <3>1. History'[i + 1] = fifo'[i] /\ History[i + 1] = fifo[i]
      <4> HIDE DEF i
      <4> QED BY <1>2, <2>3 DEF Parted, LinkInv, i
    <3> QED BY <2>3, <3>1
  <2>4. CASE x - Len(fifo) - 1 \in 1..Backlog /\ x = Len(fifo) + 1 + (x - Len(fifo) - 1)
    <3> DEFINE i == x - Len(fifo) - 1
    <3>1. i \in 1..Backlog /\ i \in 1..Backlog' /\ x = Len(fifo) + 1 + i
      BY <1>1, <1>3, <2>4
    <3> HIDE DEF i
    <3>2. History'[Len(fifo) + 1 + i] = Queued'[i] /\ History[Len(fifo) + 1 + i] = Queued[i]
      BY <1>2, <3>1 DEF Parted, LinkInv
    <3> QED BY <1>1, <3>1, <3>2
  <2> QED BY <2>1, <2>2, <2>3, <2>4, Places DEF LinkInv
<1>6. ASSUME NEW i \in 1..Len(packets) PROVE History'[Length - 1 + i] = packets[i]
  <2> DEFINE k == Backlog + i
  <2>1. k \in 1..Backlog' /\ Length - 1 + i = Len(fifo) + 1 + k
    BY <1>1, <1>3
  <2>2. Queued'[k] = packets[i]
    BY <1>1
  <2> HIDE DEF k
  <2>3. History'[Len(fifo) + 1 + k] = Queued'[k]
    BY <1>2, <2>1 DEF Parted
  <2> QED BY <2>1, <2>2, <2>3
<1>7. /\ History[Length] = Newest /\ Length \in Nat \ {0}
      /\ \A x \in 1..Length : IsMark(History[x]) => History[x].stamp \in Nat
  BY <1>2, <1>3, PlacesTyped DEF Parted, LinkInv
<1>8. Ordered(History, Length)
  BY DEF LinkInv
<1>9. Ordered(History, Length)'
  <2> DEFINE A == History
             n == Length
  <2> HIDE DEF A, n
  <2>1. n \in Nat \ {0} /\ Length' = n + Len(packets) /\ A[n] = Newest
    BY <1>3, <1>7 DEF A, n
  <2>2. /\ \A x \in 1..(n - 1) : History'[x] = A[x]
        /\ \A i \in 1..Len(packets) : History'[n - 1 + i] = packets[i]
        /\ \A x \in 1..n : IsMark(A[x]) => A[x].stamp \in Nat
    BY <1>5, <1>6, <1>7 DEF A, n
  <2>3. Ordered(A, n)
    BY <1>8 DEF A, n
  <2> QED BY <2>1, <2>2, <2>3, PutIn DEF LinkInv
<1> QED BY <1>3, <1>4, <1>5, <1>6, <1>9

\* The ring holds nothing but these packets.
LEMMA Rebuilt ==
  ASSUME LinkInv, NEW packets \in Seq(Packets), TypeOK', UNCHANGED <<fifo, rx>>, stamp <= stamp',
         Backlog' = Len(packets), \A i \in 1..Len(packets) : Queued'[i] = packets[i],
         \A i \in 1..Len(packets) : IsTarget(packets[i]) => packets[i].stamp = stamp'
  PROVE  /\ QueueTyped' /\ Ordered(History, Length)'
         /\ Len(fifo) \in Nat /\ Length' = Len(fifo) + 2 + Len(packets)
         /\ \A i \in 1..Len(packets) : History'[Len(fifo) + 1 + i] = packets[i]
<1>1. /\ Backlog' = Len(packets)
      /\ \A i \in 1..Len(packets) : Queued'[i] = packets[i]
  OBVIOUS
<1>2. Parted /\ Parted'
  <2>1. Parted'
    BY Parts, PTL
  <2> QED BY <2>1, Parts
<1> DEFINE n == Len(fifo) + 2
<1>3. /\ Len(fifo) \in Nat /\ Backlog \in Nat /\ Len(packets) \in Nat
      /\ Length = Len(fifo) + Backlog + 2 /\ Length' = n + Len(packets)
      /\ n \in Nat \ {0} /\ Length \in Nat
  BY <1>1, <1>2 DEF Parted, LinkInv
<1>4. QueueTyped'
  BY <1>1 DEF QueueTyped
<1> DEFINE A == [x \in 1..n |-> IF x <= Len(fifo) + 1 THEN History[x] ELSE Newest]
           f == [x \in 1..n |-> IF x <= Len(fifo) + 1 THEN x ELSE Length]
<1>5. /\ \A x \in 1..(n - 1) : A[x] = History[x] /\ f[x] = x
      /\ A[n] = Newest /\ f[n] = Length /\ History[Length] = Newest
      /\ f \in [1..n -> 1..Length]
      /\ \A x, y \in 1..n : x < y => f[x] < f[y]
  <2>1. History[Length] = Newest
    BY <1>2 DEF Parted, LinkInv
  <2>2. \A x \in 1..(n - 1) : x \in 1..n /\ x <= Len(fifo) + 1
    BY <1>3
  <2>3. n \in 1..n /\ ~(n <= Len(fifo) + 1)
    BY <1>3
  <2>4. /\ f \in [1..n -> 1..Length]
        /\ \A x, y \in 1..n : x < y => f[x] < f[y]
    BY <1>3
  <2> QED BY <2>1, <2>2, <2>3, <2>4
<1> HIDE DEF A, f
<1>6. \A x \in 1..n : A[x] = History[f[x]]
  BY <1>3, <1>5
<1>7. Left(History, Length, A, n, f)
  BY <1>5, <1>6 DEF Left
<1>8. \A i \in 1..Length : IsMark(History[i]) => History[i].stamp \in Nat
  BY PlacesTyped DEF LinkInv
<1> HIDE DEF n
<1>9. Ordered(A, n)
  BY <1>3, <1>7, LeftOrdered DEF LinkInv
<1>10. ASSUME NEW x \in 1..(n - 1) PROVE History'[x] = A[x]
  <2>1. CASE x = 1
    <3>1. Mark' = Mark
      BY DEF Mark
    <3> QED BY <1>2, <1>5, <2>1, <3>1 DEF Parted, LinkInv
  <2>2. CASE x # 1
    <3> DEFINE i == x - 1
    <3>1. i \in 1..Len(fifo) /\ x = i + 1
      BY <1>3, <2>2 DEF n
    <3> HIDE DEF i
    <3>2. History'[i + 1] = fifo'[i] /\ History[i + 1] = fifo[i]
      BY <1>2, <3>1 DEF Parted, LinkInv
    <3> QED BY <1>5, <3>1, <3>2
  <2> QED BY <2>1, <2>2
<1>11. ASSUME NEW i \in 1..Len(packets) PROVE History'[n - 1 + i] = packets[i]
  <2>1. i \in 1..Backlog' /\ n - 1 + i = Len(fifo') + 1 + i
    BY <1>1, <1>3 DEF n
  <2>2. History'[Len(fifo') + 1 + i] = Queued'[i]
    BY <1>2, <2>1 DEF Parted
  <2> QED BY <1>1, <2>1, <2>2
<1>12. \A x \in 1..n : IsMark(A[x]) => A[x].stamp \in Nat
  BY <1>5, <1>6, <1>8
<1>13. Ordered(History, Length)'
  BY <1>3, <1>5, <1>9, <1>10, <1>11, <1>12, PutIn DEF LinkInv
<1>14. ASSUME NEW i \in 1..Len(packets) PROVE History'[Len(fifo) + 1 + i] = packets[i]
  <2>1. n - 1 + i = Len(fifo) + 1 + i
    BY <1>3 DEF n
  <2> QED BY <1>11, <2>1
<1> QED BY <1>3, <1>4, <1>13, <1>14 DEF n

\* radio_queue_message, whether there is room or the ring overflows.
LEMMA QueueKeeps ==
  ASSUME LinkInv, NEW packets \in Seq(Packets), QueueMessages(packets), Len(packets) < RingSize,
         TypeOK', UNCHANGED <<fifo, rx>>, stamp <= stamp',
         \A i \in 1..Len(packets) : IsTarget(packets[i]) => packets[i].stamp = stamp'
  PROVE  QueueTyped' /\ Ordered(History, Length)'
<1>1. CASE Room(Len(packets))
  BY <1>1, QueueWithRoom
<1>2. CASE ~Room(Len(packets))
  <2>1. /\ Backlog' \in Nat /\ Backlog' <= Len(packets)
        /\ \A i \in 1..Backlog' :
             /\ Len(packets) - Backlog' + i \in 1..Len(packets)
             /\ Queued'[i] = packets[Len(packets) - Backlog' + i]
    BY <1>2, TypedRing, Overflowed DEF LinkInv
  <2> DEFINE last == [i \in 1..Backlog' |-> packets[Len(packets) - Backlog' + i]]
  <2>2. \A i \in 1..Backlog' : last[i] \in Packets /\ last[i] = Queued'[i]
                               /\ (IsTarget(last[i]) => last[i].stamp = stamp')
    BY <2>1
  <2>3. last = [i \in 1..Backlog' |-> last[i]]
    OBVIOUS
  <2> HIDE DEF last
  <2>4. last \in Seq(Packets) /\ Len(last) = Backlog'
    <3> DEFINE b == Backlog'
    <3>1. b \in Nat /\ \A i \in 1..b : last[i] \in Packets
      BY <2>1, <2>2
    <3>2. last = [i \in 1..b |-> last[i]]
      BY <2>3
    <3> HIDE DEF b
    <3>3. last \in Seq(Packets) /\ Len(last) = b
      BY <3>1, <3>2
    <3> QED BY <3>3 DEF b
  <2>5. \A i \in 1..Len(last) : Queued'[i] = last[i] /\ (IsTarget(last[i]) => last[i].stamp = stamp')
    BY <2>2, <2>4
  <2> QED BY <2>4, <2>5, Rebuilt
<1> QED BY <1>1, <1>2

\* radio_run takes the next packet.
LEMMA DequeueKeeps ==
  ASSUME LinkInv, Dequeue
  PROVE  /\ RingTyped' /\ QueueTyped' /\ Backlog \in Nat \ {0} /\ Backlog' = Backlog - 1
         /\ \A i \in 1..(Backlog - 1) : Queued'[i] = Queued[i + 1]
         /\ ring[read_index] = Queued[1] /\ ring[read_index] \in Packets
<1>1. Backlog \in Nat /\ Backlog > 0
  BY Parts DEF Parted, LinkInv, Dequeue
<1>2. /\ RingTyped' /\ Backlog' = Backlog - 1
      /\ \A i \in 1..(Backlog - 1) : Queued'[i] = Queued[i + 1]
      /\ ring[read_index] = Queued[1]
  BY <1>1, TypedRing, Dequeued DEF LinkInv, Dequeue
<1>3. ring[read_index] \in Packets
  BY <1>1, <1>2 DEF LinkInv, QueueTyped
<1>4. QueueTyped'
  <2> SUFFICES ASSUME NEW i \in 1..(Backlog - 1) PROVE Queued'[i] \in Packets
    BY <1>2 DEF QueueTyped
  <2>1. i + 1 \in 1..Backlog
    BY <1>1
  <2> QED BY <1>2, <2>1 DEF LinkInv, QueueTyped
<1> QED BY <1>1, <1>2, <1>3, <1>4

LEMMA DeliverKeeps ==
  ASSUME LinkInv, Deliver
  PROVE  LinkInv'
<1>1. /\ RingTyped' /\ QueueTyped' /\ Backlog \in Nat \ {0} /\ Backlog' = Backlog - 1
      /\ \A i \in 1..(Backlog - 1) : Queued'[i] = Queued[i + 1]
      /\ ring[read_index] = Queued[1] /\ ring[read_index] \in Packets
  BY DequeueKeeps DEF Deliver
<1>2. /\ fifo \in Seq(Packets) /\ Len(fifo) \in Nat /\ fifo' \in Seq(Packets)
      /\ Len(fifo') = Len(fifo) + 1
      /\ \A i \in 1..Len(fifo) : fifo'[i] = fifo[i]
      /\ fifo'[Len(fifo) + 1] = Queued[1]
  BY <1>1 DEF LinkInv, TypeOK, Deliver
<1>3. TypeOK'
  <2>1. Len(fifo') <= FifoSize
    BY <1>2, LinkAssumption DEF Deliver
  <2> QED BY <1>1, <1>2, <2>1
         DEF LinkInv, TypeOK, RingTyped, Indices, Deliver, Dequeue, txVars, markVars
<1>4. Parted /\ Parted'
  <2>1. Parted'
    BY Parts, PTL
  <2> QED BY <2>1, Parts
<1>5. Length' = Length /\ Length = Len(fifo) + Backlog + 2
  BY <1>1, <1>2, <1>3, <1>4 DEF Parted, LinkInv
<1>6. Mark' = Mark /\ Newest' = Newest
  BY DEF Mark, Newest, Deliver, Dequeue, txVars, markVars
<1>7. ASSUME NEW x \in 1..Length PROVE History'[x] = History[x]
  <2>1. CASE x = 1 \/ x = Length
    BY <1>3, <1>4, <1>5, <1>6, <2>1 DEF Parted, LinkInv
  <2>2. CASE x - 1 \in 1..Len(fifo) /\ x = (x - 1) + 1
    <3> DEFINE i == x - 1
    <3>1. i \in 1..Len(fifo) /\ i \in 1..Len(fifo') /\ x = i + 1
      BY <1>2, <2>2
    <3> HIDE DEF i
    <3>2. History'[i + 1] = fifo'[i] /\ History[i + 1] = fifo[i]
      BY <1>3, <1>4, <3>1 DEF Parted, LinkInv
    <3> QED BY <1>2, <3>1, <3>2
  <2>3. CASE x - Len(fifo) - 1 = 1 /\ 1 \in 1..Backlog
    <3>1. x = Len(fifo) + 1 + 1 /\ Len(fifo) + 1 \in 1..Len(fifo')
      BY <1>2, <2>3
    <3>2. History[Len(fifo) + 1 + 1] = Queued[1]
      BY <1>4, <2>3 DEF Parted, LinkInv
    <3>3. History'[(Len(fifo) + 1) + 1] = fifo'[Len(fifo) + 1]
      BY <1>3, <1>4, <3>1 DEF Parted
    <3> QED BY <1>2, <3>1, <3>2, <3>3
  <2>4. CASE x - Len(fifo) - 1 \in 1..Backlog /\ x - Len(fifo) - 1 # 1
    <3> DEFINE i == x - Len(fifo) - 2
    <3>1. /\ i \in 1..Backlog' /\ i \in 1..(Backlog - 1) /\ i + 1 \in 1..Backlog
          /\ x = Len(fifo) + 1 + (i + 1) /\ x = Len(fifo') + 1 + i
      BY <1>1, <1>2, <2>4
    <3> HIDE DEF i
    <3>2. History[Len(fifo) + 1 + (i + 1)] = Queued[i + 1]
      BY <1>4, <3>1 DEF Parted, LinkInv
    <3>3. History'[Len(fifo') + 1 + i] = Queued'[i]
      BY <1>3, <1>4, <3>1 DEF Parted
    <3> QED BY <1>1, <3>1, <3>2, <3>3
  <2> QED BY <1>1, <2>1, <2>2, <2>3, <2>4, Places DEF LinkInv
<1>8. Ordered(History, Length)'
  BY <1>5, <1>6, <1>7, LeaveAlone
<1>9. Paid'
  BY DEF LinkInv, Paid, Deliver, Dequeue, markVars
<1>10. Arriving'
  <2> SUFFICES ASSUME intact' PROVE \E j \in 1..(Length' - 1) : Arrival(j)'
    BY DEF Arriving
  <2>1. intact /\ sent' = sent /\ stamp' = stamp
    BY DEF Deliver, Dequeue, markVars
  <2>2. PICK j \in 1..(Length - 1) : Arrival(j)
    BY <2>1 DEF LinkInv, Arriving
  <2>3. Length \in Nat
    BY <1>1, <1>2, <1>5
  <2>4. Arrival(j)'
    BY <1>5, <1>7, <2>1, <2>2, <2>3 DEF Arrival
  <2> QED BY <1>5, <2>4
<1> QED BY <1>1, <1>3, <1>8, <1>9, <1>10 DEF LinkInv

LEMMA LoseKeeps ==
  ASSUME LinkInv, Lose
  PROVE  LinkInv'
<1>1. /\ RingTyped' /\ QueueTyped' /\ Backlog \in Nat \ {0} /\ Backlog' = Backlog - 1
      /\ \A i \in 1..(Backlog - 1) : Queued'[i] = Queued[i + 1]
      /\ ring[read_index] = Queued[1] /\ ring[read_index] \in Packets
  BY DequeueKeeps DEF Lose
<1>2. fifo' = fifo /\ Len(fifo) \in Nat
  BY DEF LinkInv, TypeOK, Lose
<1>3. TypeOK'
  <2>1. intact' \in BOOLEAN
    BY DEF LinkInv, TypeOK, Lose
  <2> QED BY <1>1, <1>2, <2>1
         DEF LinkInv, TypeOK, RingTyped, Indices, Lose, Dequeue, txVars, markVars
<1>4. Parted /\ Parted'
  <2>1. Parted'
    BY Parts, PTL
  <2> QED BY <2>1, Parts
<1>5. Length' = Length - 1 /\ Length = Len(fifo) + Backlog + 2
  BY <1>1, <1>2, <1>3, <1>4 DEF Parted, LinkInv
<1>6. Mark' = Mark /\ Newest' = Newest
  BY DEF Mark, Newest, Lose, Dequeue, txVars, markVars
<1> DEFINE f == [x \in 1..Length' |-> IF x <= Len(fifo) + 1 THEN x ELSE x + 1]
<1>7. ASSUME NEW x \in 1..Length' PROVE History'[x] = History[f[x]]
  <2>1. CASE x = 1
    <3>1. f[x] = 1
      BY <1>2, <2>1
    <3> QED BY <1>3, <1>4, <1>6, <2>1, <3>1 DEF Parted, LinkInv
  <2>2. CASE x = Length'
    <3>1. f[x] = Length
      BY <1>1, <1>2, <1>5, <2>2
    <3> QED BY <1>3, <1>4, <1>6, <2>2, <3>1 DEF Parted, LinkInv
  <2>3. CASE x - 1 \in 1..Len(fifo)
    <3> DEFINE i == x - 1
    <3>1. i \in 1..Len(fifo) /\ i \in 1..Len(fifo') /\ x = i + 1 /\ f[x] = i + 1
      BY <1>2, <2>3
    <3> HIDE DEF i, f
    <3>2. History'[i + 1] = fifo'[i] /\ History[i + 1] = fifo[i]
      BY <1>3, <1>4, <3>1 DEF Parted, LinkInv
    <3> QED BY <1>2, <3>1, <3>2
  <2>4. CASE x - Len(fifo) - 1 \in 1..(Backlog - 1)
    <3> DEFINE i == x - Len(fifo) - 1
    <3>1. /\ i \in 1..Backlog' /\ i \in 1..(Backlog - 1) /\ i + 1 \in 1..Backlog
          /\ f[x] = Len(fifo) + 1 + (i + 1) /\ x = Len(fifo') + 1 + i
      BY <1>1, <1>2, <1>5, <2>4
    <3> HIDE DEF i, f
    <3>2. History[Len(fifo) + 1 + (i + 1)] = Queued[i + 1]
      BY <1>4, <3>1 DEF Parted, LinkInv
    <3>3. History'[Len(fifo') + 1 + i] = Queued'[i]
      BY <1>3, <1>4, <3>1 DEF Parted
    <3> QED BY <1>1, <3>1, <3>2, <3>3
  <2> QED BY <1>1, <1>2, <1>5, <2>1, <2>2, <2>3, <2>4
<1>8. Left(History, Length, History', Length', f)
  <2>1. f \in [1..Length' -> 1..Length] /\ \A x, y \in 1..Length' : x < y => f[x] < f[y]
    BY <1>1, <1>2, <1>5
  <2> HIDE DEF f
  <2> QED BY <1>7, <2>1 DEF Left
<1>9. Ordered(History, Length)'
  <2> HIDE DEF f
  <2> QED BY <1>3, <1>8, LeaveOut
<1>10. Paid'
  BY DEF LinkInv, Paid, Lose, Dequeue, markVars
<1>11. Arriving'
  <2> SUFFICES ASSUME intact' PROVE \E j \in 1..(Length' - 1) : Arrival(j)'
    BY DEF Arriving
  <2>1. /\ intact /\ sent' = sent /\ stamp' = stamp
        /\ ~(IsTarget(ring[read_index]) /\ ring[read_index].stamp = stamp)
    BY DEF Lose, Dequeue, markVars, IsTarget
  <2>2. PICK j \in 1..(Length - 1) : Arrival(j)
    BY <2>1 DEF LinkInv, Arriving
  <2>3. History[Len(fifo) + 2] = ring[read_index]
    <3>1. 1 \in 1..Backlog /\ Len(fifo) + 2 = Len(fifo) + 1 + 1
      BY <1>1, <1>2
    <3>2. History[Len(fifo) + 1 + 1] = Queued[1]
      BY <1>4, <3>1 DEF Parted, LinkInv
    <3> QED BY <1>1, <3>1, <3>2
  <2>4. j # Len(fifo) + 2
    BY <2>1, <2>2, <2>3 DEF Arrival
  <2>5. PICK k \in 1..(Length' - 1) :
          /\ k \in 1..Length' /\ f[k] = j
          /\ \A i \in 1..(Length' - 1) :
               i \in 1..Length' /\ f[i] \in 1..(Length - 1) /\ (i > k => f[i] > j)
    <3> DEFINE k == IF j <= Len(fifo) + 1 THEN j ELSE j - 1
    <3>1. /\ k \in 1..(Length' - 1) /\ k \in 1..Length' /\ f[k] = j
          /\ \A i \in 1..(Length' - 1) :
               i \in 1..Length' /\ f[i] \in 1..(Length - 1) /\ (i > k => f[i] > j)
      BY <1>1, <1>2, <1>5, <2>4
    <3> QED BY <3>1
  <2> HIDE DEF f
  <2>6. Arrival(k)'
    BY <1>7, <2>1, <2>2, <2>5 DEF Arrival
  <2> QED BY <2>5, <2>6
<1> QED BY <1>1, <1>3, <1>9, <1>10, <1>11 DEF LinkInv

\* The motor unit has taken the first packet; f says where its mark was.
LEMMA ReceiveKeeps ==
  ASSUME LinkInv, Receive
  PROVE  LinkInv'
<1> DEFINE p == Head(fifo)
<1>1. /\ fifo \in Seq(Packets) /\ Len(fifo) \in Nat \ {0} /\ fifo' \in Seq(Packets)
      /\ Len(fifo') = Len(fifo) - 1
      /\ \A i \in 1..Len(fifo') : fifo'[i] = fifo[i + 1]
      /\ p = fifo[1] /\ p \in Packets
  BY DEF LinkInv, TypeOK, Receive
<1>2. /\ rx' = Processed(p)
      /\ UNCHANGED <<pos, calibrating, values, ring, read_index, write_index, stamp,
                     sent, intact, steps>>
  BY DEF Receive, txVars, ringVars, markVars
<1>3. Backlog' = Backlog /\ Queued' = Queued
  BY <1>2 DEF Backlog, Queued
<1>4. \/ /\ p.type = "SETTING_SET"
         /\ rx' = [rx EXCEPT !.values[p.key] = p.val]
      \/ /\ p.type = "RE_INIT_POSITION"
         /\ rx' = [rx EXCEPT !.initialised = FALSE]
      \/ /\ p.type = "TARGET_POSITION_SET"
         /\ rx' = [rx EXCEPT !.initialised = TRUE, !.target = p.val, !.stamp = p.stamp]
      \/ /\ p.type = "GET"
         /\ rx' = rx
  <2> HIDE DEF p
  <2>1. CASE p.type = "SETTING_SET"
    BY <1>2, <2>1 DEF Processed
  <2>2. CASE p.type = "RE_INIT_POSITION"
    BY <1>2, <2>2 DEF Processed
  <2>3. CASE p.type = "TARGET_POSITION_SET"
    BY <1>2, <2>3 DEF Processed
  <2>4. CASE p.type = "GET"
    BY <1>2, <2>4 DEF Processed
  <2> QED BY <1>1, <2>1, <2>2, <2>3, <2>4, PacketFields
<1>5. TypeOK'
  <2>1. rx' \in [initialised : BOOLEAN, target : Positions, stamp : 0..MaxSteps,
                 values : [Settings -> Values]]
    <3> HIDE DEF p
    <3>1. rx \in [initialised : BOOLEAN, target : Positions, stamp : 0..MaxSteps,
                  values : [Settings -> Values]]
      BY DEF LinkInv, TypeOK
    <3>2. CASE p.type = "SETTING_SET" /\ rx' = [rx EXCEPT !.values[p.key] = p.val]
      <4>1. p.key \in Settings /\ p.val \in Values
        BY <1>1, <3>2, PacketFields
      <4> QED BY <3>1, <3>2, <4>1
    <3>3. CASE rx' = [rx EXCEPT !.initialised = FALSE]
      BY <3>1, <3>3
    <3>4. CASE /\ p.type = "TARGET_POSITION_SET"
               /\ rx' = [rx EXCEPT !.initialised = TRUE, !.target = p.val, !.stamp = p.stamp]
      <4>1. p.val \in Positions /\ p.stamp \in 0..MaxSteps
        BY <1>1, <3>4, PacketFields
      <4> QED BY <3>1, <3>4, <4>1
    <3>5. CASE rx' = rx
      BY <3>1, <3>5
    <3> QED BY <1>4, <3>2, <3>3, <3>4, <3>5
  <2>2. Len(fifo') <= FifoSize
    BY <1>1, LinkAssumption DEF LinkInv, TypeOK
  <2> HIDE DEF p
  <2> QED BY <1>1, <1>2, <2>1, <2>2 DEF LinkInv, TypeOK
<1>6. Parted /\ Parted'
  <2>1. Parted'
    BY Parts, PTL
  <2> QED BY <2>1, Parts
<1>7. /\ Length = Len(fifo) + Backlog + 2 /\ Length' = Length - 1
      /\ Backlog \in Nat /\ Length \in Nat
  BY <1>1, <1>3, <1>5, <1>6 DEF Parted, LinkInv
<1> HIDE DEF p
<1>8. ASSUME NEW x \in 2..Length' PROVE History'[x] = History[x + 1]
  <2>1. CASE x = Length'
    <3>1. x + 1 = Length /\ Newest' = Newest
      BY <1>2, <1>7, <2>1 DEF Newest
    <3> QED BY <1>5, <1>6, <2>1, <3>1 DEF Parted, LinkInv
  <2>2. CASE x - 1 \in 1..Len(fifo')
    <3> DEFINE i == x - 1
    <3>1. i \in 1..Len(fifo') /\ i + 1 \in 1..Len(fifo) /\ x = i + 1
      BY <1>1, <2>2
    <3> HIDE DEF i
    <3>2. History'[i + 1] = fifo'[i] /\ History[(i + 1) + 1] = fifo[i + 1]
      BY <1>5, <1>6, <3>1 DEF Parted, LinkInv
    <3> QED BY <1>1, <3>1, <3>2
  <2>3. CASE x - Len(fifo') - 1 \in 1..Backlog
    <3> DEFINE i == x - Len(fifo') - 1
    <3>1. i \in 1..Backlog /\ x = Len(fifo') + 1 + i /\ x + 1 = Len(fifo) + 1 + i
      BY <1>1, <1>7, <2>3
    <3> HIDE DEF i
    <3>2. History'[Len(fifo') + 1 + i] = Queued'[i] /\ History[Len(fifo) + 1 + i] = Queued[i]
      BY <1>3, <1>5, <1>6, <3>1 DEF Parted, LinkInv
    <3> QED BY <1>3, <3>1, <3>2
  <2> QED BY <1>1, <1>7, <2>1, <2>2, <2>3
<1>9. History[1] = Mark /\ History'[1] = Mark' /\ History[2] = p
  <2>1. History[1 + 1] = fifo[1]
    BY <1>1, <1>6 DEF Parted, LinkInv
  <2>2. History[1] = Mark /\ History'[1] = Mark'
    BY <1>5, <1>6 DEF Parted, LinkInv
  <2> QED BY <1>1, <2>1, <2>2
<1> DEFINE f == [x \in 1..Length' |->
                   IF x = 1 /\ p.type # "TARGET_POSITION_SET" THEN 1 ELSE x + 1]
<1>10. /\ f \in [1..Length' -> 1..Length]
       /\ \A x, y \in 1..Length' : x < y => f[x] < f[y]
       /\ \A x \in 2..Length' : f[x] = x + 1
       /\ 1 \in 1..Length'
       /\ f[1] = IF p.type # "TARGET_POSITION_SET" THEN 1 ELSE 2
  BY <1>1, <1>7
<1>11. /\ p.type = "TARGET_POSITION_SET" => Mark' = p
       /\ p.type # "TARGET_POSITION_SET" /\ p.type # "RE_INIT_POSITION" => Mark' = Mark
       /\ IsMark(Mark') => IsMark(History[f[1]]) /\ Mark'.stamp = History[f[1]].stamp
  <2> HIDE DEF f
  <2>1. CASE p.type = "SETTING_SET" /\ rx' = [rx EXCEPT !.values[p.key] = p.val]
    <3>1. rx'.initialised = rx.initialised /\ rx'.target = rx.target /\ rx'.stamp = rx.stamp
      BY <2>1 DEF LinkInv, TypeOK
    <3>2. Mark' = Mark
      BY <3>1 DEF Mark
    <3> QED BY <1>9, <1>10, <2>1, <3>2
  <2>2. CASE p.type = "RE_INIT_POSITION" /\ rx' = [rx EXCEPT !.initialised = FALSE]
    <3>1. rx'.initialised = FALSE /\ rx'.stamp = rx.stamp
      BY <2>2 DEF LinkInv, TypeOK
    <3>2. Mark'.type = "mark" /\ Mark'.stamp = rx.stamp
      BY <3>1 DEF Mark
    <3>3. IsMark(Mark) /\ Mark.stamp = rx.stamp
      BY DEF Mark, IsMark, TargetSet
    <3> QED BY <1>9, <1>10, <2>2, <3>2, <3>3 DEF IsTarget
  <2>3. CASE /\ p.type = "TARGET_POSITION_SET"
             /\ rx' = [rx EXCEPT !.initialised = TRUE, !.target = p.val, !.stamp = p.stamp]
    <3>1. rx'.initialised = TRUE /\ rx'.target = p.val /\ rx'.stamp = p.stamp
      BY <2>3 DEF LinkInv, TypeOK
    <3>2. Mark' = TargetSet(p.val, p.stamp)
      BY <3>1 DEF Mark
    <3>3. Mark' = p
      BY <1>1, <2>3, <3>2, PacketFields
    <3> QED BY <1>9, <1>10, <2>3, <3>3
  <2>4. CASE p.type = "GET" /\ rx' = rx
    <3>1. Mark' = Mark
      BY <2>4 DEF Mark
    <3> QED BY <1>9, <1>10, <2>4, <3>1
  <2> QED BY <1>4, <2>1, <2>2, <2>3, <2>4
<1>12. Left(History, Length, History', Length', f)
  <2> HIDE DEF f
  <2>1. ASSUME NEW x \in 1..Length'
        PROVE  IsMark(History'[x]) =>
                 IsMark(History[f[x]]) /\ History'[x].stamp = History[f[x]].stamp
    <3>1. CASE x = 1
      BY <1>9, <1>11, <3>1
    <3>2. CASE x # 1
      BY <1>8, <1>10, <3>2
    <3> QED BY <3>1, <3>2
  <2> QED BY <1>10, <2>1 DEF Left
<1>13. Ordered(History, Length)'
  <2> HIDE DEF f
  <2> QED BY <1>5, <1>12, LeaveOut
<1>14. QueueTyped' /\ Paid'
  BY <1>2, <1>3 DEF LinkInv, QueueTyped, Paid
<1>15. Arriving'
  <2> HIDE DEF f
  <2> SUFFICES ASSUME intact' PROVE \E j \in 1..(Length' - 1) : Arrival(j)'
    BY DEF Arriving
  <2>1. intact /\ sent' = sent /\ stamp' = stamp
    BY <1>2
  <2>2. PICK j \in 1..(Length - 1) : Arrival(j)
    BY <2>1 DEF LinkInv, Arriving
  <2>3. CASE j = 1
    <3>1. 2 \in 1..(Length - 1) /\ 2 > j
      BY <1>1, <1>7, <2>3
    <3>2. p.type # "TARGET_POSITION_SET" /\ p.type # "RE_INIT_POSITION"
      BY <1>9, <2>2, <3>1 DEF Arrival, IsOther
    <3>3. History'[1] = History[1]
      BY <1>9, <1>11, <3>2
    <3>4. 1 \in 1..(Length' - 1)
      BY <1>1, <1>7
    <3>5. ASSUME NEW i \in 1..(Length' - 1), i > 1 PROVE IsOther(History'[i])
      <4>1. i \in 2..Length' /\ i + 1 \in 1..(Length - 1) /\ i + 1 > j
        BY <1>7, <2>3, <3>5
      <4> QED BY <1>8, <2>2, <4>1 DEF Arrival
    <3>6. Arrival(1)'
      BY <2>1, <2>2, <2>3, <3>3, <3>5 DEF Arrival
    <3> QED BY <3>4, <3>6
  <2>4. CASE j = 2
    <3>1. p.type = "TARGET_POSITION_SET"
      BY <1>9, <2>2, <2>4 DEF Arrival, IsTarget
    <3>2. History'[1] = History[2]
      BY <1>9, <1>11, <3>1
    <3>3. 1 \in 1..(Length' - 1)
      BY <1>1, <1>7
    <3>4. ASSUME NEW i \in 1..(Length' - 1), i > 1 PROVE IsOther(History'[i])
      <4>1. i \in 2..Length' /\ i + 1 \in 1..(Length - 1) /\ i + 1 > j
        BY <1>7, <2>4, <3>4
      <4> QED BY <1>8, <2>2, <4>1 DEF Arrival
    <3>5. Arrival(1)'
      BY <2>1, <2>2, <2>4, <3>2, <3>4 DEF Arrival
    <3> QED BY <3>3, <3>5
  <2>5. CASE j > 2
    <3> DEFINE k == j - 1
    <3>1. k \in 2..Length' /\ k \in 1..(Length' - 1) /\ k + 1 = j
      BY <1>7, <2>5
    <3> HIDE DEF k
    <3>2. ASSUME NEW i \in 1..(Length' - 1), i > k PROVE IsOther(History'[i])
      <4>1. i \in 2..Length' /\ i + 1 \in 1..(Length - 1) /\ i + 1 > j
        BY <1>7, <3>1, <3>2
      <4> QED BY <1>8, <2>2, <4>1 DEF Arrival
    <3>3. Arrival(k)'
      BY <1>8, <2>1, <2>2, <3>1, <3>2 DEF Arrival
    <3> QED BY <3>1, <3>3
  <2> QED BY <1>7, <2>3, <2>4, <2>5
<1> QED BY <1>5, <1>13, <1>14, <1>15 DEF LinkInv

\* The chip's packets are flushed; the motor unit goes by what it did, or by
\* nothing.
LEMMA FlushKeeps ==
  ASSUME LinkInv, TypeOK', fifo' = <<>>, rx'.stamp = rx.stamp,
         UNCHANGED <<ring, read_index, write_index, stamp>>,
         intact' = FALSE, stamp' + steps' <= MaxSteps
  PROVE  LinkInv'
<1>1. Len(fifo) \in Nat /\ Len(fifo') = 0
  BY DEF LinkInv, TypeOK
<1>2. Backlog' = Backlog /\ Queued' = Queued
  BY DEF Backlog, Queued
<1>3. Parted /\ Parted'
  <2>1. Parted'
    BY Parts, PTL
  <2> QED BY <2>1, Parts
<1>4. /\ Length = Len(fifo) + Backlog + 2 /\ Length' = Backlog + 2 /\ Backlog \in Nat
  BY <1>1, <1>2, <1>3 DEF Parted, LinkInv
<1>5. ASSUME NEW x \in 2..Length' PROVE History'[x] = History[x + Len(fifo)]
  <2>1. CASE x = Length'
    <3>1. x + Len(fifo) = Length /\ Newest' = Newest
      BY <1>1, <1>4, <2>1 DEF Newest
    <3> QED BY <1>3, <2>1, <3>1 DEF Parted, LinkInv
  <2>2. CASE x - 1 \in 1..Backlog
    <3> DEFINE i == x - 1
    <3>1. i \in 1..Backlog /\ x = Len(fifo') + 1 + i /\ x + Len(fifo) = Len(fifo) + 1 + i
      BY <1>1, <1>4, <2>2
    <3> HIDE DEF i
    <3>2. History'[Len(fifo') + 1 + i] = Queued'[i] /\ History[Len(fifo) + 1 + i] = Queued[i]
      BY <1>2, <1>3, <3>1 DEF Parted, LinkInv
    <3> QED BY <1>2, <3>1, <3>2
  <2> QED BY <1>4, <2>1, <2>2
<1>6. /\ IsMark(History[1]) /\ History[1].stamp = rx.stamp /\ History'[1].stamp = rx.stamp
  <2>1. History[1] = Mark /\ History'[1] = Mark'
    BY <1>3 DEF Parted, LinkInv
  <2>2. IsMark(Mark) /\ Mark.stamp = rx.stamp
    BY DEF Mark, TargetSet, IsMark
  <2>3. Mark'.stamp = rx'.stamp
    BY DEF Mark, TargetSet
  <2> QED BY <2>1, <2>2, <2>3
<1> DEFINE f == [x \in 1..Length' |-> IF x = 1 THEN 1 ELSE x + Len(fifo)]
<1>7. /\ f \in [1..Length' -> 1..Length]
      /\ \A x, y \in 1..Length' : x < y => f[x] < f[y]
      /\ \A x \in 2..Length' : f[x] = x + Len(fifo)
      /\ 1 \in 1..Length' /\ f[1] = 1
  BY <1>1, <1>4
<1> HIDE DEF f
<1>8. Left(History, Length, History', Length', f)
  <2>1. ASSUME NEW x \in 1..Length'
        PROVE  IsMark(History'[x]) =>
                 IsMark(History[f[x]]) /\ History'[x].stamp = History[f[x]].stamp
    <3>1. CASE x = 1
      BY <1>6, <1>7, <3>1
    <3>2. CASE x # 1
      BY <1>5, <1>7, <3>2
    <3> QED BY <3>1, <3>2
  <2> QED BY <1>7, <2>1 DEF Left
<1>9. Ordered(History, Length)'
  BY <1>8, LeaveOut
<1>10. QueueTyped' /\ Paid' /\ Arriving'
  BY <1>2 DEF LinkInv, QueueTyped, Paid, Arriving
<1> QED BY <1>9, <1>10 DEF LinkInv

\* setup of the motor unit.
LEMMA RxRestartKeeps ==
  ASSUME LinkInv, RxRestart
  PROVE  LinkInv'
<1>1. /\ fifo' = <<>> /\ rx' = [RxStart EXCEPT !.stamp = rx.stamp]
      /\ UNCHANGED <<pos, calibrating, values, ring, read_index, write_index, stamp, sent>>
      /\ intact' = FALSE /\ steps > 0 /\ steps' = steps - 1
  BY DEF RxRestart, Step, txVars, ringVars, markVars
<1>2. /\ rx'.stamp = rx.stamp
      /\ rx' \in [initialised : BOOLEAN, target : Positions, stamp : 0..MaxSteps,
                  values : [Settings -> Values]]
  <2>1. /\ rx' = [initialised |-> FALSE, target |-> 0, stamp |-> rx.stamp,
                  values |-> [k \in Settings |-> DefaultValue]]
        /\ rx.stamp \in 0..MaxSteps
    BY <1>1 DEF RxStart, LinkInv, TypeOK
  <2>2. [k \in Settings |-> DefaultValue] \in [Settings -> Values] /\ 0 \in Positions
    BY LinkAssumption
  <2> QED BY <2>1, <2>2
<1>3. steps' \in 0..MaxSteps /\ stamp' + steps' <= MaxSteps
  BY <1>1, LinkAssumption DEF LinkInv, TypeOK, Paid
<1>4. TypeOK'
  <2>1. fifo' \in Seq(Packets) /\ Len(fifo') <= FifoSize
    BY <1>1, LinkAssumption
  <2> QED BY <1>1, <1>2, <1>3, <2>1 DEF LinkInv, TypeOK
<1> QED BY <1>1, <1>2, <1>3, <1>4, FlushKeeps

\* Its channel is set.
LEMMA RxSetChannelKeeps ==
  ASSUME LinkInv, RxSetChannel
  PROVE  LinkInv'
<1>1. /\ fifo' = <<>>
      /\ UNCHANGED <<pos, calibrating, values, ring, read_index, write_index, rx, stamp, sent>>
      /\ intact' = FALSE /\ steps > 0 /\ steps' = steps - 1
  BY DEF RxSetChannel, Step, txVars, ringVars, markVars
<1>2. steps' \in 0..MaxSteps /\ stamp' + steps' <= MaxSteps
  BY <1>1, LinkAssumption DEF LinkInv, TypeOK, Paid
<1>3. TypeOK'
  <2>1. fifo' \in Seq(Packets) /\ Len(fifo') <= FifoSize
    BY <1>1, LinkAssumption
  <2> QED BY <1>1, <1>2, <2>1 DEF LinkInv, TypeOK
<1> QED BY <1>1, <1>2, <1>3, FlushKeeps

\* Nothing is put in or left out, and the motor unit goes by what it did.
LEMMA QuietKeeps ==
  ASSUME LinkInv, TypeOK',
         UNCHANGED <<ring, read_index, write_index, fifo, stamp, sent, intact, rx.initialised,
                     rx.target, rx.stamp>>,
         steps' \in Nat, steps' <= steps
  PROVE  LinkInv'
<1>1. Backlog' = Backlog /\ Queued' = Queued
  BY DEF Backlog, Queued
<1>2. Mark' = Mark /\ Newest' = Newest
  BY DEF Mark, Newest
<1>3. Length' = Length
  BY <1>1 DEF Length
<1>4. History' = History
  BY <1>1, <1>2, <1>3 DEF History
<1>5. Ordered(History, Length)'
  BY <1>3, <1>4 DEF LinkInv, Ordered
<1>6. QueueTyped' /\ Paid'
  <2>1. stamp \in Nat /\ steps \in Nat /\ MaxSteps \in Nat
    BY LinkAssumption DEF LinkInv, TypeOK
  <2>2. QueueTyped'
    BY <1>1 DEF LinkInv, QueueTyped
  <2>3. stamp' = stamp /\ stamp + steps <= MaxSteps
    BY DEF LinkInv, Paid
  <2>4. Paid'
    <3>1. stamp' \in Nat /\ steps' \in Nat /\ steps' <= steps
      BY <2>1, <2>3
    <3>2. \A a, b, c, m \in Nat : a + b <= m /\ c <= b => a + c <= m
      OBVIOUS
    <3>3. stamp + steps' <= MaxSteps
      BY <2>1, <2>3, <3>1, <3>2
    <3>4. stamp' + steps' <= MaxSteps
      BY <2>3, <3>3
    <3> QED BY <3>4 DEF Paid
  <2> QED BY <2>2, <2>4
<1>7. Arriving'
  BY <1>3, <1>4 DEF LinkInv, Arriving, Arrival
<1> QED BY <1>5, <1>6, <1>7 DEF LinkInv

\* The console of the motor unit: what it goes by is as old as before.
LEMMA RxSerialKeeps ==
  ASSUME LinkInv, RxSerial
  PROVE  LinkInv'
<1>1. /\ UNCHANGED <<pos, calibrating, values, ring, read_index, write_index, fifo, stamp, sent>>
      /\ steps > 0 /\ steps' = steps - 1
  BY DEF RxSerial, Step, txVars, ringVars, markVars
<1>2. rx \in [initialised : BOOLEAN, target : Positions, stamp : 0..MaxSteps,
              values : [Settings -> Values]]
  BY DEF LinkInv, TypeOK
<1>3. /\ steps' \in 0..MaxSteps /\ steps' \in Nat /\ steps' <= steps
      /\ stamp' + steps' <= MaxSteps
  BY <1>1, LinkAssumption DEF LinkInv, TypeOK, Paid
<1>4. fifo' \in Seq(Packets) /\ Len(fifo') <= FifoSize
  BY <1>1 DEF LinkInv, TypeOK
<1>5. ASSUME NEW k \in Settings, NEW v \in Values, rx' = [rx EXCEPT !.values[k] = v],
             intact' = intact
      PROVE  LinkInv'
  <2>1. /\ rx' \in [initialised : BOOLEAN, target : Positions, stamp : 0..MaxSteps,
                    values : [Settings -> Values]]
        /\ rx'.initialised = rx.initialised /\ rx'.target = rx.target /\ rx'.stamp = rx.stamp
    BY <1>2, <1>5
  <2>2. TypeOK'
    BY <1>1, <1>3, <1>4, <1>5, <2>1 DEF LinkInv, TypeOK
  <2> QED BY <1>1, <1>3, <1>5, <2>1, <2>2, QuietKeeps
<1>6. ASSUME NEW p \in Positions, rx' = [rx EXCEPT !.initialised = TRUE, !.target = p],
             intact' = FALSE
      PROVE  LinkInv'
  <2>1. /\ rx' \in [initialised : BOOLEAN, target : Positions, stamp : 0..MaxSteps,
                    values : [Settings -> Values]]
        /\ rx'.stamp = rx.stamp
    BY <1>2, <1>6
  <2>2. TypeOK'
    BY <1>1, <1>3, <1>4, <1>6, <2>1 DEF LinkInv, TypeOK
  <2>3. Backlog' = Backlog /\ Queued' = Queued /\ Newest' = Newest
    BY <1>1 DEF Backlog, Queued, Newest
  <2>4. Length' = Length
    BY <1>1, <2>3 DEF Length
  <2>5. ASSUME NEW x \in 1..Length
        PROVE  IsMark(History'[x]) => IsMark(History[x]) /\ History'[x].stamp = History[x].stamp
    <3>1. CASE x # 1
      BY <1>1, <2>3, <2>4, <3>1 DEF History
    <3>2. CASE x = 1
      <4>1. IsMark(Mark) /\ Mark.stamp = rx.stamp /\ Mark'.stamp = rx'.stamp
        BY DEF Mark, IsMark, TargetSet
      <4>2. History[x] = Mark /\ History'[x] = Mark'
        BY <2>4, <3>2 DEF History
      <4> QED BY <2>1, <4>1, <4>2
    <3> QED BY <3>1, <3>2
  <2>6. Ordered(History, Length)'
    BY <2>4, <2>5, LeaveAlone
  <2>7. QueueTyped' /\ Paid' /\ Arriving'
    BY <1>3, <1>6, <2>3 DEF LinkInv, QueueTyped, Paid, Arriving
  <2> QED BY <2>2, <2>6, <2>7 DEF LinkInv
<1> QED BY <1>5, <1>6 DEF RxSerial

\* A target is put in: where there is room it is the newest on its way.
LEMMA QueueTargetKeeps ==
  ASSUME LinkInv, NEW q \in Positions, QueueTarget(q), Step,
         pos' \in Positions, UNCHANGED <<calibrating, values, fifo, rx>>
  PROVE  LinkInv'
<1> DEFINE packets == <<TargetSet(q, stamp + 1)>>
<1>1. /\ stamp \in Nat /\ steps \in Nat /\ steps > 0 /\ steps' = steps - 1
      /\ stamp' = stamp + 1 /\ stamp' \in 0..MaxSteps /\ steps' \in 0..MaxSteps
      /\ stamp' + steps' <= MaxSteps /\ stamp <= stamp'
  BY LinkAssumption DEF LinkInv, TypeOK, Paid, QueueTarget, Step
<1>2. /\ TargetSet(q, stamp + 1) \in Packets
      /\ packets \in Seq(Packets) /\ Len(packets) = 1
      /\ packets[1] = TargetSet(q, stamp + 1)
  <2>1. TargetSet(q, stamp + 1) \in Packets
    BY <1>1 DEF Packets
  <2> QED BY <2>1
<1>3. QueueMessages(packets)
  BY DEF QueueTarget
<1> HIDE DEF packets
<1>4. RingTyped' /\ Len(packets) < RingSize
  <2>1. Len(packets) < RingSize
    BY <1>2, LinkAssumption
  <2> QED BY <1>2, <1>3, <2>1, TypedRing, QueueWrites DEF LinkInv
<1>5. TypeOK'
  <2>1. fifo' \in Seq(Packets) /\ Len(fifo') <= FifoSize
    BY DEF LinkInv, TypeOK
  <2>2. intact' \in BOOLEAN
    BY DEF QueueTarget, Room
  <2> QED BY <1>1, <1>4, <2>1, <2>2 DEF LinkInv, TypeOK, QueueTarget, RingTyped, Indices
<1>6. \A i \in 1..Len(packets) : packets[i].stamp = stamp'
  BY <1>1, <1>2 DEF TargetSet
<1>7. QueueTyped' /\ Ordered(History, Length)'
  BY <1>1, <1>2, <1>3, <1>4, <1>5, <1>6, QueueKeeps
<1>8. Paid'
  BY <1>1 DEF Paid
<1>9. Arriving'
  <2> SUFFICES ASSUME intact' PROVE \E j \in 1..(Length' - 1) : Arrival(j)'
    BY DEF Arriving
  <2>1. Room(Len(packets))
    BY <1>2 DEF QueueTarget
  <2>2. /\ Length \in Nat /\ Length >= 2 /\ Length' = Length + 1
        /\ \A i \in 1..1 : History'[Length - 1 + i] = packets[i]
    BY <1>1, <1>2, <1>3, <1>5, <1>6, <2>1, QueueWithRoom
  <2>3. 1 \in 1..1 /\ Length - 1 + 1 = Length
    BY <2>2
  <2>4. History'[Length] = TargetSet(q, stamp + 1)
    BY <1>2, <2>2, <2>3
  <2>5. sent' = q
    BY DEF QueueTarget
  <2>6. PICK j \in 1..(Length' - 1) : j = Length /\ \A i \in 1..(Length' - 1) : ~(i > j)
    BY <2>2
  <2>7. Arrival(j)'
    BY <1>1, <2>4, <2>5, <2>6 DEF Arrival, TargetSet, IsTarget
  <2> QED BY <2>6, <2>7
<1> QED BY <1>5, <1>7, <1>8, <1>9 DEF LinkInv

\* The announcement makes the newest target an old one.
LEMMA CalibrateKeeps ==
  ASSUME LinkInv, Calibrate
  PROVE  LinkInv'
<1> DEFINE packets == <<ReInit>>
<1>1. /\ stamp \in Nat /\ steps \in Nat /\ steps > 0 /\ steps' = steps - 1
      /\ steps' \in 0..MaxSteps /\ stamp + steps' <= MaxSteps
      /\ UNCHANGED <<values, fifo, rx, stamp, sent>>
  BY LinkAssumption DEF LinkInv, TypeOK, Paid, Calibrate, Step, markVars
<1>2. /\ packets \in Seq(Packets) /\ Len(packets) = 1 /\ packets[1] = ReInit
  <2>1. ReInit \in Packets
    BY DEF Packets
  <2> QED BY <2>1
<1>3. QueueMessages(packets)
  BY DEF Calibrate
<1> HIDE DEF packets
<1>4. RingTyped' /\ Len(packets) < RingSize
  <2>1. Len(packets) < RingSize
    BY <1>2, LinkAssumption
  <2> QED BY <1>2, <1>3, <2>1, TypedRing, QueueWrites DEF LinkInv
<1>5. TypeOK'
  <2>1. pos' \in Positions /\ calibrating' \in BOOLEAN /\ intact' \in BOOLEAN
    BY LinkAssumption DEF Calibrate
  <2>2. fifo' \in Seq(Packets) /\ Len(fifo') <= FifoSize
    BY <1>1 DEF LinkInv, TypeOK
  <2> QED BY <1>1, <1>4, <2>1, <2>2 DEF LinkInv, TypeOK, RingTyped, Indices
<1>6. \A i \in 1..Len(packets) : ~IsTarget(packets[i])
  BY <1>2 DEF ReInit, IsTarget
<1>7. stamp <= stamp'
  BY <1>1
<1>8. QueueTyped' /\ Ordered(History, Length)'
  BY <1>1, <1>2, <1>3, <1>4, <1>5, <1>6, <1>7, QueueKeeps
<1>9. Paid' /\ Arriving'
  BY <1>1 DEF Paid, Arriving, Calibrate
<1> QED BY <1>5, <1>8, <1>9 DEF LinkInv

\* Settings and queries are put in: where there is room they follow the newest
\* target.
LEMMA OthersKeep ==
  ASSUME LinkInv, NEW packets \in Seq(Packets), QueueOthers(packets), Len(packets) < RingSize,
         \A i \in 1..Len(packets) : IsOther(packets[i]),
         values' \in [Settings -> Values], UNCHANGED <<pos, calibrating, fifo, rx>>,
         steps' \in 0..MaxSteps, stamp + steps' <= MaxSteps
  PROVE  LinkInv'
<1>1. /\ QueueMessages(packets) /\ stamp' = stamp /\ sent' = sent /\ stamp \in Nat
      /\ intact' = (intact /\ Room(Len(packets)))
  BY LinkAssumption DEF QueueOthers, markVars, LinkInv, TypeOK
<1>2. RingTyped'
  BY <1>1, TypedRing, QueueWrites DEF LinkInv
<1>3. TypeOK'
  <2>1. fifo' \in Seq(Packets) /\ Len(fifo') <= FifoSize
    BY DEF LinkInv, TypeOK
  <2>2. intact' \in BOOLEAN
    BY <1>1 DEF Room, LinkInv, TypeOK
  <2> QED BY <1>1, <1>2, <2>1, <2>2 DEF LinkInv, TypeOK, RingTyped, Indices
<1>4. stamp <= stamp' /\ \A i \in 1..Len(packets) : ~IsTarget(packets[i])
  BY <1>1 DEF IsOther, IsTarget
<1>5. QueueTyped' /\ Ordered(History, Length)'
  BY <1>1, <1>3, <1>4, QueueKeeps
<1>6. Paid'
  BY <1>1 DEF Paid
<1>7. Arriving'
  <2> SUFFICES ASSUME intact' PROVE \E j \in 1..(Length' - 1) : Arrival(j)'
    BY DEF Arriving
  <2>1. intact /\ Room(Len(packets))
    BY <1>1
  <2>2. PICK j \in 1..(Length - 1) : Arrival(j)
    BY <2>1 DEF LinkInv, Arriving
  <2>3. /\ Length \in Nat /\ Length >= 2 /\ Length' = Length + Len(packets)
        /\ \A x \in 1..(Length - 1) : History'[x] = History[x]
        /\ \A i \in 1..Len(packets) : History'[Length - 1 + i] = packets[i]
    BY <1>1, <1>3, <1>4, <2>1, QueueWithRoom
  <2>4. Len(packets) \in Nat /\ j \in 1..(Length' - 1)
    BY <2>3
  <2>5. ASSUME NEW i \in 1..(Length' - 1), i > j PROVE IsOther(History'[i])
    <3>1. CASE i <= Length - 1
      BY <2>2, <2>3, <2>5, <3>1 DEF Arrival
    <3>2. CASE ~(i <= Length - 1)
      <4> DEFINE k == i - (Length - 1)
      <4>1. k \in 1..Len(packets) /\ Length - 1 + k = i
        BY <2>3, <2>4, <3>2
      <4> HIDE DEF k
      <4> QED BY <2>3, <4>1
    <3> QED BY <3>1, <3>2
  <2>6. Arrival(j)'
    BY <1>1, <2>2, <2>3, <2>5 DEF Arrival
  <2> QED BY <2>4, <2>6
<1> QED BY <1>3, <1>5, <1>6, <1>7 DEF LinkInv

\* What is sent for the settings is neither a target nor an announcement.
LEMMA SettingsAreOthers ==
  ASSUME LinkInv, NEW seq \in Seq(Settings)
  PROVE  /\ SettingPackets(seq) \in Seq(Packets) /\ Len(SettingPackets(seq)) = Len(seq)
         /\ \A i \in 1..Len(SettingPackets(seq)) : IsOther(SettingPackets(seq)[i])
<1> DEFINE packets == SettingPackets(seq)
<1>1. DOMAIN seq = 1..Len(seq) /\ Len(seq) \in Nat
  OBVIOUS
<1>2. ASSUME NEW i \in 1..Len(seq)
      PROVE  packets[i] \in Packets /\ IsOther(packets[i])
  <2>1. seq[i] \in Settings
    OBVIOUS
  <2>2. values[seq[i]] \in Values
    BY <2>1 DEF LinkInv, TypeOK
  <2>3. packets[i] = SettingSet(seq[i], values[seq[i]])
    BY <1>1 DEF SettingPackets
  <2> HIDE DEF packets
  <2> QED BY <2>1, <2>2, <2>3 DEF Packets, SettingSet, IsOther
<1>3. packets = [i \in 1..Len(seq) |-> packets[i]]
  BY <1>1 DEF SettingPackets
<1> HIDE DEF packets
<1>4. packets \in Seq(Packets) /\ Len(packets) = Len(seq)
  BY <1>1, <1>2, <1>3
<1> QED BY <1>2, <1>4 DEF packets

\* One packet of the console.
LEMMA OneOther ==
  ASSUME LinkInv, NEW p \in Packets, IsOther(p), QueueOthers(<<p>>), Step,
         values' \in [Settings -> Values], UNCHANGED <<pos, calibrating, fifo, rx>>
  PROVE  LinkInv'
<1>1. <<p>> \in Seq(Packets) /\ Len(<<p>>) = 1 /\ \A i \in 1..Len(<<p>>) : IsOther(<<p>>[i])
  OBVIOUS
<1>2. Len(<<p>>) < RingSize
  BY <1>1, LinkAssumption
<1>3. steps' \in 0..MaxSteps /\ stamp + steps' <= MaxSteps
  BY LinkAssumption DEF Step, LinkInv, TypeOK, Paid
<1> QED BY <1>1, <1>2, <1>3, OthersKeep

\* The hand unit starts with one packet in its ring or none.
LEMMA TxRestartKeeps ==
  ASSUME LinkInv, TxRestart
  PROVE  LinkInv'
<1>1. /\ stamp \in 0..MaxSteps /\ steps \in 0..MaxSteps /\ MaxSteps \in Nat
      /\ stamp + steps <= MaxSteps
      /\ steps > 0 /\ steps' = steps - 1 /\ steps' \in 0..MaxSteps
      /\ values' \in [Settings -> Values] /\ UNCHANGED <<fifo, rx>>
      /\ fifo \in Seq(Packets) /\ Len(fifo) <= FifoSize
  BY LinkAssumption DEF LinkInv, TypeOK, Paid, TxRestart, Step
<1>2. ASSUME NEW packets \in Seq(Packets), Len(packets) <= 1, StartRing(packets),
             pos' \in Positions, calibrating' \in BOOLEAN,
             stamp' \in 0..MaxSteps, sent' \in Positions, intact' \in BOOLEAN,
             stamp <= stamp', stamp' + steps' <= MaxSteps,
             \A i \in 1..Len(packets) : IsTarget(packets[i]) => packets[i].stamp = stamp',
             intact' => Len(packets) = 1 /\ IsTarget(packets[1]) /\ packets[1].val = sent'
      PROVE  LinkInv'
  <2>1. /\ RingTyped' /\ Backlog' = Len(packets)
        /\ \A i \in 1..Len(packets) : Queued'[i] = packets[i]
    BY <1>2, Started
  <2>2. rx \in [initialised : BOOLEAN, target : Positions, stamp : 0..MaxSteps,
                values : [Settings -> Values]]
    BY DEF LinkInv, TypeOK
  <2>3. TypeOK'
    BY <1>1, <1>2, <2>1, <2>2 DEF TypeOK, RingTyped, Indices
  <2>4. /\ QueueTyped' /\ Ordered(History, Length)'
        /\ Len(fifo) \in Nat /\ Length' = Len(fifo) + 2 + Len(packets)
        /\ \A i \in 1..Len(packets) : History'[Len(fifo) + 1 + i] = packets[i]
    BY <1>1, <1>2, <2>1, <2>3, Rebuilt
  <2>5. Arriving'
    <3> SUFFICES ASSUME intact' PROVE \E j \in 1..(Length' - 1) : Arrival(j)'
      BY DEF Arriving
    <3>0. Len(packets) = 1 /\ IsTarget(packets[1]) /\ packets[1].val = sent'
      BY <1>2
    <3>1. /\ Len(packets) = 1 /\ 1 \in 1..Len(packets)
          /\ IsTarget(packets[1]) /\ packets[1].val = sent'
      BY <3>0
    <3>2. PICK j \in 1..(Length' - 1) :
            j = Len(fifo) + 1 + 1 /\ \A i \in 1..(Length' - 1) : ~(i > j)
      BY <2>4, <3>1
    <3>3. History'[j] = packets[1] /\ packets[1].stamp = stamp'
      BY <1>2, <2>4, <3>1, <3>2
    <3>4. Arrival(j)'
      BY <3>1, <3>2, <3>3 DEF Arrival
    <3> QED BY <3>2, <3>4
  <2>6. Paid'
    BY <1>2 DEF Paid
  <2> QED BY <2>3, <2>4, <2>5, <2>6 DEF LinkInv
<1>3. CASE /\ calibrating' = TRUE /\ pos' = 0
           /\ StartRing(<<ReInit>>)
           /\ intact' = FALSE
           /\ UNCHANGED markVars
  <2> DEFINE packets == <<ReInit>>
  <2>1. packets \in Seq(Packets) /\ Len(packets) = 1 /\ packets[1] = ReInit
    <3>1. ReInit \in Packets
      BY DEF Packets
    <3> QED BY <3>1
  <2>2. StartRing(packets)
    BY <1>3
  <2>3. /\ stamp' \in 0..MaxSteps /\ sent' \in Positions /\ stamp <= stamp'
        /\ stamp' + steps' <= MaxSteps
    BY <1>1, <1>3 DEF markVars, LinkInv, TypeOK
  <2> HIDE DEF packets
  <2>4. \A i \in 1..Len(packets) : ~IsTarget(packets[i])
    BY <2>1 DEF ReInit, IsTarget
  <2>5. pos' \in Positions /\ calibrating' \in BOOLEAN /\ intact' \in BOOLEAN /\ ~intact'
    BY <1>3, LinkAssumption
  <2>6. Len(packets) <= 1
    BY <2>1
  <2> QED BY <1>2, <2>1, <2>2, <2>3, <2>4, <2>5, <2>6
<1>4. CASE /\ calibrating' = FALSE
           /\ pos' \in Positions
           /\ \/ StartRing(<<>>) /\ intact' = FALSE /\ UNCHANGED markVars
              \/ /\ StartRing(<<TargetSet(pos', stamp + 1)>>)
                 /\ stamp' = stamp + 1 /\ sent' = pos' /\ intact' = TRUE
  <2>1. CASE StartRing(<<>>) /\ intact' = FALSE /\ UNCHANGED markVars
    <3> DEFINE packets == <<>>
    <3>1. packets \in Seq(Packets) /\ Len(packets) = 0 /\ StartRing(packets)
      BY <2>1
    <3>2. /\ stamp' \in 0..MaxSteps /\ sent' \in Positions /\ stamp <= stamp'
          /\ stamp' + steps' <= MaxSteps
      BY <1>1, <2>1 DEF markVars, LinkInv, TypeOK
    <3> HIDE DEF packets
    <3>3. calibrating' \in BOOLEAN /\ intact' \in BOOLEAN /\ pos' \in Positions /\ ~intact'
      BY <1>4, <2>1
    <3>4. Len(packets) <= 1 /\ \A i \in 1..Len(packets) : FALSE
      BY <3>1
    <3> QED BY <1>2, <3>1, <3>2, <3>3, <3>4
  <2>2. CASE /\ StartRing(<<TargetSet(pos', stamp + 1)>>)
             /\ stamp' = stamp + 1 /\ sent' = pos' /\ intact' = TRUE
    <3> DEFINE packets == <<TargetSet(pos', stamp + 1)>>
    <3>1. /\ stamp' \in 0..MaxSteps /\ sent' \in Positions /\ stamp <= stamp'
          /\ stamp' + steps' <= MaxSteps
      BY <1>1, <1>4, <2>2
    <3>2. /\ packets \in Seq(Packets) /\ Len(packets) = 1
          /\ packets[1] = TargetSet(pos', stamp') /\ StartRing(packets)
      <4>1. TargetSet(pos', stamp + 1) \in Packets
        BY <1>4, <2>2, <3>1 DEF Packets
      <4> QED BY <2>2, <4>1
    <3> HIDE DEF packets
    <3>3. /\ \A i \in 1..Len(packets) : packets[i].stamp = stamp'
          /\ IsTarget(packets[1]) /\ packets[1].val = sent'
      BY <2>2, <3>2 DEF TargetSet, IsTarget
    <3>4. calibrating' \in BOOLEAN /\ intact' \in BOOLEAN /\ pos' \in Positions
      BY <1>4, <2>2
    <3>5. Len(packets) <= 1
      BY <3>2
    <3> QED BY <1>2, <3>1, <3>2, <3>3, <3>4, <3>5
  <2> QED BY <1>4, <2>1, <2>2
<1> QED BY <1>3, <1>4 DEF TxRestart

-----------------------------------------------------------------------------

LEMMA LinkInit == Init => LinkInv
<1> SUFFICES ASSUME Init PROVE LinkInv
  OBVIOUS
<1>1. TypeOK
  <2>1. 0 \in Positions /\ 0 \in 0..MaxSteps /\ MaxSteps \in 0..MaxSteps /\ 0 \in 0..(RingSize - 1)
    BY LinkAssumption
  <2>2. rx \in [initialised : BOOLEAN, target : Positions, stamp : 0..MaxSteps,
                values : [Settings -> Values]]
    BY <2>1, LinkAssumption DEF Init, RxStart
  <2>3. fifo \in Seq(Packets) /\ Len(fifo) <= FifoSize
    BY LinkAssumption DEF Init
  <2> QED BY <2>1, <2>2, <2>3 DEF Init, TypeOK
<1>2. Backlog = 0
  BY <1>1, TypedRing, RingDescribed DEF Init, Described
<1>3. Len(fifo) = 0 /\ Length = 2
  BY <1>2 DEF Init, Length
<1>4. History[1] = Mark /\ History[2] = Newest
  BY <1>1, <1>3, Parts DEF Parted
<1>5. Mark.stamp = 0 /\ Newest.stamp = 0
  BY DEF Init, Mark, Newest, RxStart, TargetSet
<1>6. Ordered(History, Length)
  BY <1>3, <1>4, <1>5 DEF Ordered
<1>7. QueueTyped /\ Paid
  <2>1. stamp + steps = MaxSteps /\ MaxSteps \in Nat
    BY LinkAssumption DEF Init
  <2> QED BY <1>2, <2>1 DEF QueueTyped, Paid
<1>8. Arriving
  BY DEF Init, Arriving
<1> QED BY <1>1, <1>6, <1>7, <1>8 DEF LinkInv

LEMMA LinkStep == LinkInv /\ [Next]_vars => LinkInv'
<1> SUFFICES ASSUME LinkInv, [Next]_vars PROVE LinkInv'
  OBVIOUS
<1>1. CASE Move
  BY <1>1, QueueTargetKeeps DEF Move
<1>2. CASE PlayBack
  <2>1. pos \in Positions /\ pos' = pos
    BY <1>2 DEF LinkInv, TypeOK, PlayBack, txVars
  <2> QED BY <1>2, <2>1, QueueTargetKeeps DEF PlayBack, txVars
<1>3. CASE SerialTarget
  <2>1. pos \in Positions /\ pos' = pos
    BY <1>3 DEF LinkInv, TypeOK, SerialTarget, txVars
  <2> QED BY <1>3, <2>1, QueueTargetKeeps DEF SerialTarget, txVars
<1>4. CASE Calibrate
  BY <1>4, CalibrateKeeps
<1>5. CASE Calibrated
  <2>1. UNCHANGED <<pos, values, ring, read_index, write_index, fifo, rx, stamp, sent, intact,
                    steps>>
        /\ calibrating' = FALSE
    BY <1>5 DEF Calibrated, ringVars, markVars
  <2>2. TypeOK'
    BY <2>1 DEF LinkInv, TypeOK
  <2>3. steps' \in Nat /\ steps' <= steps
    BY <2>1, LinkAssumption DEF LinkInv, TypeOK
  <2> QED BY <2>1, <2>2, <2>3, QuietKeeps
<1>6. CASE ChangeSetting
  <2>1. UNCHANGED <<pos, calibrating, ring, read_index, write_index, fifo, rx, stamp, sent, intact>>
        /\ steps > 0 /\ steps' = steps - 1
    BY <1>6 DEF ChangeSetting, Step, ringVars, markVars
  <2>2. values' \in [Settings -> Values]
    BY <1>6 DEF ChangeSetting, LinkInv, TypeOK
  <2>3. steps \in 0..MaxSteps /\ steps' \in 0..MaxSteps /\ steps' \in Nat /\ steps' <= steps
    BY <2>1, LinkAssumption DEF LinkInv, TypeOK
  <2>4. TypeOK'
    BY <2>1, <2>2, <2>3 DEF LinkInv, TypeOK
  <2> QED BY <2>1, <2>3, <2>4, QuietKeeps
<1>7. CASE SpeedAndAccelTimeout
  <2>1. /\ QueueOthers(SettingPackets(SettingSeq))
        /\ UNCHANGED <<pos, calibrating, values, fifo, rx, steps>>
    BY <1>7 DEF SpeedAndAccelTimeout, txVars
  <2>2. SettingSeq \in Seq(Settings) /\ Len(SettingSeq) < RingSize
    BY LinkAssumption
  <2>3. /\ values' \in [Settings -> Values] /\ steps' \in 0..MaxSteps
        /\ stamp + steps' <= MaxSteps
    BY <2>1 DEF LinkInv, TypeOK, Paid
  <2> QED BY <2>1, <2>2, <2>3, SettingsAreOthers, OthersKeep
<1>8. CASE SerialReload
  <2>1. /\ QueueOthers(SettingPackets(ReloadSeq)) /\ Step
        /\ UNCHANGED <<pos, calibrating, values, fifo, rx>>
    BY <1>8 DEF SerialReload, txVars
  <2>2. ReloadSeq \in Seq(Settings) /\ Len(ReloadSeq) < RingSize
    BY LinkAssumption
  <2>3. /\ values' \in [Settings -> Values] /\ steps' \in 0..MaxSteps
        /\ stamp + steps' <= MaxSteps
    BY <2>1, LinkAssumption DEF LinkInv, TypeOK, Paid, Step
  <2> QED BY <2>1, <2>2, <2>3, SettingsAreOthers, OthersKeep
<1>9. CASE SerialSetting
  <2>1. PICK k \in Settings, v \in Values, kept \in Values :
          QueueOthers(<<SettingSet(k, v)>>) /\ values' = [values EXCEPT ![k] = kept]
    BY <1>9 DEF SerialSetting
  <2>2. SettingSet(k, v) \in Packets /\ IsOther(SettingSet(k, v))
    BY DEF Packets, SettingSet, IsOther
  <2>3. values' \in [Settings -> Values]
    BY <2>1 DEF LinkInv, TypeOK
  <2> QED BY <1>9, <2>1, <2>2, <2>3, OneOther DEF SerialSetting
<1>10. CASE SerialQuery
  <2>1. Query \in Packets /\ IsOther(Query)
    BY DEF Packets, Query, IsOther
  <2>2. values' \in [Settings -> Values]
    BY <1>10 DEF LinkInv, TypeOK, SerialQuery, txVars
  <2> QED BY <1>10, <2>1, <2>2, OneOther DEF SerialQuery, txVars
<1>11. CASE TxRestart
  BY <1>11, TxRestartKeeps
<1>12. CASE Receive
  BY <1>12, ReceiveKeeps
<1>13. CASE RxSerial
  BY <1>13, RxSerialKeeps
<1>14. CASE RxRestart
  BY <1>14, RxRestartKeeps
<1>15. CASE RxSetChannel
  BY <1>15, RxSetChannelKeeps
<1>16. CASE Deliver
  BY <1>16, DeliverKeeps
<1>17. CASE Lose
  BY <1>17, LoseKeeps
<1>18. CASE UNCHANGED vars
  <2>1. UNCHANGED <<pos, calibrating, values, ring, read_index, write_index, fifo, rx, stamp,
                    sent, intact, steps>>
    BY <1>18 DEF vars, txVars, ringVars, markVars
  <2>2. TypeOK'
    BY <2>1 DEF LinkInv, TypeOK
  <2>3. steps' \in Nat /\ steps' <= steps
    BY <2>1, LinkAssumption DEF LinkInv, TypeOK
  <2> QED BY <2>1, <2>2, <2>3, QuietKeeps
<1> QED
  BY <1>1, <1>2, <1>3, <1>4, <1>5, <1>6, <1>7, <1>8, <1>9, <1>10, <1>11, <1>12, <1>13, <1>14,
     <1>15, <1>16, <1>17, <1>18
  DEF Next, Others

\* The motor unit takes nothing but a target that is next to its mark.
LEMMA NextTarget ==
  ASSUME LinkInv, [Next]_vars, rx'.stamp # rx.stamp
  PROVE  /\ 1 \in 1..Length /\ 2 \in 1..Length /\ History[1] = Mark
         /\ IsTarget(History[2]) /\ IsMark(History[2])
         /\ rx'.stamp = History[2].stamp
<1>1. CASE Receive
  <2> DEFINE p == Head(fifo)
  <2>1. /\ Len(fifo) \in Nat \ {0} /\ p = fifo[1] /\ p \in Packets /\ rx' = Processed(p)
    BY <1>1 DEF LinkInv, TypeOK, Receive
  <2> HIDE DEF p
  <2>2. p.type = "TARGET_POSITION_SET"
    <3>1. CASE p.type = "SETTING_SET"
      <4>1. rx'.stamp = rx.stamp
        BY <2>1, <3>1 DEF Processed, LinkInv, TypeOK
      <4> QED BY <4>1
    <3>2. CASE p.type = "RE_INIT_POSITION"
      <4>1. rx'.stamp = rx.stamp
        BY <2>1, <3>2 DEF Processed, LinkInv, TypeOK
      <4> QED BY <4>1
    <3>3. CASE p.type = "GET"
      BY <2>1, <3>3 DEF Processed
    <3> QED BY <2>1, <3>1, <3>2, <3>3, PacketFields
  <2>3. rx'.stamp = p.stamp
    BY <2>1, <2>2 DEF Processed, LinkInv, TypeOK
  <2>4. /\ 1 \in 1..Len(fifo) /\ 1 \in 1..Length /\ 2 \in 1..Length
        /\ History[1] = Mark /\ History[1 + 1] = fifo[1]
    BY <2>1, Parts DEF Parted, LinkInv
  <2> QED BY <2>1, <2>2, <2>3, <2>4 DEF IsTarget, IsMark
<1>2. CASE RxRestart
  <2>1. rx'.stamp = rx.stamp
    BY <1>2 DEF RxRestart, RxStart
  <2> QED BY <2>1
<1>3. CASE RxSerial
  <2>1. rx'.stamp = rx.stamp
    BY <1>3 DEF RxSerial, LinkInv, TypeOK
  <2> QED BY <2>1
<1>4. CASE UNCHANGED rx
  BY <1>4
<1>5. Receive \/ RxRestart \/ RxSerial \/ UNCHANGED rx
  BY DEF Next, Others, vars, Move, PlayBack, Calibrate, Calibrated, ChangeSetting, SerialSetting,
         SerialReload, SerialQuery, SpeedAndAccelTimeout, SerialTarget, TxRestart, RxSetChannel,
         Deliver, Lose, Dequeue
<1> QED BY <1>1, <1>2, <1>3, <1>4, <1>5

\* Every variable has its type: the ring's indices stay in the ring, and no
\* packet that was never queued is read from it (Txr/radio.cpp:50).
THEOREM LinkTyped == Spec => []TypeOK
<1>1. LinkInv => TypeOK
  BY DEF LinkInv
<1> QED BY <1>1, LinkInit, LinkStep, PTL DEF Spec

\* No target is executed after a newer one, whatever is lost, restarted or
\* overwritten in the ring (radio.cpp:51): the stamps along the sequence never fall.
THEOREM TargetsInOrder == Spec => InOrder
<1>1. LinkInv /\ [Next]_vars => [rx'.stamp >= rx.stamp]_vars
  <2> SUFFICES ASSUME LinkInv, [Next]_vars PROVE rx'.stamp >= rx.stamp
    OBVIOUS
  <2>1. rx.stamp \in Nat
    BY LinkAssumption DEF LinkInv, TypeOK
  <2>2. CASE rx'.stamp = rx.stamp
    BY <2>1, <2>2
  <2>3. CASE rx'.stamp # rx.stamp
    <3>1. IsMark(History[1]) /\ History[1].stamp = rx.stamp
      BY <2>3, NextTarget DEF Mark, IsMark, TargetSet
    <3>2. History[1].stamp <= History[2].stamp
      BY <2>3, <3>1, NextTarget DEF LinkInv, Ordered
    <3>3. History[2].stamp \in Nat
      BY <2>3, NextTarget, PlacesTyped DEF LinkInv
    <3> QED BY <2>1, <2>3, <3>1, <3>2, <3>3, NextTarget
  <2> QED BY <2>2, <2>3
<1> QED BY <1>1, LinkInit, LinkStep, PTL DEF Spec, InOrder

\* Once no target is on its way, the motor unit's is the newest that was queued,
\* if it was not lost or replaced (Rxr/radio.cpp:256): behind it there was neither
\* another nor an announcement.
THEOREM TargetsArrive == Spec => []TargetArrives
<1>1. LinkInv => TargetArrives
  <2> SUFFICES ASSUME LinkInv, Drained, intact PROVE rx.initialised /\ rx.target = sent
    BY DEF TargetArrives
  <2>1. PICK j \in 1..(Length - 1) : Arrival(j)
    BY DEF LinkInv, Arriving
  <2>2. j \in 1..Length /\ j # Length
    BY Parts DEF Parted, LinkInv
  <2>3. CASE j = 1
    <3>1. Mark.type = "TARGET_POSITION_SET" /\ Mark.val = sent
      BY <2>1, <2>3, Parts DEF Parted, LinkInv, Arrival, IsTarget
    <3>2. rx.initialised
      BY <3>1 DEF Mark
    <3> QED BY <3>1, <3>2 DEF Mark, TargetSet
  <2>4. CASE j - 1 \in 1..Len(fifo) /\ j = (j - 1) + 1
    <3>1. History[j] = fifo[j - 1]
      BY <2>4, Parts DEF Parted, LinkInv
    <3> QED BY <2>1, <2>4, <3>1 DEF Drained, Arrival, IsTarget
  <2>5. CASE j - Len(fifo) - 1 \in 1..Backlog /\ j = Len(fifo) + 1 + (j - Len(fifo) - 1)
    <3>1. History[j] = Queued[j - Len(fifo) - 1]
      BY <2>5, Parts DEF Parted, LinkInv
    <3> QED BY <2>1, <2>5, <3>1 DEF Drained, Arrival, IsTarget
  <2> QED BY <2>2, <2>3, <2>4, <2>5, Places DEF LinkInv
<1> QED BY <1>1, LinkInit, LinkStep, PTL DEF Spec

\* The link whose loops are never too slow is a case of this one: all of the
\* above holds of it.
THEOREM FairLink == FairSpec => Spec
<1>1. [TimelyNext]_vars => [Next]_vars
  BY DEF TimelyNext, Next, LoseInAir, TimelyTimeout
<1> QED BY <1>1, PTL DEF FairSpec, Spec

=============================================================================
