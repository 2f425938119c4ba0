--------------------------- MODULE SettingsProofs ---------------------------
(***************************************************************************)
(* What the motor unit keeps over a loss of power, for every channel,      *)
(* driver and sentinel of two bytes (RxrSettings); what is set with the    *)
(* wheel, for every range of the speed, every step and whatever the host   *)
(* sets (Wheel); its count, which is exact however far it is turned        *)
(* (Encoder); and the types of these and of the hand unit's settings       *)
(* (TxrSettingsProofs), in every behaviour of the run.                     *)
(***************************************************************************)
EXTENDS MCSettings, TxrSettingsProofs

-----------------------------------------------------------------------------
(* The motor unit.  A function writes its bytes in a fixed order, so where *)
(* it was cut is told by the first byte that is left.  The invariant says  *)
(* what has been written by then.                                          *)

\* The channel has the low byte of one that was asked for, or is still erased.
ChannelStored ==
  rxr_mem["channel"] = Erased \/ \E c \in AskedChannels : Low(rxr_mem["channel"]) = Low(c)

\* A restart keeps the channel; it will when c is stored.
Kept == on = "running" /\ ~unapplied => NextChannel = channel
Applied(c) == on = "running" /\ ~unapplied => c = channel

-----------------------------------------------------------------------------
(* What is left to write, from its first byte.                             *)

ChannelHigh(c) == << <<"channel", "high", High(c)>> >>
ChannelLow(c) == << <<"channel", "low", Low(c)>>, <<"channel", "high", High(c)>> >>
DriverHigh(d) == << <<"driver", "high", High(d)>> >>
DriverLow(d) == << <<"driver", "low", Low(d)>>, <<"driver", "high", High(d)>> >>

DefaultsFrom4 ==
  << <<"sentinel", "high", High(Sentinel)>>,
     <<"channel", "low", Low(DefaultChannel)>>, <<"channel", "high", High(DefaultChannel)>> >>
DefaultsFrom3 ==
  << <<"sentinel", "low", Low(Sentinel)>>, <<"sentinel", "high", High(Sentinel)>>,
     <<"channel", "low", Low(DefaultChannel)>>, <<"channel", "high", High(DefaultChannel)>> >>
DefaultsFrom2 ==
  << <<"driver", "high", High(DefaultDriver)>>,
     <<"sentinel", "low", Low(Sentinel)>>, <<"sentinel", "high", High(Sentinel)>>,
     <<"channel", "low", Low(DefaultChannel)>>, <<"channel", "high", High(DefaultChannel)>> >>
DefaultsFrom1 ==
  << <<"driver", "low", Low(DefaultDriver)>>, <<"driver", "high", High(DefaultDriver)>>,
     <<"sentinel", "low", Low(Sentinel)>>, <<"sentinel", "high", High(Sentinel)>>,
     <<"channel", "low", Low(DefaultChannel)>>, <<"channel", "high", High(DefaultChannel)>> >>

\* Where the loop is: in no function, or in one that stores a channel, a driver
\* or the defaults.
AtRest == todo = <<>> /\ (on # "off" => RxrReady) /\ Kept
InChannel ==
  /\ on # "off" /\ RxrReady
  /\ \E c \in AskedChannels :
       /\ Applied(c)
       /\ \/ todo = ChannelLow(c)
          \/ todo = ChannelHigh(c) /\ Low(rxr_mem["channel"]) = Low(c)
InDriver ==
  /\ on = "running" /\ RxrReady /\ Kept
  /\ \E d \in AskedDrivers :
       todo = DriverLow(d) \/ (todo = DriverHigh(d) /\ Low(rxr_mem["driver"]) = Low(d))
InDefaults ==
  /\ on # "off" /\ (on = "running" => unapplied)
  /\ \/ todo = DefaultsFrom1
     \/ todo = DefaultsFrom2 /\ Low(rxr_mem["driver"]) = Low(DefaultDriver)
     \/ todo = DefaultsFrom3 /\ rxr_mem["driver"] = DefaultDriver
     \/ /\ todo = DefaultsFrom4 /\ rxr_mem["driver"] = DefaultDriver
        /\ Low(rxr_mem["sentinel"]) = Low(Sentinel)

StateOK ==
  /\ rxr_mem \in [Locs -> Word]
  /\ on \in {"off", "starting", "running"}
  /\ channel \in 1..LastChannel
  /\ motor_driver \in BOOLEAN
  /\ unapplied \in BOOLEAN

RestInv ==
  /\ ChannelStored
  /\ DriverWritten
  /\ ChannelFound
  /\ on = "starting" => channel = 1
  /\ on = "running" => RxrReady

RxrInv ==
  /\ StateOK /\ RestInv
  /\ AtRest \/ InChannel \/ InDriver \/ InDefaults

-----------------------------------------------------------------------------
(* Sequences of byte writes.                                               *)

\* A concatenation is the sequence that has the elements of both in order.
LEMMA Concatenation ==
  ASSUME NEW S, NEW s \in Seq(S), NEW t \in Seq(S), NEW u \in Seq(S),
         Len(u) = Len(s) + Len(t),
         \A i \in 1..Len(u) : u[i] = IF i <= Len(s) THEN s[i] ELSE t[i - Len(s)]
  PROVE  s \o t = u
<1>1. s \o t \in Seq(S) /\ Len(s \o t) = Len(u)
  BY ConcatProperties
<1>2. \A i \in 1..Len(s \o t) : (s \o t)[i] = u[i]
  BY <1>1, ConcatProperties
<1> QED BY <1>1, <1>2, SeqEqual

LEMMA JoinedPairs ==
  ASSUME NEW S, NEW a \in S, NEW b \in S, NEW c \in S, NEW d \in S
  PROVE  <<a, b>> \o <<c, d>> = <<a, b, c, d>>
<1> DEFINE s == <<a,b>>  t == <<c,d>> u == <<a,b,c,d>>
<1>1. s \in Seq(S) /\ t \in Seq(S) /\ u \in Seq(S) /\ Len(s) = 2 /\ Len(t) = 2 /\ Len(u) = 4
  OBVIOUS
<1>2. \A i \in 1..4 : u[i] = IF i <= 2 THEN s[i] ELSE t[i - 2]
  OBVIOUS
<1> HIDE DEF s, t, u
<1>3. /\ Len(u) = Len(s) + Len(t)
      /\ \A i \in 1..Len(u) : u[i] = IF i <= Len(s) THEN s[i] ELSE t[i - Len(s)]
  BY <1>1, <1>2
<1>4. s \o t = u
  BY <1>1, <1>3, Concatenation
<1> QED BY <1>4 DEF s, t, u

LEMMA JoinedWithPair ==
  ASSUME NEW S, NEW a \in S, NEW b \in S, NEW c \in S, NEW d \in S, NEW e \in S, NEW f \in S
  PROVE  <<a, b, c, d>> \o <<e, f>> = <<a, b, c, d, e, f>>
<1> DEFINE s == <<a,b,c,d>>  t == <<e,f>> u == <<a,b,c,d,e,f>>
<1>1. s \in Seq(S) /\ t \in Seq(S) /\ u \in Seq(S) /\ Len(s) = 4 /\ Len(t) = 2 /\ Len(u) = 6
  OBVIOUS
<1>2. \A i \in 1..6 : u[i] = IF i <= 4 THEN s[i] ELSE t[i - 4]
  OBVIOUS
<1> HIDE DEF s, t, u
<1>3. /\ Len(u) = Len(s) + Len(t)
      /\ \A i \in 1..Len(u) : u[i] = IF i <= Len(s) THEN s[i] ELSE t[i - Len(s)]
  BY <1>1, <1>2
<1>4. s \o t = u
  BY <1>1, <1>3, Concatenation
<1> QED BY <1>4 DEF s, t, u

-----------------------------------------------------------------------------
(* Bytes and words.                                                        *)

LEMMA Halves ==
  ASSUME NEW w \in Word
  PROVE  High(w) \in 0..255 /\ Low(w) \in 0..255 /\ w = 256 * High(w) + Low(w)
<1>1. w \in Int /\ w >= 0 /\ w <= 65535
  BY DEF Word
<1>2. w \div 256 >= 0 /\ w \div 256 <= 255 /\ w \div 256 \in Int
  BY <1>1
<1>3. w % 256 \in 0..255 /\ w = 256 * (w \div 256) + (w % 256)
  BY <1>1
<1> QED BY <1>2, <1>3 DEF High, Low

\* A word has no more than its two halves.
LEMMA SameHalves ==
  ASSUME NEW v \in Word, NEW w \in Word, High(v) = High(w), Low(v) = Low(w)
  PROVE  v = w
<1>1. v = 256 * High(v) + Low(v) /\ w = 256 * High(w) + Low(w)
  BY Halves
<1> QED BY <1>1

LEMMA Together ==
  ASSUME NEW q \in 0..255, NEW b \in 0..255
  PROVE  256 * q + b \in Word /\ Low(256 * q + b) = b /\ High(256 * q + b) = q
<1> DEFINE x == 256 * q + b
<1>1. x \in Int /\ x >= 0 /\ x <= 65535
  OBVIOUS
<1>2. x % 256 = b /\ x \div 256 = q
  OBVIOUS
<1> HIDE DEF x
<1>3. x \in Word /\ Low(x) = b /\ High(x) = q
  BY <1>1, <1>2 DEF Word, Low, High
<1> QED BY <1>3 DEF x

LEMMA WrittenLow ==
  ASSUME NEW w \in Word, NEW b \in 0..255
  PROVE  /\ Written(w, "low", b) \in Word
         /\ Low(Written(w, "low", b)) = b /\ High(Written(w, "low", b)) = High(w)
<1> DEFINE q == High(w)
<1>1. q \in 0..255 /\ Written(w, "low", b) = 256 * q + b
  BY Halves DEF Written
<1> HIDE DEF q
<1>2. 256 * q + b \in Word /\ Low(256 * q + b) = b /\ High(256 * q + b) = q
  BY <1>1, Together
<1> QED BY <1>1, <1>2 DEF q

LEMMA WrittenHigh ==
  ASSUME NEW w \in Word, NEW b \in 0..255
  PROVE  /\ Written(w, "high", b) \in Word
         /\ Low(Written(w, "high", b)) = Low(w) /\ High(Written(w, "high", b)) = b
<1> DEFINE r == Low(w)
<1>1. r \in 0..255 /\ Written(w, "high", b) = 256 * b + r
  BY Halves DEF Written
<1> HIDE DEF r
<1>2. 256 * b + r \in Word /\ Low(256 * b + r) = r /\ High(256 * b + r) = b
  BY <1>1, Together
<1> QED BY <1>1, <1>2 DEF r

\* A channel fits a byte.
LEMMA SmallLow == ASSUME NEW w \in 0..255 PROVE Low(w) = w
BY DEF Low

\* When one half is there, the other makes the word; it is not lost when a half
\* of it is written again.
LEMMA HalfWritten ==
  ASSUME NEW w \in Word, NEW v \in Word
  PROVE  /\ Low(w) = Low(v) => Written(w, "high", High(v)) = v
         /\ Written(v, "low", Low(v)) = v
<1>1. High(v) \in 0..255 /\ Low(v) \in 0..255
  BY Halves
<1>2. ASSUME Low(w) = Low(v) PROVE Written(w, "high", High(v)) = v
  <2> DEFINE x == Written(w, "high", High(v))
  <2>1. x \in Word /\ Low(x) = Low(v) /\ High(x) = High(v)
    BY <1>1, <1>2, WrittenHigh
  <2> HIDE DEF x
  <2>2. x = v
    BY <2>1, SameHalves
  <2> QED BY <2>2 DEF x
<1>3. Written(v, "low", Low(v)) = v
  BY <1>1, WrittenLow, SameHalves
<1> QED BY <1>2, <1>3

-----------------------------------------------------------------------------
(* The functions' writes.                                                  *)

LEMMA Asked ==
  ASSUME RxrAssumption
  PROVE  /\ DefaultChannel \in AskedChannels /\ DefaultDriver \in AskedDrivers
         /\ Sentinel \in Word
         /\ \A c \in AskedChannels : c \in Word /\ Low(c) \in 0..255 /\ High(c) \in 0..255
         /\ \A d \in AskedDrivers : d \in Word /\ Low(d) \in 0..255 /\ High(d) \in 0..255
         /\ Low(Sentinel) \in 0..255 /\ High(Sentinel) \in 0..255
<1>1. 1 \in Word
  BY DEF Word
<1>2. AskedChannels \subseteq Word /\ AskedDrivers \subseteq Word /\ Sentinel \in Word
  BY <1>1 DEF RxrAssumption, AskedChannels, AskedDrivers
<1>3. DefaultChannel \in AskedChannels /\ DefaultDriver \in AskedDrivers
  BY DEF AskedChannels, AskedDrivers
<1> QED BY <1>2, <1>3, Halves

LEMMA WritesDefault ==
  ASSUME RxrAssumption
  PROVE  DefaultWrites = DefaultsFrom1
<1> DEFINE S == Locs \X {"low", "high"} \X (0..255)
           a == <<"driver", "low", Low(DefaultDriver)>>
           b == <<"driver", "high", High(DefaultDriver)>>
           c == <<"sentinel", "low", Low(Sentinel)>>
           d == <<"sentinel", "high", High(Sentinel)>>
           e == <<"channel", "low", Low(DefaultChannel)>>
           f == <<"channel", "high", High(DefaultChannel)>>
<1>1. Writes("driver", DefaultDriver) = <<a, b>>
  BY DEF Writes
<1>2. Writes("channel", DefaultChannel) = <<e, f>>
  BY DEF Writes
<1>3. Writes("sentinel", Sentinel) = <<c, d>>
  BY DEF Writes
<1>4. a \in S /\ b \in S /\ c \in S /\ d \in S /\ e \in S /\ f \in S
  BY Asked DEF Locs
<1>5. DefaultsFrom1 = <<a, b, c, d, e, f>>
  BY DEF DefaultsFrom1
<1>6. DefaultWrites = (<<a, b>> \o <<c, d>>) \o <<e, f>>
  BY <1>1, <1>2, <1>3 DEF DefaultWrites
<1> HIDE DEF S, a, b, c, d, e, f
<1>7. <<a, b>> \o <<c, d>> = <<a, b, c, d>>
  BY <1>4, JoinedPairs
<1>8. <<a, b, c, d>> \o <<e, f>> = <<a, b, c, d, e, f>>
  BY <1>4, JoinedWithPair
<1> QED BY <1>5, <1>6, <1>7, <1>8

\* What is left after the first byte.
LEMMA Rests ==
  /\ DefaultsFrom1 # <<>> /\ Head(DefaultsFrom1) = <<"driver", "low", Low(DefaultDriver)>>
  /\ Tail(DefaultsFrom1) = DefaultsFrom2
  /\ DefaultsFrom2 # <<>> /\ Head(DefaultsFrom2) = <<"driver", "high", High(DefaultDriver)>>
  /\ Tail(DefaultsFrom2) = DefaultsFrom3
  /\ DefaultsFrom3 # <<>> /\ Head(DefaultsFrom3) = <<"sentinel", "low", Low(Sentinel)>>
  /\ Tail(DefaultsFrom3) = DefaultsFrom4
  /\ DefaultsFrom4 # <<>> /\ Head(DefaultsFrom4) = <<"sentinel", "high", High(Sentinel)>>
  /\ Tail(DefaultsFrom4) = ChannelLow(DefaultChannel)
  /\ \A c : /\ ChannelLow(c) # <<>> /\ Head(ChannelLow(c)) = <<"channel", "low", Low(c)>>
            /\ Tail(ChannelLow(c)) = ChannelHigh(c)
            /\ ChannelHigh(c) # <<>> /\ Head(ChannelHigh(c)) = <<"channel", "high", High(c)>>
            /\ Tail(ChannelHigh(c)) = <<>>
            /\ DriverLow(c) # <<>> /\ Head(DriverLow(c)) = <<"driver", "low", Low(c)>>
            /\ Tail(DriverLow(c)) = DriverHigh(c)
            /\ DriverHigh(c) # <<>> /\ Head(DriverHigh(c)) = <<"driver", "high", High(c)>>
            /\ Tail(DriverHigh(c)) = <<>>
BY DEF DefaultsFrom1, DefaultsFrom2, DefaultsFrom3, DefaultsFrom4, ChannelLow, ChannelHigh,
       DriverLow, DriverHigh

-----------------------------------------------------------------------------
(* The steps.                                                              *)

\* One byte is written, and the rest is left.
LEMMA ByteWritten ==
  ASSUME StateOK, RxrWriteByte, Head(todo) \in Locs \X {"low", "high"} \X (0..255)
  PROVE  /\ StateOK' /\ todo' = Tail(todo)
         /\ LET w == Head(todo)
            IN  rxr_mem' = [rxr_mem EXCEPT ![w[1]] = Written(rxr_mem[w[1]], w[2], w[3])]
         /\ UNCHANGED <<on, channel, motor_driver, unapplied>>
<1> DEFINE w == Head(todo)
<1>1. w[1] \in Locs /\ w[2] \in {"low", "high"} /\ w[3] \in 0..255
  OBVIOUS
<1>2. rxr_mem' = [rxr_mem EXCEPT ![w[1]] = Written(rxr_mem[w[1]], w[2], w[3])]
  BY DEF RxrWriteByte
<1> HIDE DEF w
<1>3. rxr_mem[w[1]] \in Word
  BY <1>1 DEF StateOK
<1>4. Written(rxr_mem[w[1]], w[2], w[3]) \in Word
  <2>1. CASE w[2] = "low"
    BY <1>1, <1>3, <2>1, WrittenLow
  <2>2. CASE w[2] = "high"
    BY <1>1, <1>3, <2>2, WrittenHigh
  <2> QED BY <1>1, <2>1, <2>2
<1>5. rxr_mem' \in [Locs -> Word]
  BY <1>1, <1>2, <1>4 DEF StateOK
<1>6. UNCHANGED <<on, channel, motor_driver, unapplied>> /\ todo' = Tail(todo)
  BY DEF RxrWriteByte
<1>7. StateOK'
  BY <1>5, <1>6 DEF StateOK
<1> QED BY <1>2, <1>6, <1>7 DEF w

\* The byte is of one location, and the others stay as they are.
LEMMA ByteOf ==
  ASSUME StateOK, RxrWriteByte, NEW loc \in Locs, NEW half \in {"low", "high"}, NEW b \in 0..255,
         Head(todo) = <<loc, half, b>>
  PROVE  /\ StateOK' /\ todo' = Tail(todo)
         /\ rxr_mem'[loc] = Written(rxr_mem[loc], half, b)
         /\ \A other \in Locs : other # loc => rxr_mem'[other] = rxr_mem[other]
         /\ UNCHANGED <<on, channel, motor_driver, unapplied>>
<1> DEFINE w == Head(todo)
<1>1. w \in Locs \X {"low", "high"} \X (0..255) /\ w[1] = loc /\ w[2] = half /\ w[3] = b
  OBVIOUS
<1>2. /\ StateOK' /\ todo' = Tail(todo)
      /\ rxr_mem' = [rxr_mem EXCEPT ![w[1]] = Written(rxr_mem[w[1]], w[2], w[3])]
      /\ UNCHANGED <<on, channel, motor_driver, unapplied>>
  BY <1>1, ByteWritten
<1> HIDE DEF w
<1>3. rxr_mem' = [rxr_mem EXCEPT ![loc] = Written(rxr_mem[loc], half, b)]
  BY <1>1, <1>2
<1> QED BY <1>2, <1>3 DEF StateOK

LEMMA ThreeLocs ==
  /\ "channel" \in Locs /\ "driver" \in Locs /\ "sentinel" \in Locs
  /\ "channel" # "driver" /\ "channel" # "sentinel" /\ "driver" # "sentinel"
  /\ "low" \in {"low", "high"} /\ "high" \in {"low", "high"}
BY DEF Locs

LEMMA ByteOfChannel ==
  ASSUME StateOK, RxrWriteByte, NEW half \in {"low", "high"}, NEW b \in 0..255,
         Head(todo) = <<"channel", half, b>>
  PROVE  /\ StateOK' /\ todo' = Tail(todo)
         /\ rxr_mem'["channel"] = Written(rxr_mem["channel"], half, b)
         /\ rxr_mem'["driver"] = rxr_mem["driver"]
         /\ rxr_mem'["sentinel"] = rxr_mem["sentinel"]
         /\ UNCHANGED <<on, channel, motor_driver, unapplied>>
<1>1. "channel" \in Locs
  BY ThreeLocs
<1>2. /\ StateOK' /\ todo' = Tail(todo)
      /\ rxr_mem'["channel"] = Written(rxr_mem["channel"], half, b)
      /\ \A other \in Locs : other # "channel" => rxr_mem'[other] = rxr_mem[other]
      /\ UNCHANGED <<on, channel, motor_driver, unapplied>>
  BY <1>1, ByteOf
<1> QED BY <1>2, ThreeLocs

LEMMA ByteOfDriver ==
  ASSUME StateOK, RxrWriteByte, NEW half \in {"low", "high"}, NEW b \in 0..255,
         Head(todo) = <<"driver", half, b>>
  PROVE  /\ StateOK' /\ todo' = Tail(todo)
         /\ rxr_mem'["driver"] = Written(rxr_mem["driver"], half, b)
         /\ rxr_mem'["channel"] = rxr_mem["channel"]
         /\ rxr_mem'["sentinel"] = rxr_mem["sentinel"]
         /\ UNCHANGED <<on, channel, motor_driver, unapplied>>
<1>1. "driver" \in Locs
  BY ThreeLocs
<1>2. /\ StateOK' /\ todo' = Tail(todo)
      /\ rxr_mem'["driver"] = Written(rxr_mem["driver"], half, b)
      /\ \A other \in Locs : other # "driver" => rxr_mem'[other] = rxr_mem[other]
      /\ UNCHANGED <<on, channel, motor_driver, unapplied>>
  BY <1>1, ByteOf
<1> QED BY <1>2, ThreeLocs

LEMMA ByteOfSentinel ==
  ASSUME StateOK, RxrWriteByte, NEW half \in {"low", "high"}, NEW b \in 0..255,
         Head(todo) = <<"sentinel", half, b>>
  PROVE  /\ StateOK' /\ todo' = Tail(todo)
         /\ rxr_mem'["sentinel"] = Written(rxr_mem["sentinel"], half, b)
         /\ rxr_mem'["channel"] = rxr_mem["channel"]
         /\ rxr_mem'["driver"] = rxr_mem["driver"]
         /\ UNCHANGED <<on, channel, motor_driver, unapplied>>
<1>1. "sentinel" \in Locs
  BY ThreeLocs
<1>2. /\ StateOK' /\ todo' = Tail(todo)
      /\ rxr_mem'["sentinel"] = Written(rxr_mem["sentinel"], half, b)
      /\ \A other \in Locs : other # "sentinel" => rxr_mem'[other] = rxr_mem[other]
      /\ UNCHANGED <<on, channel, motor_driver, unapplied>>
  BY <1>1, ByteOf
<1> QED BY <1>2, ThreeLocs

\* A driver's byte leaves what is said of the channel and of the sentinel.
LEMMA DriverByte ==
  ASSUME StateOK, RestInv, StateOK', rxr_mem'["channel"] = rxr_mem["channel"], DriverWritten',
         rxr_mem'["sentinel"] = rxr_mem["sentinel"],
         UNCHANGED <<on, channel, motor_driver, unapplied>>
  PROVE  RestInv' /\ NextChannel' = NextChannel /\ RxrReady' = RxrReady /\ (Kept => Kept')
<1>1. NextChannel' = NextChannel /\ RxrReady' = RxrReady
  BY DEF NextChannel, RxrReady
<1>2. ChannelStored' /\ ChannelFound'
  BY DEF RestInv, ChannelStored, ChannelFound
<1>3. Kept => Kept'
  BY <1>1 DEF Kept
<1> QED BY <1>1, <1>2, <1>3 DEF RestInv

LEMMA RxrWriteByteStep == RxrAssumption /\ RxrInv /\ RxrWriteByte => RxrInv'
<1> SUFFICES ASSUME RxrAssumption, RxrInv, RxrWriteByte PROVE RxrInv'
  OBVIOUS
<1>a. StateOK /\ RestInv
  BY DEF RxrInv
<1>b. rxr_mem["channel"] \in Word /\ rxr_mem["driver"] \in Word /\ rxr_mem["sentinel"] \in Word
  BY <1>a DEF StateOK, Locs
<1>c. InChannel \/ InDriver \/ InDefaults
  BY DEF RxrInv, AtRest, RxrWriteByte
<1>1. CASE InChannel
  <2>1. PICK c \in AskedChannels :
              /\ Applied(c)
              /\ \/ todo = ChannelLow(c)
                 \/ todo = ChannelHigh(c) /\ Low(rxr_mem["channel"]) = Low(c)
    BY <1>1 DEF InChannel
  <2>2. /\ c \in Word /\ Low(c) \in 0..255 /\ High(c) \in 0..255
        /\ on # "off" /\ RxrReady
    BY <1>1, Asked DEF InChannel
  <2>3. CASE todo = ChannelLow(c)
    <3>1. Head(todo) = <<"channel", "low", Low(c)>> /\ Tail(todo) = ChannelHigh(c)
      BY <2>3, Rests
    <3>2. /\ StateOK' /\ todo' = ChannelHigh(c)
          /\ rxr_mem'["channel"] = Written(rxr_mem["channel"], "low", Low(c))
          /\ rxr_mem'["driver"] = rxr_mem["driver"] /\ rxr_mem'["sentinel"] = rxr_mem["sentinel"]
          /\ UNCHANGED <<on, channel, motor_driver, unapplied>>
      BY <1>a, <2>2, <3>1, ByteOfChannel
    <3>3. Low(rxr_mem'["channel"]) = Low(c) /\ ChannelStored'
      BY <1>b, <2>1, <2>2, <3>2, WrittenLow DEF ChannelStored
    <3>4. RestInv'
      BY <1>a, <3>2, <3>3 DEF RestInv, DriverWritten, ChannelFound, RxrReady
    <3>5. InChannel'
      BY <2>1, <2>2, <3>2, <3>3 DEF InChannel, Applied, RxrReady
    <3> QED BY <3>2, <3>4, <3>5 DEF RxrInv
  <2>4. CASE todo = ChannelHigh(c) /\ Low(rxr_mem["channel"]) = Low(c)
    <3>1. Head(todo) = <<"channel", "high", High(c)>> /\ Tail(todo) = <<>>
      BY <2>4, Rests
    <3>2. /\ StateOK' /\ todo' = <<>>
          /\ rxr_mem'["channel"] = Written(rxr_mem["channel"], "high", High(c))
          /\ rxr_mem'["driver"] = rxr_mem["driver"] /\ rxr_mem'["sentinel"] = rxr_mem["sentinel"]
          /\ UNCHANGED <<on, channel, motor_driver, unapplied>>
      BY <1>a, <2>2, <3>1, ByteOfChannel
    <3>3. rxr_mem'["channel"] = c /\ ChannelStored'
      BY <1>b, <2>1, <2>2, <2>4, <3>2, HalfWritten DEF ChannelStored
    <3>4. RestInv'
      BY <1>a, <3>2, <3>3 DEF RestInv, DriverWritten, ChannelFound, RxrReady
    <3>5. AtRest'
      BY <1>a, <2>1, <2>2, <3>2, <3>3 DEF AtRest, Kept, NextChannel, Applied, RxrReady, StateOK
    <3> QED BY <3>2, <3>4, <3>5 DEF RxrInv
  <2> QED BY <2>1, <2>3, <2>4
<1>2. CASE InDriver
  <2>1. PICK d \in AskedDrivers :
              \/ todo = DriverLow(d)
              \/ todo = DriverHigh(d) /\ Low(rxr_mem["driver"]) = Low(d)
    BY <1>2 DEF InDriver
  <2>2. /\ d \in Word /\ Low(d) \in 0..255 /\ High(d) \in 0..255
        /\ on = "running" /\ RxrReady /\ Kept
    BY <1>2, Asked DEF InDriver
  <2>3. CASE todo = DriverLow(d)
    <3>1. Head(todo) = <<"driver", "low", Low(d)>> /\ Tail(todo) = DriverHigh(d)
      BY <2>3, Rests
    <3>2. /\ StateOK' /\ todo' = DriverHigh(d)
          /\ rxr_mem'["driver"] = Written(rxr_mem["driver"], "low", Low(d))
          /\ rxr_mem'["channel"] = rxr_mem["channel"]
          /\ rxr_mem'["sentinel"] = rxr_mem["sentinel"]
          /\ UNCHANGED <<on, channel, motor_driver, unapplied>>
      BY <1>a, <2>2, <3>1, ByteOfDriver
    <3>3. Low(rxr_mem'["driver"]) = Low(d) /\ High(rxr_mem'["driver"]) = High(rxr_mem["driver"])
      BY <1>b, <2>2, <3>2, WrittenLow
    <3>4. DriverWritten'
      BY <1>a, <2>1, <2>2, <3>3 DEF RestInv, DriverWritten
    <3>5. RestInv' /\ RxrReady' /\ Kept'
      BY <1>a, <2>2, <3>2, <3>4, DriverByte
    <3>6. InDriver'
      BY <2>1, <2>2, <3>2, <3>3, <3>5 DEF InDriver
    <3> QED BY <3>2, <3>5, <3>6 DEF RxrInv
  <2>4. CASE todo = DriverHigh(d) /\ Low(rxr_mem["driver"]) = Low(d)
    <3>1. Head(todo) = <<"driver", "high", High(d)>> /\ Tail(todo) = <<>>
      BY <2>4, Rests
    <3>2. /\ StateOK' /\ todo' = <<>>
          /\ rxr_mem'["driver"] = Written(rxr_mem["driver"], "high", High(d))
          /\ rxr_mem'["channel"] = rxr_mem["channel"]
          /\ rxr_mem'["sentinel"] = rxr_mem["sentinel"]
          /\ UNCHANGED <<on, channel, motor_driver, unapplied>>
      BY <1>a, <2>2, <3>1, ByteOfDriver
    <3>3. rxr_mem'["driver"] = d
      BY <1>b, <2>2, <2>4, <3>2, HalfWritten
    <3>4. DriverWritten'
      BY <2>1, <3>3 DEF DriverWritten
    <3>5. RestInv' /\ RxrReady' /\ Kept'
      BY <1>a, <2>2, <3>2, <3>4, DriverByte
    <3>6. AtRest'
      BY <2>2, <3>2, <3>5 DEF AtRest
    <3> QED BY <3>2, <3>5, <3>6 DEF RxrInv
  <2> QED BY <2>1, <2>3, <2>4
<1>3. CASE InDefaults
  <2>1. /\ on # "off" /\ (on = "running" => unapplied)
        /\ DefaultDriver \in AskedDrivers /\ DefaultChannel \in AskedChannels
        /\ DefaultDriver \in Word /\ Sentinel \in Word
        /\ Low(DefaultDriver) \in 0..255 /\ High(DefaultDriver) \in 0..255
        /\ Low(Sentinel) \in 0..255 /\ High(Sentinel) \in 0..255
    BY <1>3, Asked DEF InDefaults
  <2>2. CASE todo = DefaultsFrom1
    <3>1. Head(todo) = <<"driver", "low", Low(DefaultDriver)>> /\ Tail(todo) = DefaultsFrom2
      BY <2>2, Rests
    <3>2. /\ StateOK' /\ todo' = DefaultsFrom2
          /\ rxr_mem'["driver"] = Written(rxr_mem["driver"], "low", Low(DefaultDriver))
          /\ rxr_mem'["channel"] = rxr_mem["channel"]
          /\ rxr_mem'["sentinel"] = rxr_mem["sentinel"]
          /\ UNCHANGED <<on, channel, motor_driver, unapplied>>
      BY <1>a, <2>1, <3>1, ByteOfDriver
    <3>3. /\ Low(rxr_mem'["driver"]) = Low(DefaultDriver)
          /\ High(rxr_mem'["driver"]) = High(rxr_mem["driver"])
      BY <1>b, <2>1, <3>2, WrittenLow
    <3>4. DriverWritten'
      BY <1>a, <2>1, <3>2, <3>3 DEF RestInv, DriverWritten, RxrReady
    <3>5. RestInv'
      BY <1>a, <3>2, <3>4, DriverByte
    <3>6. InDefaults'
      BY <2>1, <3>2, <3>3 DEF InDefaults
    <3> QED BY <3>2, <3>5, <3>6 DEF RxrInv
  <2>3. CASE todo = DefaultsFrom2 /\ Low(rxr_mem["driver"]) = Low(DefaultDriver)
    <3>1. Head(todo) = <<"driver", "high", High(DefaultDriver)>> /\ Tail(todo) = DefaultsFrom3
      BY <2>3, Rests
    <3>2. /\ StateOK' /\ todo' = DefaultsFrom3
          /\ rxr_mem'["driver"] = Written(rxr_mem["driver"], "high", High(DefaultDriver))
          /\ rxr_mem'["channel"] = rxr_mem["channel"]
          /\ rxr_mem'["sentinel"] = rxr_mem["sentinel"]
          /\ UNCHANGED <<on, channel, motor_driver, unapplied>>
      BY <1>a, <2>1, <3>1, ByteOfDriver
    <3>3. rxr_mem'["driver"] = DefaultDriver
      BY <1>b, <2>1, <2>3, <3>2, HalfWritten
    <3>4. DriverWritten'
      BY <2>1, <3>3 DEF DriverWritten
    <3>5. RestInv'
      BY <1>a, <3>2, <3>4, DriverByte
    <3>6. InDefaults'
      BY <2>1, <3>2, <3>3 DEF InDefaults
    <3> QED BY <3>2, <3>5, <3>6 DEF RxrInv
  <2>4. CASE todo = DefaultsFrom3 /\ rxr_mem["driver"] = DefaultDriver
    <3>1. Head(todo) = <<"sentinel", "low", Low(Sentinel)>> /\ Tail(todo) = DefaultsFrom4
      BY <2>4, Rests
    <3>2. /\ StateOK' /\ todo' = DefaultsFrom4
          /\ rxr_mem'["sentinel"] = Written(rxr_mem["sentinel"], "low", Low(Sentinel))
          /\ rxr_mem'["channel"] = rxr_mem["channel"] /\ rxr_mem'["driver"] = rxr_mem["driver"]
          /\ UNCHANGED <<on, channel, motor_driver, unapplied>>
      BY <1>a, <2>1, <3>1, ByteOfSentinel
    <3>3. Low(rxr_mem'["sentinel"]) = Low(Sentinel)
      BY <1>b, <2>1, <3>2, WrittenLow
    <3>4. RxrReady => RxrReady'
      BY <2>1, <3>2, HalfWritten DEF RxrReady
    <3>5. RestInv'
      BY <1>a, <2>1, <2>4, <3>2, <3>4 DEF RestInv, ChannelStored, DriverWritten, ChannelFound
    <3>6. InDefaults'
      BY <2>1, <2>4, <3>2, <3>3 DEF InDefaults
    <3> QED BY <3>2, <3>5, <3>6 DEF RxrInv
  <2>5. CASE /\ todo = DefaultsFrom4 /\ rxr_mem["driver"] = DefaultDriver
             /\ Low(rxr_mem["sentinel"]) = Low(Sentinel)
    <3>1. /\ Head(todo) = <<"sentinel", "high", High(Sentinel)>>
          /\ Tail(todo) = ChannelLow(DefaultChannel)
      BY <2>5, Rests
    <3>2. /\ StateOK' /\ todo' = ChannelLow(DefaultChannel)
          /\ rxr_mem'["sentinel"] = Written(rxr_mem["sentinel"], "high", High(Sentinel))
          /\ rxr_mem'["channel"] = rxr_mem["channel"] /\ rxr_mem'["driver"] = rxr_mem["driver"]
          /\ UNCHANGED <<on, channel, motor_driver, unapplied>>
      BY <1>a, <2>1, <3>1, ByteOfSentinel
    <3>3. RxrReady'
      BY <1>b, <2>1, <2>5, <3>2, HalfWritten DEF RxrReady
    <3>4. RestInv'
      BY <1>a, <2>1, <2>5, <3>2, <3>3 DEF RestInv, ChannelStored, DriverWritten, ChannelFound
    <3>5. InChannel'
      BY <2>1, <3>2, <3>3 DEF InChannel, Applied
    <3> QED BY <3>2, <3>4, <3>5 DEF RxrInv
  <2> QED BY <1>3, <2>2, <2>3, <2>4, <2>5 DEF InDefaults
<1> QED BY <1>c, <1>1, <1>2, <1>3

LEMMA RxrStart == RxrAssumption /\ RxrInit => RxrInv
<1> SUFFICES ASSUME RxrAssumption, RxrInit PROVE RxrInv
  OBVIOUS
<1>1. StateOK
  <2>1. Erased \in Word
    BY DEF Erased, Word
  <2>2. 1 \in 1..LastChannel
    BY DEF RxrAssumption
  <2> QED BY <2>1, <2>2 DEF RxrInit, StateOK
<1>2. rxr_mem["channel"] = Erased /\ rxr_mem["sentinel"] = Erased
  BY DEF RxrInit, Locs
<1>3. RestInv
  BY <1>2 DEF RxrAssumption, RxrInit, RestInv, ChannelStored, DriverWritten, ChannelFound,
      RxrReady
<1>4. AtRest
  BY DEF RxrInit, AtRest, Kept
<1> QED BY <1>1, <1>3, <1>4 DEF RxrInv

LEMMA RxrStep == RxrAssumption /\ RxrInv /\ [RxrNext]_rxrVars => RxrInv'
<1> SUFFICES ASSUME RxrAssumption, RxrInv, [RxrNext]_rxrVars PROVE RxrInv'
  OBVIOUS
<1>a. StateOK /\ RestInv
  BY DEF RxrInv
<1>0. CASE UNCHANGED rxrVars
  <2>1. StateOK'
    BY <1>a, <1>0 DEF rxrVars, StateOK
  <2>2. RestInv'
    BY <1>a, <1>0 DEF rxrVars, RestInv, ChannelStored, DriverWritten, ChannelFound, RxrReady
  <2>3. AtRest => AtRest'
    BY <1>0 DEF rxrVars, AtRest, Kept, NextChannel, RxrReady
  <2>4. InChannel => InChannel'
    BY <1>0 DEF rxrVars, InChannel, Applied, RxrReady
  <2>5. InDriver => InDriver'
    BY <1>0 DEF rxrVars, InDriver, Kept, NextChannel, RxrReady
  <2>6. InDefaults => InDefaults'
    BY <1>0 DEF rxrVars, InDefaults
  <2> QED BY <2>1, <2>2, <2>3, <2>4, <2>5, <2>6 DEF RxrInv
<1>1. CASE PowerOn
  <2>1. StateOK' /\ RestInv' /\ on' = "starting"
    <3>1. UNCHANGED <<rxr_mem, motor_driver>> /\ on' = "starting" /\ channel' = 1 /\ ~unapplied'
          /\ unapplied' \in BOOLEAN
      BY <1>1 DEF PowerOn
    <3>2. StateOK'
      BY <1>a, <3>1 DEF StateOK, RxrAssumption
    <3>3. RestInv'
      BY <1>a, <3>1 DEF RestInv, ChannelStored, DriverWritten, ChannelFound, RxrReady
    <3> QED BY <3>1, <3>2, <3>3
  <2>2. CASE RxrReady
    BY <1>1, <2>1, <2>2 DEF PowerOn, RxrInv, AtRest, Kept, RxrReady
  <2>3. CASE ~RxrReady
    <3>1. todo' = DefaultsFrom1
      BY <1>1, <2>3, WritesDefault DEF PowerOn
    <3> QED BY <2>1, <3>1 DEF RxrInv, InDefaults
  <2> QED BY <2>2, <2>3
<1>2. CASE RxrWriteByte
  BY <1>2, RxrWriteByteStep
<1>3. CASE Started
  <2>1. AtRest /\ RxrReady /\ channel = 1 /\ on' = "running"
        /\ rxr_mem' = rxr_mem /\ todo' = todo
    BY <1>a, <1>3, Rests DEF Started, RxrInv, AtRest, InChannel, InDriver, InDefaults, RestInv
  <2>2. channel' = Select(rxr_mem["channel"])
    BY <1>3 DEF Started
  <2>3. channel' = NextChannel'
    BY <2>1, <2>2 DEF Select, NextChannel, RxrReady
  <2>4. /\ channel' = DefaultChannel \/ \E c \in Channels : Low(c) = channel'
        /\ channel' \in 1..LastChannel
    <3>1. CASE rxr_mem["channel"] \in 1..LastChannel
      <4>1. rxr_mem["channel"] \in 0..255 /\ rxr_mem["channel"] # Erased
        BY <3>1 DEF RxrAssumption, Erased
      <4>2. Low(rxr_mem["channel"]) = rxr_mem["channel"]
        BY <4>1, SmallLow
      <4>3. PICK c \in AskedChannels : Low(c) = rxr_mem["channel"]
        BY <1>a, <4>1, <4>2 DEF RestInv, ChannelStored
      <4>4. Low(DefaultChannel) = DefaultChannel
        BY SmallLow DEF RxrAssumption
      <4> QED BY <2>2, <3>1, <4>3, <4>4 DEF Select, AskedChannels
    <3>2. CASE rxr_mem["channel"] \notin 1..LastChannel
      BY <2>1, <2>2, <3>2 DEF Select, RxrAssumption
    <3> QED BY <3>1, <3>2
  <2>5. StateOK'
    BY <1>a, <1>3, <2>1, <2>4 DEF Started, StateOK, RxrAssumption
  <2>6. RestInv'
    BY <1>a, <2>1, <2>4 DEF RestInv, ChannelStored, DriverWritten, ChannelFound, RxrReady
  <2>7. AtRest'
    BY <2>1, <2>3 DEF AtRest, Kept, RxrReady
  <2> QED BY <2>5, <2>6, <2>7 DEF RxrInv
<1>4. CASE SetChannel
  <2>1. PICK c \in Channels : /\ todo' = Writes("channel", c)
                              /\ channel' = Select(c)
                              /\ unapplied' = (c \notin 1..LastChannel)
    BY <1>4 DEF SetChannel
  <2>2. c \in AskedChannels /\ todo' = ChannelLow(c)
    BY <2>1 DEF Writes, AskedChannels, ChannelLow
  <2>3. on = "running" /\ RxrReady /\ UNCHANGED <<rxr_mem, on, motor_driver>>
    BY <1>a, <1>4 DEF SetChannel, RestInv
  <2>4. channel' = c \/ (channel' = channel /\ unapplied')
    BY <2>1 DEF Select
  <2>5. StateOK' /\ RestInv'
    <3>1. c \in 1..LastChannel => Low(c) = c
      BY SmallLow DEF RxrAssumption
    <3>2. ChannelFound'
      BY <1>a, <2>1, <2>3, <3>1 DEF RestInv, ChannelFound, Select
    <3> QED BY <1>a, <2>1, <2>3, <3>2 DEF StateOK, RestInv, ChannelStored, DriverWritten, RxrReady,
            Select
  <2>6. InChannel'
    BY <2>2, <2>3, <2>4 DEF InChannel, Applied, RxrReady
  <2> QED BY <2>5, <2>6 DEF RxrInv
<1>5. CASE SetDriver
  <2>1. PICK d \in Drivers : todo' = Writes("driver", d) /\ motor_driver' = (d # 0)
    BY <1>5 DEF SetDriver
  <2>2. d \in AskedDrivers /\ todo' = DriverLow(d)
    BY <2>1 DEF Writes, AskedDrivers, DriverLow
  <2>3. AtRest /\ on = "running" /\ RxrReady /\ UNCHANGED <<rxr_mem, on, channel, unapplied>>
    BY <1>a, <1>5, Rests DEF SetDriver, RxrInv, AtRest, InChannel, InDriver, InDefaults, RestInv
  <2>4. StateOK' /\ RestInv'
    BY <1>a, <2>1, <2>3 DEF StateOK, RestInv, ChannelStored, DriverWritten, ChannelFound, RxrReady
  <2>5. InDriver'
    BY <2>2, <2>3 DEF InDriver, AtRest, Kept, NextChannel, RxrReady
  <2> QED BY <2>4, <2>5 DEF RxrInv
<1>6. CASE FactoryReset
  <2>1. todo' = DefaultsFrom1
    BY <1>6, WritesDefault DEF FactoryReset
  <2>2. StateOK' /\ RestInv'
    BY <1>a, <1>6 DEF FactoryReset, StateOK, RestInv, ChannelStored, DriverWritten, ChannelFound,
       RxrReady
  <2>3. InDefaults'
    BY <1>6, <2>1 DEF FactoryReset, InDefaults
  <2> QED BY <2>2, <2>3 DEF RxrInv
<1>7. CASE RxrPowerLoss
  <2>1. StateOK' /\ RestInv'
    BY <1>a, <1>7 DEF RxrPowerLoss, StateOK, RestInv, ChannelStored, DriverWritten, ChannelFound,
       RxrReady
  <2>2. AtRest'
    BY <1>7 DEF RxrPowerLoss, AtRest, Kept
  <2> QED BY <2>1, <2>2 DEF RxrInv
<1> QED BY <1>0, <1>1, <1>2, <1>3, <1>4, <1>5, <1>6, <1>7 DEF RxrNext

-----------------------------------------------------------------------------
(* The theorems.                                                           *)

LEMMA RxrInvariance == ASSUME RxrAssumption PROVE RxrSpec => []RxrInv
<1>1. RxrInit => RxrInv
  BY RxrStart
<1>2. RxrInv /\ [RxrNext]_rxrVars => RxrInv'
  BY RxrStep
<1> QED BY <1>1, <1>2, PTL DEF RxrSpec

\* Wherever the power fails, a valid sentinel means a motor driver each byte of
\* which was stored for one that was asked for or the default, and a start finds
\* the default channel or the low byte of one that was asked for (settings.h:17),
\* for every channel, driver and sentinel of two bytes.
THEOREM StoredIsUsable == ASSUME RxrAssumption PROVE RxrSpec => []StoredUsable
<1>1. RxrInv => StoredUsable
  BY DEF RxrInv, RestInv, StoredUsable
<1> QED BY <1>1, RxrInvariance, PTL

\* A restart does not take the motor unit to another channel (radio.cpp:364),
\* however often the power failed while one was being stored.
THEOREM ChannelSurvives == ASSUME RxrAssumption PROVE RxrSpec => []RestartKeepsChannel
<1>1. RxrInv => RestartKeepsChannel
  BY Rests DEF RxrInv, AtRest, InChannel, InDriver, InDefaults, Kept, RestartKeepsChannel
<1> QED BY <1>1, RxrInvariance, PTL

-----------------------------------------------------------------------------
(* The wheel.                                                              *)

\* What is stored of an acceleration gives it back, for every acceleration and
\* not only for those the wheel can reach.
LEMMA AccelRoundTrip ==
  ASSUME NEW v \in Int
  PROVE  AccelIn(v) \in Int /\ AccelOut(AccelIn(v)) = v
  BY WheelAssumption, SMTT(30) DEF AccelIn, AccelOut

LEMMA AccelOutType == ASSUME NEW v \in Int PROVE AccelOut(v) \in Int
  BY WheelAssumption DEF AccelOut

LEMMA ClampBounds ==
  ASSUME NEW x \in Int, NEW min \in Int, NEW max \in Int, min <= max
  PROVE  Clamp(x, min, max) \in min..max
  BY DEF Clamp

LEMMA AccelRange ==
  ASSUME NEW v \in ENCODER_STEPS_PER_CLICK..(ENCODER_STEPS_PER_CLICK * MaxClicks)
  PROVE  v \in Nat
  BY WheelAssumption

\* A stored acceleration is always a value that storing has made.
WheelInv == WheelTypeOK /\ AccelExact

LEMMA StoredExact ==
  ASSUME NEW v \in Int, max_accel' = AccelIn(v)
  PROVE  max_accel' \in Int /\ AccelExact'
  BY AccelRoundTrip DEF AccelExact, Accel

LEMMA WheelStart == WheelInit => WheelInv
<1> SUFFICES ASSUME WheelInit PROVE WheelInv
  OBVIOUS
<1>1. WheelTypeOK
  BY WheelAssumption DEF WheelInit, WheelTypeOK
<1>2. AccelExact
  BY WheelAssumption DEF WheelInit, AccelExact, Accel, AccelIn, AccelOut
<1> QED BY <1>1, <1>2 DEF WheelInv

LEMMA WheelStep == WheelInv /\ [WheelNext]_wheelVars => WheelInv'
<1> SUFFICES ASSUME WheelInv, [WheelNext]_wheelVars PROVE WheelInv'
  OBVIOUS
<1> USE DEF WheelInv
<1>0. CASE UNCHANGED max_accel /\ max_speed' \in Nat /\ encoder_mode' = encoder_mode
             /\ encoder_delta' \in (-MaxDelta)..MaxDelta
  BY <1>0 DEF WheelTypeOK, AccelExact, Accel
<1>1. CASE TurnWheel
  BY <1>0, <1>1 DEF TurnWheel, WheelTypeOK
<1>2. CASE ChangeEncoderMode
  BY <1>2 DEF ChangeEncoderMode, WheelTypeOK, AccelExact, Accel
<1>3. CASE UpdateMaxSpeed
  <2>1. encoder_delta * SpeedFactor(max_speed) \in Int
    BY WheelAssumption DEF WheelTypeOK, SpeedFactor, Clamp
  <2>2. max_speed' \in 1..MaxSpeed
    BY <1>3, <2>1, ClampBounds, WheelAssumption DEF UpdateMaxSpeed, WheelTypeOK
  <2> QED BY <1>0, <1>3, <2>2, WheelAssumption DEF UpdateMaxSpeed
<1>4. CASE UpdateMaxAccel
  <2> DEFINE new == Clamp(Accel + encoder_delta, ENCODER_STEPS_PER_CLICK, ENCODER_STEPS_PER_CLICK * MaxClicks)
  <2>1. Accel \in Int /\ encoder_delta \in Int
    BY AccelOutType, WheelAssumption DEF Accel, WheelTypeOK
  <2>2. new \in Nat
    BY <2>1, ClampBounds, AccelRange, WheelAssumption
  <2>3. CASE new = Accel
    BY <1>0, <1>4, <2>3, WheelAssumption DEF UpdateMaxAccel, WheelTypeOK
  <2>4. CASE new # Accel
    <3>1. max_accel' = AccelIn(new)
      BY <1>4, <2>4 DEF UpdateMaxAccel
    <3>2. max_accel' \in Int /\ AccelExact'
      BY <2>2, <3>1, StoredExact
    <3> QED BY <1>4, <3>2, WheelAssumption DEF UpdateMaxAccel, WheelTypeOK
  <2> QED BY <2>3, <2>4
<1>5. CASE SetMaxSpeed
  BY <1>0, <1>5, WheelAssumption DEF SetMaxSpeed, WheelTypeOK
<1>6. CASE SetMaxAccel
  <2>1. PICK n \in HostClicks : max_accel' = AccelIn(n * ENCODER_STEPS_PER_CLICK)
    BY <1>6 DEF SetMaxAccel
  <2>2. n * ENCODER_STEPS_PER_CLICK \in Int
    BY WheelAssumption
  <2> QED BY <1>6, <2>1, <2>2, StoredExact DEF SetMaxAccel, WheelTypeOK
<1>7. CASE SelectPreset
  <2>1. PICK v \in PresetAccels : max_accel' = AccelIn(v)
    BY <1>7 DEF SelectPreset
  <2>2. v \in Int
    BY WheelAssumption
  <2> QED BY <1>7, <2>1, <2>2, StoredExact, WheelAssumption DEF SelectPreset, WheelTypeOK
<1>8. CASE UNCHANGED wheelVars
  BY <1>0, <1>8 DEF wheelVars, WheelTypeOK
<1> QED BY <1>1, <1>2, <1>3, <1>4, <1>5, <1>6, <1>7, <1>8 DEF WheelNext

\* The speed and the acceleration stay numbers, and the count bounded.
THEOREM WheelTyped == WheelSpec => []WheelTypeOK
<1>1. WheelInv => WheelTypeOK
  BY DEF WheelInv
<1> QED BY <1>1, WheelStart, WheelStep, PTL DEF WheelSpec

\* Whatever the wheel, the host and the presets do, the acceleration on the
\* wheel is exactly the one that is stored (settings.cpp:219).
THEOREM AccelStoredExactly == WheelSpec => []AccelExact
<1>1. WheelInv => AccelExact
  BY DEF WheelInv
<1> QED BY <1>1, WheelStart, WheelStep, PTL DEF WheelSpec

\* No step of the wheel is lost or made twice, although what is stored jumps at
\* the changes of the multiple (ao_Txr.cpp:263).
THEOREM AccelFollows == WheelSpec => AccelFollowsWheel
<1> DEFINE A == UpdateMaxAccel =>
                  Accel' = Clamp(Accel + encoder_delta, ENCODER_STEPS_PER_CLICK, ENCODER_STEPS_PER_CLICK * MaxClicks)
<1>1. WheelInv /\ [WheelNext]_wheelVars => [A]_wheelVars
  <2> SUFFICES ASSUME WheelInv, UpdateMaxAccel
               PROVE  Accel' = Clamp(Accel + encoder_delta, ENCODER_STEPS_PER_CLICK, ENCODER_STEPS_PER_CLICK * MaxClicks)
    OBVIOUS
  <2> DEFINE new == Clamp(Accel + encoder_delta, ENCODER_STEPS_PER_CLICK, ENCODER_STEPS_PER_CLICK * MaxClicks)
  <2>1. new \in Nat
    <3>1. Accel \in Int /\ encoder_delta \in Int
      BY AccelOutType, WheelAssumption DEF Accel, WheelInv, WheelTypeOK
    <3> QED BY <3>1, ClampBounds, AccelRange, WheelAssumption
  <2>2. CASE new = Accel
    BY <2>2 DEF UpdateMaxAccel, Accel
  <2>3. CASE new # Accel
    <3>1. max_accel' = AccelIn(new)
      BY <2>3 DEF UpdateMaxAccel
    <3> QED BY <2>1, <3>1, AccelRoundTrip DEF Accel
  <2> QED BY <2>2, <2>3
<1> QED BY <1>1, WheelStart, WheelStep, PTL DEF WheelSpec, AccelFollowsWheel

\* The wheel changes every speed within its range, however low (ao_Txr.cpp:248).
THEOREM SpeedFollows == WheelSpec => SpeedFollowsWheel
<1> DEFINE A == UpdateMaxSpeed => Follows(max_speed, max_speed', MaxSpeed)
<1>1. WheelInv /\ [WheelNext]_wheelVars => [A]_wheelVars
  <2> SUFFICES ASSUME WheelInv, UpdateMaxSpeed PROVE Follows(max_speed, max_speed', MaxSpeed)
    OBVIOUS
  <2> DEFINE step == encoder_delta * SpeedFactor(max_speed)
  <2>1. SpeedFactor(max_speed) \in Nat /\ SpeedFactor(max_speed) >= 1
    BY WheelAssumption DEF SpeedFactor, Clamp, WheelInv, WheelTypeOK
  <2>2. encoder_delta \in Int /\ step \in Int
    BY <2>1, WheelAssumption DEF WheelInv, WheelTypeOK
  <2>3. (encoder_delta > 0 => step > 0) /\ (encoder_delta < 0 => step < 0)
    BY <2>1, <2>2
  <2>4. max_speed' = Clamp(max_speed + step, 1, MaxSpeed) /\ max_speed \in Nat
    BY DEF UpdateMaxSpeed, WheelInv, WheelTypeOK
  <2> HIDE DEF step
  <2> QED BY <2>2, <2>3, <2>4, WheelAssumption DEF Follows, Clamp
<1> QED BY <1>1, WheelStart, WheelStep, PTL DEF WheelSpec, SpeedFollowsWheel

\* The wheel is followed by both (ao_Txr.cpp:248).
THEOREM WheelFollowed == WheelSpec => FollowsWheel
  BY AccelFollows, SpeedFollows DEF FollowsWheel

-----------------------------------------------------------------------------
(* The encoder.                                                            *)

\* The last read was one of the wheel's positions, and every edge since has
\* left its flag, unless the interrupt has yet to read the pin.
CountInv ==
  /\ EncoderTypeOK
  /\ position = sampled - origin
  /\ \A n \in Pins : state[n] = Pin(n, sampled)
  /\ Near(turned, sampled)
  /\ isr = "idle" => \A n \in Pins : Pin(n, turned) # Pin(n, sampled) => n \in pending
  /\ isr = "pin2" => /\ read1.level = Pin(1, read1.at)
                     /\ Near(turned, read1.at) /\ Near(read1.at, sampled)
                     /\ Pin(1, turned) # read1.level => 1 \in pending
  /\ reader.reading => /\ isr = "idle"
                       /\ reader.low = position % Digit /\ reader.was = position
  /\ ReadWhole

\* What the interrupt's table is looked up with.
Lookup(p, q) ==
  Bit(Pin(1, p), 1) + Bit(Pin(2, p), 2) + Bit(Pin(1, q), 4) + Bit(Pin(2, q), 8)

\* The table counts every single step as it was made.
LEMMA TableCounts ==
  ASSUME NEW p \in Int, NEW q \in Int, Near(q, p)
  PROVE  Count(Lookup(p, q)) = q - p
<1>1. CASE p % 4 = 0
  <2>1. CASE q = p
    BY <1>1, <2>1 DEF Lookup, Bit, Pin, Count
  <2>2. CASE q = p + 1
    <3>1. q % 4 = 1
      BY <1>1, <2>2
    <3> QED BY <1>1, <2>2, <3>1 DEF Lookup, Bit, Pin, Count
  <2>3. CASE q = p - 1
    <3>1. q % 4 = 3
      BY <1>1, <2>3
    <3> QED BY <1>1, <2>3, <3>1 DEF Lookup, Bit, Pin, Count
  <2> QED BY <2>1, <2>2, <2>3 DEF Near
<1>2. CASE p % 4 = 1
  <2>1. CASE q = p
    BY <1>2, <2>1 DEF Lookup, Bit, Pin, Count
  <2>2. CASE q = p + 1
    <3>1. q % 4 = 2
      BY <1>2, <2>2
    <3> QED BY <1>2, <2>2, <3>1 DEF Lookup, Bit, Pin, Count
  <2>3. CASE q = p - 1
    <3>1. q % 4 = 0
      BY <1>2, <2>3
    <3> QED BY <1>2, <2>3, <3>1 DEF Lookup, Bit, Pin, Count
  <2> QED BY <2>1, <2>2, <2>3 DEF Near
<1>3. CASE p % 4 = 2
  <2>1. CASE q = p
    BY <1>3, <2>1 DEF Lookup, Bit, Pin, Count
  <2>2. CASE q = p + 1
    <3>1. q % 4 = 3
      BY <1>3, <2>2
    <3> QED BY <1>3, <2>2, <3>1 DEF Lookup, Bit, Pin, Count
  <2>3. CASE q = p - 1
    <3>1. q % 4 = 1
      BY <1>3, <2>3
    <3> QED BY <1>3, <2>3, <3>1 DEF Lookup, Bit, Pin, Count
  <2> QED BY <2>1, <2>2, <2>3 DEF Near
<1>4. CASE p % 4 = 3
  <2>1. CASE q = p
    BY <1>4, <2>1 DEF Lookup, Bit, Pin, Count
  <2>2. CASE q = p + 1
    <3>1. q % 4 = 0
      BY <1>4, <2>2
    <3> QED BY <1>4, <2>2, <3>1 DEF Lookup, Bit, Pin, Count
  <2>3. CASE q = p - 1
    <3>1. q % 4 = 2
      BY <1>4, <2>3
    <3> QED BY <1>4, <2>3, <3>1 DEF Lookup, Bit, Pin, Count
  <2> QED BY <2>1, <2>2, <2>3 DEF Near
<1> QED BY <1>1, <1>2, <1>3, <1>4

\* A step is an edge of exactly one of the pins.
LEMMA OneEdge ==
  ASSUME NEW p \in Int, NEW q \in Int, Near(q, p), q # p
  PROVE  (Pin(1, q) # Pin(1, p)) # (Pin(2, q) # Pin(2, p))
<1>1. CASE q = p + 1
  BY <1>1, SMTT(30) DEF Pin
<1>2. CASE q = p - 1
  BY <1>2, SMTT(30) DEF Pin
<1> QED BY <1>1, <1>2 DEF Near

LEMMA CountInit == EncoderInit => CountInv
<1> SUFFICES ASSUME EncoderInit PROVE CountInv
  OBVIOUS
<1>1. turned \in Int /\ 0 \in 0..(Digit - 1) /\ 0 \in Counts
  BY EncoderAssumption DEF EncoderInit, Positions, Counts
<1>2. EncoderTypeOK
  BY <1>1, EncoderAssumption DEF EncoderInit, EncoderTypeOK, Positions, Pins, Pin
<1> QED BY <1>1, <1>2 DEF EncoderInit, CountInv, Pins, Near, Positions, ReadWhole

LEMMA CountStep == CountInv /\ [EncoderNext]_encoderVars => CountInv'
<1> SUFFICES ASSUME CountInv, [EncoderNext]_encoderVars PROVE CountInv'
  OBVIOUS
<1>0. /\ turned \in Int /\ sampled \in Int /\ read1.at \in Int
      /\ origin \in Int /\ position \in Int
      /\ \A p \in Positions : p \in Int
  BY EncoderAssumption DEF CountInv, EncoderTypeOK, Positions, Counts
<1>1. CASE Turn
  <2>1. PICK p \in {turned - 1, turned + 1} \cap Positions :
           /\ Near(p, sampled)
           /\ isr = "pin2" => Near(p, read1.at)
           /\ turned' = p
           /\ pending' = pending \cup {n \in Pins : Pin(n, p) # Pin(n, turned)}
    BY <1>1 DEF Turn
  <2>2. UNCHANGED <<origin, isr, read1, state, position, sampled, reader>>
    BY <1>1 DEF Turn
  <2>3. EncoderTypeOK'
    BY <2>1, <2>2 DEF CountInv, EncoderTypeOK
  <2>4. isr' = "idle" => \A n \in Pins : Pin(n, turned') # Pin(n, sampled') => n \in pending'
    BY <2>1, <2>2 DEF CountInv
  <2>5. isr' = "pin2" => (Pin(1, turned') # read1'.level => 1 \in pending')
    BY <2>1, <2>2 DEF CountInv, Pins
  <2> QED BY <2>1, <2>2, <2>3, <2>4, <2>5 DEF CountInv, ReadWhole
<1>2. CASE Interrupt
  BY <1>2 DEF Interrupt, CountInv, EncoderTypeOK, ReadWhole
<1>3. CASE ReadPin1
  <2>1. EncoderTypeOK'
    BY <1>3 DEF ReadPin1, CountInv, EncoderTypeOK, Pin
  <2>2. Near(turned, turned)
    BY <1>0 DEF Near
  <2> QED BY <1>3, <2>1, <2>2 DEF ReadPin1, CountInv, ReadWhole
<1>4. CASE Update
  <2> DEFINE q == IF Pin(1, turned) = read1.level THEN turned ELSE read1.at
  <2>1. /\ q \in Int /\ q \in Positions /\ Near(q, sampled) /\ Near(turned, q)
    BY <1>0, <1>4 DEF Update, CountInv, EncoderTypeOK, Near
  <2>2. read1.level = Pin(1, q)
    BY <1>4 DEF Update, CountInv
  <2>3. Pin(2, turned) = Pin(2, q)
    <3>1. CASE Pin(1, turned) = read1.level
      BY <3>1
    <3>2. CASE Pin(1, turned) # read1.level
      <4>1. q = read1.at /\ q # turned /\ Pin(1, turned) # Pin(1, q)
        BY <3>2, <2>2
      <4> QED BY <4>1, <2>1, <1>0, OneEdge
    <3> QED BY <3>1, <3>2
  <2>4. state[1] = Pin(1, sampled) /\ state[2] = Pin(2, sampled)
    BY DEF CountInv, Pins
  <2>5. /\ position' = position + Count(Lookup(sampled, q))
        /\ state' = [n \in Pins |-> IF n = 1 THEN Pin(1, q) ELSE Pin(2, q)]
        /\ sampled' = q
    BY <1>4, <2>2, <2>3, <2>4 DEF Update, Lookup, Pins
  <2>6. Count(Lookup(sampled, q)) = q - sampled
    BY <1>0, <2>1, TableCounts
  <2>7. position' = q - origin /\ position' \in Counts
    BY <1>0, <2>1, <2>5, <2>6, EncoderAssumption DEF CountInv, EncoderTypeOK, Positions, Counts
  <2>8. UNCHANGED <<turned, origin, pending, read1, reader>> /\ isr' = "idle"
    BY <1>4 DEF Update
  <2>9. state' \in [Pins -> BOOLEAN] /\ \A n \in Pins : state'[n] = Pin(n, q)
    BY <2>5 DEF Pins, Pin
  <2>10. EncoderTypeOK'
    BY <2>1, <2>5, <2>7, <2>8, <2>9 DEF CountInv, EncoderTypeOK
  <2>11. \A n \in Pins : Pin(n, turned) # Pin(n, q) => n \in pending
    BY <1>4, <2>2, <2>3 DEF Update, CountInv, Pins
  <2>12. ~reader.reading
    BY <1>4 DEF Update, CountInv
  <2> QED BY <2>1, <2>5, <2>7, <2>8, <2>9, <2>10, <2>11, <2>12 DEF CountInv, ReadWhole
<1>5. CASE ReadBegins
  <2>1. position \in Int /\ position % Digit \in 0..(Digit - 1)
    BY <1>0, EncoderAssumption
  <2> QED BY <1>5, <2>1 DEF ReadBegins, CountInv, EncoderTypeOK, ReadWhole
<1>6. CASE ReadEnds
  <2>1. position % Digit \in Int
    BY <1>0, EncoderAssumption
  <2>2. (position - (position % Digit)) + reader.low = position
    BY <1>0, <1>6, <2>1 DEF ReadEnds, CountInv
  <2> QED BY <1>6, <2>2 DEF ReadEnds, CountInv, EncoderTypeOK, ReadWhole
<1>7. CASE UNCHANGED encoderVars
  BY <1>7 DEF encoderVars, CountInv, EncoderTypeOK, ReadWhole
<1> QED BY <1>1, <1>2, <1>3, <1>4, <1>5, <1>6, <1>7 DEF EncoderNext

-----------------------------------------------------------------------------

LEMMA CountInvariance == EncoderSpec => []CountInv
BY CountInit, CountStep, PTL DEF EncoderSpec

\* The count and what the interrupt works with stay in their ranges.
THEOREM EncoderTyped == EncoderSpec => []EncoderTypeOK
<1>1. CountInv => EncoderTypeOK
  BY DEF CountInv
<1> QED BY <1>1, CountInvariance, PTL

\* With no interrupt pending the count is where the wheel is: every edge has
\* been counted once, whatever came while the interrupt ran (Encoder.h:185).
THEOREM EveryEdgeCounted == EncoderSpec => []CountExact
<1>1. ASSUME CountInv PROVE CountExact
  <2> SUFFICES ASSUME isr = "idle", pending = {} PROVE position = turned - origin
    BY DEF CountExact
  <2>1. Pin(1, turned) = Pin(1, sampled) /\ Pin(2, turned) = Pin(2, sampled)
    BY <1>1 DEF CountInv, Pins
  <2>2. turned \in Int /\ sampled \in Int /\ Near(turned, sampled)
    BY <1>1, EncoderAssumption DEF CountInv, EncoderTypeOK, Positions
  <2>3. turned = sampled
    BY <2>1, <2>2, OneEdge
  <2> QED BY <1>1, <2>3 DEF CountInv
<1> QED BY <1>1, CountInvariance, PTL

\* The loop reads the count whole although it takes it in parts (Encoder.h:107).
THEOREM CountReadWhole == EncoderSpec => []ReadWhole
<1>1. CountInv => ReadWhole
  BY DEF CountInv
<1> QED BY <1>1, CountInvariance, PTL

-----------------------------------------------------------------------------
(* The types of all four, and their run.                                   *)

\* Every byte that the motor unit has still to write is one of a place it has.
LEMMA RxrTypes == ASSUME RxrAssumption PROVE RxrInv => RxrTypeOK
<1> SUFFICES ASSUME RxrInv PROVE RxrTypeOK
  OBVIOUS
<1>1. StateOK
  BY DEF RxrInv
<1> DEFINE Places == Locs \X {"low", "high"} \X (0..255)
<1>2. \A x \in Locs : \A h \in {"low", "high"} : \A b \in 0..255 : <<x, h, b>> \in Places
  OBVIOUS
<1>3. "channel" \in Locs /\ "driver" \in Locs /\ "sentinel" \in Locs
  BY DEF Locs
<1>4. /\ DefaultChannel \in AskedChannels /\ DefaultDriver \in AskedDrivers
      /\ Low(Sentinel) \in 0..255 /\ High(Sentinel) \in 0..255
      /\ \A c \in AskedChannels : Low(c) \in 0..255 /\ High(c) \in 0..255
      /\ \A d \in AskedDrivers : Low(d) \in 0..255 /\ High(d) \in 0..255
  BY Asked
<1> HIDE DEF Places
<1>5. \A c \in AskedChannels : ChannelHigh(c) \in Seq(Places) /\ ChannelLow(c) \in Seq(Places)
  <2>1. \A c \in AskedChannels : <<"channel", "high", High(c)>> \in Places
                               /\ <<"channel", "low", Low(c)>> \in Places
    BY <1>2, <1>3, <1>4
  <2> QED BY <2>1 DEF ChannelHigh, ChannelLow
<1>6. \A d \in AskedDrivers : DriverHigh(d) \in Seq(Places) /\ DriverLow(d) \in Seq(Places)
  <2>1. \A d \in AskedDrivers : <<"driver", "high", High(d)>> \in Places
                              /\ <<"driver", "low", Low(d)>> \in Places
    BY <1>2, <1>3, <1>4
  <2> QED BY <2>1 DEF DriverHigh, DriverLow
<1>7. /\ DefaultsFrom1 \in Seq(Places) /\ DefaultsFrom2 \in Seq(Places)
      /\ DefaultsFrom3 \in Seq(Places) /\ DefaultsFrom4 \in Seq(Places)
  <2>1. /\ <<"driver", "low", Low(DefaultDriver)>> \in Places
        /\ <<"driver", "high", High(DefaultDriver)>> \in Places
        /\ <<"sentinel", "low", Low(Sentinel)>> \in Places
        /\ <<"sentinel", "high", High(Sentinel)>> \in Places
        /\ <<"channel", "low", Low(DefaultChannel)>> \in Places
        /\ <<"channel", "high", High(DefaultChannel)>> \in Places
    BY <1>2, <1>3, <1>4
  <2> QED BY <2>1 DEF DefaultsFrom1, DefaultsFrom2, DefaultsFrom3, DefaultsFrom4
<1>8. <<>> \in Seq(Places)
  OBVIOUS
<1>9. todo \in Seq(Places)
  BY <1>5, <1>6, <1>7, <1>8 DEF RxrInv, AtRest, InChannel, InDriver, InDefaults
<1>10. \A i \in DOMAIN todo : todo[i] \in Places
  BY <1>9
<1> QED BY <1>1, <1>10 DEF RxrTypeOK, StateOK, Places

\* Each of the four, on its own or in the company of the others.
Each == Spec /\ EncoderSpec /\ WheelSpec /\ RxrSpec

\* A behaviour of the run is one of each of the four: the theorems are about it.
THEOREM RunOfEach == MCSpec => Each
<1>1. MCInit => Init /\ EncoderInit /\ WheelInit /\ RxrInit
  BY DEF MCInit
<1>2. ASSUME [MCNext]_mcVars
      PROVE  [Next]_vars /\ [EncoderNext]_encoderVars /\ [WheelNext]_wheelVars /\ [RxrNext]_rxrVars
  BY <1>2 DEF MCNext, mcVars, HandUnit, Of
<1> QED BY <1>1, <1>2, PTL DEF MCSpec, Each, Spec, EncoderSpec, WheelSpec, RxrSpec

\* The types of the four, for every layout of the EEPROM and every range.
THEOREM AllSettingsTyped == ASSUME RxrAssumption PROVE Each => []SettingsTypeOK
<1>1. SettingsInv => TypeOK
  <2> SUFFICES ASSUME SettingsInv PROVE TypeOK
    OBVIOUS
  <2>1. Typed
    BY DEF SettingsInv
  <2>2. job.op \in Ops /\ job.index \in Presets /\ job.todo \in Seq(Entries)
    BY <2>1 DEF Typed
  <2>3. \A i \in DOMAIN job.todo : job.todo[i] \in Entries
    BY <2>2
  <2> QED BY <2>1, <2>2, <2>3 DEF Typed, TypeOK, Entries
<1> QED
  BY <1>1, SettingsTyped, EncoderTyped, WheelTyped, RxrInvariance, RxrTypes, PTL DEF Each, SettingsTypeOK

=============================================================================
