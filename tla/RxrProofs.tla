----------------------------- MODULE RxrProofs -----------------------------
(***************************************************************************)
(* Safety of the receiver's motor controller, for every size of a step,    *)
(* every limit and every set of positions, speeds and accelerations.       *)
(***************************************************************************)
EXTENDS RxrController, TLAPS

-----------------------------------------------------------------------------
(* Arithmetic.                                                             *)

LEMMA ModFacts ==
  ASSUME NEW x \in Int, NEW m \in Nat \ {0}
  PROVE  /\ x % m \in 0..(m - 1)
         /\ x \div m \in Int
         /\ x = m * (x \div m) + (x % m)
OBVIOUS

\* (Named, so that the provers do not compute with the remainder.)
Multiple(x, m) == x % m = 0

LEMMA MultipleHas ==
  ASSUME NEW x \in Int, NEW m \in Nat \ {0}, Multiple(x, m)
  PROVE  \E q \in Int : x = m * q
<1>1. x \div m \in Int /\ x = m * (x \div m)
  BY ModFacts DEF Multiple
<1> QED
  BY <1>1

LEMMA MultipleIs ==
  ASSUME NEW m \in Nat \ {0}, NEW q \in Int
  PROVE  Multiple(m * q, m)
BY DEF Multiple

\* Sums and differences of multiples are multiples, and multiples of them too.
LEMMA MultipleSum ==
  ASSUME NEW m \in Nat \ {0}, NEW x \in Int, NEW y \in Int, Multiple(x, m), Multiple(y, m)
  PROVE  Multiple(x + y, m) /\ Multiple(x - y, m)
<1>1. PICK p \in Int : x = m * p
  BY MultipleHas
<1>2. PICK q \in Int : y = m * q
  BY MultipleHas
<1>3. /\ p + q \in Int /\ x + y = m * (p + q)
      /\ p - q \in Int /\ x - y = m * (p - q)
  BY <1>1, <1>2
<1>4. Multiple(m * (p + q), m) /\ Multiple(m * (p - q), m)
  BY <1>3, MultipleIs
<1> QED
  BY <1>3, <1>4

LEMMA MultipleTransitive ==
  ASSUME NEW m \in Nat \ {0}, NEW n \in Nat \ {0}, NEW x \in Int,
         Multiple(n, m), Multiple(x, n)
  PROVE  Multiple(x, m)
<1>1. PICK p \in Int : x = n * p
  BY MultipleHas
<1>2. PICK q \in Int : n = m * q
  BY MultipleHas
<1>3. q * p \in Int /\ x = m * (q * p)
  BY <1>1, <1>2
<1>4. Multiple(m * (q * p), m)
  BY <1>3, MultipleIs
<1> QED
  BY <1>3, <1>4

LEMMA ProductMonotonic ==
  ASSUME NEW m \in Nat, NEW p \in Int, NEW q \in Int, p <= q
  PROVE  m * p <= m * q
OBVIOUS

\* Two multiples of m are at least m apart.
LEMMA MultiplesApart ==
  ASSUME NEW m \in Nat \ {0}, NEW x \in Int, NEW y \in Int,
         Multiple(x, m), Multiple(y, m), x < y
  PROVE  x + m <= y
<1>1. PICK p \in Int : x = m * p
  BY MultipleHas
<1>2. PICK q \in Int : y = m * q
  BY MultipleHas
<1>3. p + 1 <= q
  <2> SUFFICES ASSUME q <= p PROVE FALSE
    BY <1>1
  <2> QED
    BY <1>1, <1>2, ProductMonotonic
<1>4. m * (p + 1) <= m * q
  BY <1>3, ProductMonotonic
<1> QED
  BY <1>1, <1>2, <1>4

\* Taking the remainder off leaves a multiple.
LEMMA MultipleBelow ==
  ASSUME NEW x \in Int, NEW m \in Nat \ {0}
  PROVE  x - (x % m) \in Int /\ Multiple(x - (x % m), m)
<1>1. x \div m \in Int /\ x - (x % m) = m * (x \div m) /\ x - (x % m) \in Int
  BY ModFacts
<1>2. Multiple(m * (x \div m), m)
  BY <1>1, MultipleIs
<1> QED
  BY <1>1, <1>2

-----------------------------------------------------------------------------
(* Stores cut in the middle.                                               *)

LEMMA Cuts ==
  /\ FixedOne \in Nat \ {0} /\ Byte \in Nat \ {0} /\ Multiple(FixedOne, Byte)
  /\ \A m \in Wide : m \in Nat \ {0} /\ m >= 2 * FixedOne /\ Multiple(m, FixedOne)
BY RxrAssumption DEF Multiple

LEMMA TornInt ==
  ASSUME NEW x \in Int, NEW v \in Int, NEW m \in Wide \cup {Byte}
  PROVE  Torn(x, v, m) \in Int
<1>1. m \in Nat \ {0}
  BY Cuts
<1>2. x % m \in Int /\ v % m \in Int
  BY <1>1, ModFacts
<1> QED
  BY <1>2 DEF Torn

\* Cut anywhere, a store of a whole step over one leaves a whole step.
LEMMA TornOnGrid ==
  ASSUME NEW x \in Int, NEW v \in Int, Multiple(x, FixedOne), Multiple(v, FixedOne),
         NEW m \in Wide \cup {Byte}
  PROVE  Multiple(Torn(x, v, m), FixedOne)
<1>1. CASE m = Byte
  <2>1. Multiple(x, Byte) /\ Multiple(v, Byte)
    BY Cuts, MultipleTransitive
  <2>2. Torn(x, v, m) = x
    BY <1>1, <2>1 DEF Torn, Multiple
  <2> QED
    BY <2>2
<1>2. CASE m \in Wide
  <2>1. m \in Nat \ {0} /\ Multiple(m, FixedOne) /\ FixedOne \in Nat \ {0}
    BY <1>2, Cuts
  <2>2. ASSUME NEW y \in Int, Multiple(y, FixedOne)
        PROVE  /\ y - (y % m) \in Int /\ Multiple(y - (y % m), FixedOne)
               /\ y % m \in Int /\ Multiple(y % m, FixedOne)
    <3> DEFINE low == y % m
    <3>1. low \in Int
      BY <2>1, ModFacts
    <3>2. y - low \in Int /\ Multiple(y - low, m)
      BY <2>1, MultipleBelow
    <3> HIDE DEF low
    <3>3. Multiple(y - low, FixedOne)
      BY <2>1, <3>2, MultipleTransitive
    <3>4. y - (y - low) = low
      BY <3>1
    <3>5. Multiple(y - (y - low), FixedOne)
      BY <2>1, <2>2, <3>2, <3>3, MultipleSum
    <3> QED
      BY <3>1, <3>2, <3>3, <3>4, <3>5 DEF low
  <2> DEFINE high == x - (x % m)
             low == v % m
  <2>3. /\ high \in Int /\ Multiple(high, FixedOne) /\ low \in Int /\ Multiple(low, FixedOne)
        /\ Torn(x, v, m) = high + low
    BY <2>2 DEF Torn
  <2> HIDE DEF high, low
  <2> QED
    BY <2>1, <2>3, MultipleSum
<1> QED
  BY <1>1, <1>2

\* A store of at most n over at most n leaves no more than n's bytes can hold
\* above the lowest, and any lowest byte.
LEMMA TornBounded ==
  ASSUME NEW n \in Nat, n <= FixedOne, NEW x \in 0..TornMax(n), NEW v \in 0..n,
         NEW m \in Wide \cup {Byte}
  PROVE  Torn(x, v, m) \in 0..TornMax(n)
<1> DEFINE top == Byte * (n \div Byte)
<1>1. Byte \in Nat \ {0}
  BY Cuts
<1>2. n \div Byte \in Int /\ n = top + (n % Byte) /\ n % Byte \in 0..(Byte - 1) /\ top \in Int
  BY <1>1, ModFacts
<1>3. TornMax(n) = top + Byte - 1
  BY <1>1 DEF TornMax
<1>4. Multiple(top, Byte)
  BY <1>1, <1>2, MultipleIs
<1> HIDE DEF top
<1>5. n <= TornMax(n) /\ TornMax(n) < n + Byte
  BY <1>1, <1>2, <1>3
<1>6. CASE m = Byte
  <2> DEFINE high == x - (x % Byte)
             rest == x % Byte
             low == v % Byte
  <2>1. /\ high \in Int /\ Multiple(high, Byte)
        /\ rest \in 0..(Byte - 1) /\ low \in 0..(Byte - 1) /\ x = high + rest
        /\ Torn(x, v, m) = high + low
    BY <1>1, <1>6, ModFacts, MultipleBelow DEF Torn
  <2> HIDE DEF high, rest, low
  <2>2. high <= top
    <3> SUFFICES ASSUME top < high PROVE FALSE
      BY <1>2, <2>1
    <3>1. top + Byte <= high
      BY <1>1, <1>2, <1>4, <2>1, MultiplesApart
    <3> QED
      BY <1>1, <1>2, <1>3, <2>1, <3>1
  <2>3. 0 <= high
    <3> SUFFICES ASSUME high < 0 PROVE FALSE
      BY <2>1
    <3>1. Multiple(0, Byte)
      BY <1>1, MultipleIs
    <3>2. high + Byte <= 0
      BY <1>1, <2>1, <3>1, MultiplesApart
    <3> QED
      BY <1>1, <2>1, <3>2
  <2> QED
    BY <1>1, <1>2, <1>3, <2>1, <2>2, <2>3
<1>7. CASE m \in Wide
  <2>1. m \in Nat \ {0} /\ x < m /\ v < m
    <3>1. m >= 2 * FixedOne /\ m \in Nat \ {0} /\ FixedOne \in Nat \ {0}
      BY <1>7, Cuts
    <3>2. Multiple(0, Byte)
      BY <1>1, MultipleIs
    <3>3. 0 + Byte <= FixedOne
      BY <1>1, <3>1, <3>2, Cuts, MultiplesApart
    <3> QED
      BY <1>1, <1>2, <1>3, <1>5, <3>1, <3>3
  <2>2. x % m = x /\ v % m = v
    BY <1>1, <1>2, <1>3, <2>1
  <2> QED
    BY <1>1, <1>2, <1>3, <1>5, <2>2 DEF Torn
<1> QED
  BY <1>6, <1>7

-----------------------------------------------------------------------------
(* The invariant.                                                          *)

\* What the loop is about to store: whole steps, and what it has clamped.
StepOps == {"wake_pins", "run_count", "target", "init_motor", "init_calculated", "init_target"}

JobFits ==
  /\ job.op \in StepOps => Multiple(job.val, FixedOne)
  /\ job.op = "max_speed" => job.val \in 0..FixedOne
  /\ job.op \in {"accel", "decel_denominator"} => job.val \in 0..MaxAccel

RxrInv == TypeOK /\ SpeedBounded /\ OnGrid /\ JobFits

LEMMA Sizes ==
  /\ FixedOne \in Nat \ {0} /\ Byte \in Nat \ {0} /\ MaxAccel \in Nat \ {0}
  /\ 2 * MaxAccel <= FixedOne /\ MaxAccel <= FixedOne /\ SleepThreshold \in Nat
  /\ SpeedMax \in Nat /\ FixedOne <= SpeedMax
  /\ TornMax(MaxAccel) \in Nat /\ MaxAccel <= TornMax(MaxAccel)
  /\ TornMax(MaxAccel) <= SpeedMax
  /\ TornMax(2 * MaxAccel) \in Nat /\ 2 * MaxAccel <= TornMax(2 * MaxAccel)
<1>1. /\ FixedOne \in Nat \ {0} /\ Byte \in Nat \ {0} /\ MaxAccel \in Nat \ {0}
      /\ 2 * MaxAccel <= FixedOne /\ MaxAccel <= FixedOne /\ SleepThreshold \in Nat
      /\ 2 * MaxAccel \in Nat
  BY RxrAssumption
<1>2. ASSUME NEW n \in Nat
      PROVE  TornMax(n) \in Nat /\ n <= TornMax(n) /\ TornMax(n) <= n + Byte - 1
  <2>1. n \div Byte \in Int /\ n = Byte * (n \div Byte) + (n % Byte) /\ n % Byte \in 0..(Byte - 1)
    BY <1>1, ModFacts
  <2> QED
    BY <1>1, <2>1 DEF TornMax
<1>3. SpeedMax = FixedOne + Byte - 1
  <2>1. FixedOne = Byte * (FixedOne \div Byte)
    <3>1. FixedOne = Byte * (FixedOne \div Byte) + (FixedOne % Byte)
      BY <1>1, ModFacts
    <3>2. FixedOne % Byte = 0
      BY RxrAssumption
    <3> QED
      BY <1>1, <3>1, <3>2
  <2> QED
    BY <1>1, <2>1 DEF SpeedMax, TornMax
<1>4. TornMax(FixedOne) = SpeedMax
  BY DEF SpeedMax
<1> QED
  BY <1>1, <1>2, <1>3

LEMMA RxrInit == Init => RxrInv
<1> SUFFICES ASSUME Init PROVE RxrInv
  OBVIOUS
<1>1. Multiple(0, FixedOne)
  BY Sizes DEF Multiple
<1>2. TypeOK
  <2>1. /\ direction \in BOOLEAN /\ sleeping \in BOOLEAN /\ initial_position_set \in BOOLEAN
        /\ awake \in BOOLEAN /\ dir_pin \in BOOLEAN
    BY Zenon DEF Init
  <2>2. /\ max_speed \in 0..SpeedMax /\ accel \in 0..TornMax(MaxAccel)
        /\ decel_denominator \in 0..TornMax(2 * MaxAccel)
    <3>1. max_speed = 1 /\ accel = 1 /\ decel_denominator = 2
      BY DEF Init
    <3> QED
      BY <3>1, Sizes
  <2>3. /\ velocity \in Int /\ calculated_position \in Int /\ motor_position \in Int
        /\ target_position \in Int /\ run_count \in 0..(SleepThreshold + 1)
    BY Sizes DEF Init
  <2>4. job \in [op : Ops, val : Int]
    BY DEF Init, Idle, Ops
  <2> QED
    BY <2>1, <2>2, <2>3, <2>4 DEF TypeOK
<1>3. SpeedBounded
  BY Sizes DEF Init, SpeedBounded, Speed, Sign
<1>4. OnGrid /\ JobFits
  BY <1>1 DEF Init, OnGrid, JobFits, StepOps, Idle, Multiple
<1> QED
  BY <1>2, <1>3, <1>4 DEF RxrInv

\* What one call of controller_run does to the motion.
LEMMA MotionKeeps ==
  ASSUME TypeOK, SpeedBounded, OnGrid, Motion
  PROVE  /\ direction' \in BOOLEAN /\ dir_pin' \in BOOLEAN
         /\ velocity' \in Int /\ calculated_position' \in Int /\ motor_position' \in Int
         /\ SpeedBounded'
         /\ Multiple(motor_position', FixedOne)
         /\ motor_position <= target_position => motor_position' <= target_position
         /\ motor_position >= target_position => motor_position' >= target_position
<1>1. /\ velocity \in Int /\ calculated_position \in Int /\ motor_position \in Int
      /\ target_position \in Int /\ accel \in 0..TornMax(MaxAccel) /\ max_speed \in 0..SpeedMax
      /\ direction \in BOOLEAN /\ dir_pin \in BOOLEAN
      /\ Speed \in 0..SpeedMax
      /\ Multiple(motor_position, FixedOne) /\ Multiple(target_position, FixedOne)
  BY DEF TypeOK, SpeedBounded, OnGrid, Multiple
<1>2. NewSpeed \in Int /\ NewSpeed <= SpeedMax /\ -NewSpeed <= SpeedMax
  BY <1>1, Sizes DEF NewSpeed, MinOf
<1>3. Sign \in {1, -1} /\ Sign = IF direction THEN 1 ELSE -1
  BY DEF Sign
<1>4. velocity' \in Int /\ calculated_position' \in Int
  BY <1>1, <1>2, <1>3 DEF Motion, NewCalculated
<1>5. direction' \in BOOLEAN /\ dir_pin' \in BOOLEAN
  BY <1>1, Zenon DEF Motion
<1>6. SpeedBounded'
  <2>1. CASE NewSpeed < 0
    <3>1. direction' = ~direction
      BY <2>1, Zenon DEF Motion
    <3>2. CASE direction
      <4>1. ~direction'
        BY <3>1, <3>2, Zenon
      <4>2. Sign = 1 /\ Sign' = -1
        BY <3>2, <4>1 DEF Sign
      <4>3. Speed' = -NewSpeed
        BY <1>2, <4>2 DEF Motion, Speed
      <4> QED
        BY <1>2, <2>1, <4>3, Sizes DEF SpeedBounded
    <3>3. CASE ~direction
      <4>1. direction'
        BY <3>1, <3>3, Zenon
      <4>2. Sign = -1 /\ Sign' = 1
        BY <3>3, <4>1 DEF Sign
      <4>3. Speed' = -NewSpeed
        BY <1>2, <4>2 DEF Motion, Speed
      <4> QED
        BY <1>2, <2>1, <4>3, Sizes DEF SpeedBounded
    <3> QED
      BY <3>2, <3>3
  <2>2. CASE ~(NewSpeed < 0)
    <3>1. Sign' = Sign
      BY <2>2 DEF Motion, Sign
    <3>2. Speed' = NewSpeed
      BY <1>2, <1>3, <3>1 DEF Motion, Speed
    <3> QED
      BY <1>2, <2>2, <3>2, Sizes DEF SpeedBounded
  <2> QED
    BY <2>1, <2>2
<1>7. CASE Pulse
  <2>1. motor_position' \in {motor_position + FixedOne, motor_position - FixedOne}
    BY <1>1, <1>3, <1>7, Sizes DEF Motion
  <2>2. motor_position' \in Int /\ Multiple(motor_position', FixedOne)
    <3>1. FixedOne \in Nat \ {0} /\ FixedOne \in Int /\ Multiple(FixedOne, FixedOne)
      BY Sizes DEF Multiple
    <3>2. /\ Multiple(motor_position + FixedOne, FixedOne)
          /\ Multiple(motor_position - FixedOne, FixedOne)
      BY <1>1, <3>1, MultipleSum
    <3>3. motor_position + FixedOne \in Int /\ motor_position - FixedOne \in Int
      BY <1>1, <3>1
    <3> QED
      BY <2>1, <3>2, <3>3
  <2>3. motor_position < target_position => motor_position + FixedOne <= target_position
    BY <1>1, MultiplesApart, Sizes
  <2>4. target_position < motor_position => target_position + FixedOne <= motor_position
    BY <1>1, MultiplesApart, Sizes
  <2>5. motor_position # target_position
    BY <1>7 DEF Pulse
  <2>6. /\ motor_position <= target_position => motor_position' <= target_position
        /\ motor_position >= target_position => motor_position' >= target_position
    BY <1>1, <2>1, <2>3, <2>4, <2>5, Sizes
  <2> QED
    BY <1>4, <1>5, <1>6, <2>2, <2>6
<1>8. CASE ~Pulse
  BY <1>1, <1>4, <1>5, <1>6, <1>8 DEF Motion
<1> QED
  BY <1>7, <1>8

LEMMA RunKeeps == RxrInv /\ Run => RxrInv'
<1> SUFFICES ASSUME TypeOK, SpeedBounded, OnGrid, JobFits, Run PROVE RxrInv'
  BY DEF RxrInv
<1>1. UNCHANGED <<tuneVars, target_position, initial_position_set, job>>
  BY DEF Run
<1>2. JobFits'
  BY <1>1 DEF JobFits
<1>3. CASE Motion
  <2>1. /\ direction' \in BOOLEAN /\ dir_pin' \in BOOLEAN
        /\ velocity' \in Int /\ calculated_position' \in Int /\ motor_position' \in Int
        /\ SpeedBounded' /\ Multiple(motor_position', FixedOne)
    BY <1>3, MotionKeeps
  <2>2. OnGrid'
    BY <1>1, <2>1 DEF OnGrid, Multiple
  <2>3. /\ run_count' \in 0..(SleepThreshold + 1)
        /\ sleeping' \in BOOLEAN /\ awake' \in BOOLEAN
    <3>1. sleeping \in BOOLEAN /\ awake \in BOOLEAN /\ run_count \in 0..(SleepThreshold + 1)
      BY DEF TypeOK
    <3>2. CASE RunMoving
      <4>1. run_count' = 0
        BY <3>2 DEF RunMoving
      <4>2. sleeping' \in BOOLEAN /\ awake' \in BOOLEAN
        BY <3>1, <3>2, Zenon DEF RunMoving
      <4> QED
        BY <4>1, <4>2, Sizes
    <3>3. CASE RunResting
      <4>1. run_count' \in 0..(SleepThreshold + 1)
        BY <3>1, <3>3, Sizes DEF RunResting
      <4>2. sleeping' \in BOOLEAN /\ awake' \in BOOLEAN
        BY <3>1, <3>3, Zenon DEF RunResting
      <4> QED
        BY <4>1, <4>2
    <3>4. CASE RunSleep
      <4>1. run_count' = 0
        BY <3>4 DEF RunSleep
      <4>2. sleeping' \in BOOLEAN /\ awake' \in BOOLEAN
        BY <3>4, Zenon DEF RunSleep
      <4> QED
        BY <4>1, <4>2, Sizes
    <3> QED
      BY <3>2, <3>3, <3>4 DEF Run
  <2>4. TypeOK'
    BY <1>1, <2>1, <2>3 DEF TypeOK, tuneVars
  <2> QED
    BY <1>2, <2>1, <2>2, <2>4 DEF RxrInv
<1>4. CASE ~Motion
  <2>1. RunSleep
    BY <1>4 DEF Run, RunMoving, RunResting
  <2>2. TypeOK'
    <3>1. sleeping' \in BOOLEAN /\ awake' \in BOOLEAN
      BY <2>1, Zenon DEF RunSleep
    <3>2. run_count' \in 0..(SleepThreshold + 1)
      BY <2>1, Sizes DEF RunSleep
    <3>3. UNCHANGED motionVars
      BY <2>1 DEF RunSleep
    <3> QED
      BY <1>1, <3>1, <3>2, <3>3 DEF motionVars, tuneVars, TypeOK
  <2>3. SpeedBounded' /\ OnGrid'
    BY <1>1, <2>1 DEF RunSleep, motionVars, SpeedBounded, Speed, Sign, OnGrid
  <2> QED
    BY <1>2, <2>2, <2>3 DEF RxrInv
<1> QED
  BY <1>3, <1>4

-----------------------------------------------------------------------------
(* The loop's steps.                                                       *)

\* A step that leaves the interrupt's motion alone keeps what is said of it.
LEMMA MotionStays ==
  ASSUME RxrInv, UNCHANGED motionVars
  PROVE  /\ SpeedBounded'
         /\ direction' \in BOOLEAN /\ dir_pin' \in BOOLEAN
         /\ velocity' \in Int /\ calculated_position' \in Int /\ motor_position' \in Int
         /\ Multiple(motor_position', FixedOne)
BY Zenon DEF RxrInv, TypeOK, motionVars, SpeedBounded, Speed, Sign, OnGrid, Multiple

LEMMA CommandKeeps == RxrInv /\ Command => RxrInv'
<1> SUFFICES ASSUME RxrInv, Command PROVE RxrInv'
  OBVIOUS
<1>1. TypeOK /\ SpeedBounded /\ OnGrid /\ JobFits
  BY DEF RxrInv
<1>2. UNCHANGED <<motionVars, tuneVars, run_count, target_position>>
  BY Zenon DEF Command, Move, Initialize, Uninitialize, SetSpeed, SetAccel, SetMotorDriver, sleepVars
<1>3. sleeping' \in BOOLEAN /\ awake' \in BOOLEAN /\ initial_position_set' \in BOOLEAN
  <2>1. sleeping' \in {sleeping, FALSE} /\ awake' \in {awake, TRUE}
        /\ initial_position_set' \in {initial_position_set, FALSE}
    BY Zenon DEF Command, Move, Initialize, Uninitialize, SetSpeed, SetAccel, SetMotorDriver, sleepVars
  <2> QED
    BY <1>1, <2>1, Zenon DEF TypeOK
<1>4. job' \in [op : Ops, val : Int] /\ JobFits'
  <2>1. ASSUME NEW p \in Positions, NEW op \in {"wake_pins", "init_motor"},
               job' = [op |-> op, val |-> p * FixedOne]
        PROVE  job' \in [op : Ops, val : Int] /\ JobFits'
    <3>1. p \in Int /\ FixedOne \in Int /\ p * FixedOne \in Int /\ p * FixedOne = FixedOne * p
      BY RxrAssumption
    <3>2. Multiple(FixedOne * p, FixedOne)
      BY <3>1, Sizes, MultipleIs
    <3>3. Multiple(p * FixedOne, FixedOne)
      BY <3>1, <3>2
    <3> QED
      BY <2>1, <3>1, <3>3 DEF Ops, JobFits, StepOps
  <2>2. ASSUME NEW v \in 0..FixedOne, job' = [op |-> "max_speed", val |-> v]
        PROVE  job' \in [op : Ops, val : Int] /\ JobFits'
    BY <2>2 DEF Ops, JobFits, StepOps
  <2>3. ASSUME NEW a \in 0..MaxAccel, job' = [op |-> "accel", val |-> a]
        PROVE  job' \in [op : Ops, val : Int] /\ JobFits'
    BY <2>3 DEF Ops, JobFits, StepOps
  <2>4. CASE Move
    BY <2>1, <2>4 DEF Move, Begin
  <2>5. CASE Initialize
    BY <2>1, <2>5 DEF Initialize, Begin
  <2>6. CASE SetSpeed
    <3>1. PICK v \in Speeds : job' = [op |-> "max_speed", val |-> Clamp(v, 1, FixedOne)]
      BY <2>6 DEF SetSpeed, Begin
    <3>2. Clamp(v, 1, FixedOne) \in 0..FixedOne
      BY RxrAssumption, Sizes DEF Clamp
    <3> QED
      BY <2>2, <3>1, <3>2
  <2>7. CASE SetAccel
    <3>1. PICK a \in Accels : job' = [op |-> "accel", val |-> Clamp(a, 1, MaxAccel)]
      BY <2>7 DEF SetAccel, Begin
    <3>2. Clamp(a, 1, MaxAccel) \in 0..MaxAccel
      BY RxrAssumption, Sizes DEF Clamp
    <3> QED
      BY <2>3, <3>1, <3>2
  <2>8. CASE UNCHANGED job
    BY <1>1, <2>8 DEF TypeOK, JobFits
  <2> QED
    BY <2>4, <2>5, <2>6, <2>7, <2>8 DEF Command, Uninitialize, SetMotorDriver
<1>5. TypeOK'
  BY <1>1, <1>2, <1>3, <1>4, MotionStays DEF TypeOK, tuneVars
<1>6. OnGrid'
  BY <1>1, <1>2, MotionStays DEF OnGrid, Multiple
<1> QED
  BY <1>2, <1>4, <1>5, <1>6, MotionStays DEF RxrInv

\* What a store leaves in its variable,
LEMMA Stored ==
  ASSUME NEW x, NEW xNew, NEW v, NEW next, StoreThen(x, xNew, v, next)
  PROVE  xNew = v \/ \E m \in Wide \cup {Byte} : xNew = Torn(x, v, m)
BY Zenon DEF StoreThen

\* when it is a position,
LEMMA StoredStep ==
  ASSUME NEW x \in Int, NEW xNew, NEW v \in Int, NEW next, StoreThen(x, xNew, v, next),
         Multiple(x, FixedOne), Multiple(v, FixedOne)
  PROVE  xNew \in Int /\ Multiple(xNew, FixedOne)
BY Stored, TornInt, TornOnGrid

LEMMA StoredInt ==
  ASSUME NEW x \in Int, NEW xNew, NEW v \in Int, NEW next, StoreThen(x, xNew, v, next)
  PROVE  xNew \in Int
BY Stored, TornInt

\* and when it is a number the loop has clamped.
LEMMA StoredBounded ==
  ASSUME NEW n \in Nat, n <= FixedOne, n <= TornMax(n), NEW x \in 0..TornMax(n),
         NEW xNew, NEW v \in 0..n, NEW next, StoreThen(x, xNew, v, next)
  PROVE  xNew \in 0..TornMax(n)
<1>1. xNew = v \/ \E m \in Wide \cup {Byte} : xNew = Torn(x, v, m)
  BY Stored
<1>2. ASSUME NEW m \in Wide \cup {Byte} PROVE Torn(x, v, m) \in 0..TornMax(n)
  BY TornBounded
<1>3. v \in 0..TornMax(n)
  <2>1. TornMax(n) \in Int
    BY Sizes, ModFacts DEF TornMax
  <2> QED
    BY <2>1
<1> QED
  BY <1>1, <1>2, <1>3

\* What it leaves to be done.
LEMMA JobGoesOn ==
  ASSUME TypeOK, JobFits, NEW op \in Ops,
         Then(op) \/ UNCHANGED job,
         \/ op = "idle"
         \/ job.op \in StepOps /\ op \in StepOps
         \/ job.op = "accel" /\ op = "decel_denominator"
  PROVE  job' \in [op : Ops, val : Int] /\ JobFits'
<1>1. CASE UNCHANGED job
  BY <1>1 DEF TypeOK, JobFits
<1>2. CASE Then(op) /\ op = "idle"
  BY <1>2 DEF Then, Idle, Ops, JobFits, StepOps
<1>3. CASE Then(op) /\ op # "idle"
  <2>1. job' = [op |-> op, val |-> job.val] /\ job.val \in Int
    BY <1>3 DEF Then, TypeOK
  <2> QED
    BY <1>3, <2>1 DEF JobFits, StepOps, Ops
<1> QED
  BY <1>1, <1>2, <1>3

LEMMA ContinueKeeps == RxrInv /\ Continue => RxrInv'
<1> SUFFICES ASSUME RxrInv, Continue PROVE RxrInv'
  OBVIOUS
<1>1. TypeOK /\ SpeedBounded /\ OnGrid /\ JobFits
  BY DEF RxrInv
<1>2. /\ motor_position \in Int /\ Multiple(motor_position, FixedOne)
      /\ target_position \in Int /\ Multiple(target_position, FixedOne)
      /\ calculated_position \in Int /\ job.val \in Int
      /\ max_speed \in 0..SpeedMax /\ accel \in 0..TornMax(MaxAccel)
      /\ decel_denominator \in 0..TornMax(2 * MaxAccel)
      /\ run_count \in 0..(SleepThreshold + 1)
  BY <1>1 DEF TypeOK, OnGrid, Multiple
<1>3. /\ direction \in BOOLEAN /\ dir_pin \in BOOLEAN /\ sleeping \in BOOLEAN /\ awake \in BOOLEAN
      /\ initial_position_set \in BOOLEAN
  BY <1>1 DEF TypeOK
<1>4. job.op \in StepOps => Multiple(job.val, FixedOne)
  BY <1>1 DEF JobFits
<1>5. CASE MoveWakePins
  <2>1. UNCHANGED <<motionVars, tuneVars, run_count, sleeping, target_position,
                    initial_position_set>>
    BY <1>5 DEF MoveWakePins
  <2>2. job' \in [op : Ops, val : Int] /\ JobFits'
    BY <1>1, <1>5, JobGoesOn DEF MoveWakePins, StepOps, Ops
  <2>3. awake' \in BOOLEAN
    BY <1>5, Zenon DEF MoveWakePins
  <2> QED
    BY <1>1, <2>1, <2>2, <2>3, MotionStays DEF RxrInv, TypeOK, OnGrid, Multiple, tuneVars
<1>6. CASE MoveRunCount
  <2>1. UNCHANGED <<motionVars, tuneVars, sleeping, awake, target_position, initial_position_set>>
    BY <1>6 DEF MoveRunCount
  <2>2. job' \in [op : Ops, val : Int] /\ JobFits'
    BY <1>1, <1>6, JobGoesOn DEF MoveRunCount, StepOps, Ops
  <2>3. run_count' \in 0..(SleepThreshold + 1)
    BY <1>6, Sizes DEF MoveRunCount
  <2> QED
    BY <1>1, <2>1, <2>2, <2>3, MotionStays DEF RxrInv, TypeOK, OnGrid, Multiple, tuneVars
<1>7. CASE MoveTarget
  <2>1. UNCHANGED <<motionVars, tuneVars, sleepVars, initial_position_set>>
    BY <1>7 DEF MoveTarget
  <2>2. job' \in [op : Ops, val : Int] /\ JobFits'
    BY <1>1, <1>7, JobGoesOn DEF MoveTarget, StoreThen, Ops
  <2>3. target_position' \in Int /\ Multiple(target_position', FixedOne)
    BY <1>2, <1>4, <1>7, StoredStep DEF MoveTarget, StepOps
  <2> QED
    BY <1>1, <2>1, <2>2, <2>3, MotionStays DEF RxrInv, TypeOK, OnGrid, Multiple, tuneVars, sleepVars
<1>8. CASE InitializeMotor
  <2>1. UNCHANGED <<direction, velocity, calculated_position, dir_pin, tuneVars, sleepVars,
                    target_position, initial_position_set>>
    BY <1>8 DEF InitializeMotor
  <2>2. job' \in [op : Ops, val : Int] /\ JobFits'
    BY <1>1, <1>8, JobGoesOn DEF InitializeMotor, StoreThen, StepOps, Ops
  <2>3. motor_position' \in Int /\ Multiple(motor_position', FixedOne)
    BY <1>2, <1>4, <1>8, StoredStep DEF InitializeMotor, StepOps
  <2>4. TypeOK'
    BY <1>1, <2>1, <2>2, <2>3 DEF TypeOK, tuneVars, sleepVars
  <2>5. OnGrid' /\ SpeedBounded'
    BY <1>1, <2>1, <2>3 DEF OnGrid, Multiple, SpeedBounded, Speed, Sign
  <2> QED
    BY <2>2, <2>4, <2>5 DEF RxrInv
<1>9. CASE InitializeCalculated
  <2>1. UNCHANGED <<direction, velocity, motor_position, dir_pin, tuneVars, sleepVars,
                    target_position, initial_position_set>>
    BY <1>9 DEF InitializeCalculated
  <2>2. job' \in [op : Ops, val : Int] /\ JobFits'
    BY <1>1, <1>9, JobGoesOn DEF InitializeCalculated, StoreThen, StepOps, Ops
  <2>3. calculated_position' \in Int
    BY <1>2, <1>9, StoredInt DEF InitializeCalculated
  <2>4. TypeOK'
    BY <1>1, <2>1, <2>2, <2>3 DEF TypeOK, tuneVars, sleepVars
  <2>5. OnGrid' /\ SpeedBounded'
    BY <1>1, <2>1 DEF OnGrid, SpeedBounded, Speed, Sign
  <2> QED
    BY <2>2, <2>4, <2>5 DEF RxrInv
<1>10. CASE InitializeTarget
  <2>1. UNCHANGED <<motionVars, tuneVars, sleepVars>>
    BY <1>10 DEF InitializeTarget
  <2>2. job' \in [op : Ops, val : Int] /\ JobFits'
    BY <1>1, <1>10, JobGoesOn DEF InitializeTarget, StoreThen, Ops
  <2>3. target_position' \in Int /\ Multiple(target_position', FixedOne)
    BY <1>2, <1>4, <1>10, StoredStep DEF InitializeTarget, StepOps
  <2>4. initial_position_set' \in BOOLEAN
    BY <1>10, Zenon DEF InitializeTarget
  <2> QED
    BY <1>1, <2>1, <2>2, <2>3, <2>4, MotionStays
    DEF RxrInv, TypeOK, OnGrid, Multiple, tuneVars, sleepVars
<1>11. CASE SetSpeedStore
  <2>1. UNCHANGED <<motionVars, accel, decel_denominator, sleepVars, target_position,
                    initial_position_set>>
    BY <1>11 DEF SetSpeedStore
  <2>2. job' \in [op : Ops, val : Int] /\ JobFits'
    BY <1>1, <1>11, JobGoesOn DEF SetSpeedStore, StoreThen, Ops
  <2>3. max_speed' \in 0..SpeedMax
    <3>1. TornMax(FixedOne) = SpeedMax
      BY DEF SpeedMax
    <3>2. job.val \in 0..FixedOne /\ StoreThen(max_speed, max_speed', job.val, "idle")
      BY <1>1, <1>11 DEF SetSpeedStore, JobFits
    <3>3. FixedOne \in Nat /\ FixedOne <= FixedOne /\ FixedOne <= TornMax(FixedOne)
      BY <3>1, Sizes
    <3> QED
      BY <1>2, <3>1, <3>2, <3>3, StoredBounded
  <2> QED
    BY <1>1, <2>1, <2>2, <2>3, MotionStays DEF RxrInv, TypeOK, OnGrid, Multiple, sleepVars
<1>12. CASE SetAccelStore
  <2>1. UNCHANGED <<motionVars, max_speed, decel_denominator, sleepVars, target_position,
                    initial_position_set>>
    BY <1>12 DEF SetAccelStore
  <2>2. job' \in [op : Ops, val : Int] /\ JobFits'
    BY <1>1, <1>12, JobGoesOn DEF SetAccelStore, StoreThen, Ops
  <2>3. accel' \in 0..TornMax(MaxAccel)
    <3>1. job.val \in 0..MaxAccel /\ StoreThen(accel, accel', job.val, "decel_denominator")
      BY <1>1, <1>12 DEF SetAccelStore, JobFits
    <3>2. MaxAccel \in Nat /\ MaxAccel <= FixedOne /\ MaxAccel <= TornMax(MaxAccel)
      BY Sizes
    <3> QED
      BY <1>2, <3>1, <3>2, StoredBounded
  <2> QED
    BY <1>1, <2>1, <2>2, <2>3, MotionStays DEF RxrInv, TypeOK, OnGrid, Multiple, sleepVars
<1>13. CASE SetAccelDenominator
  <2>1. UNCHANGED <<motionVars, max_speed, accel, sleepVars, target_position,
                    initial_position_set>>
    BY <1>13 DEF SetAccelDenominator
  <2>2. job' \in [op : Ops, val : Int] /\ JobFits'
    BY <1>1, <1>13, JobGoesOn DEF SetAccelDenominator, StoreThen, Ops
  <2>3. decel_denominator' \in 0..TornMax(2 * MaxAccel)
    <3> DEFINE n == 2 * MaxAccel
               v == 2 * job.val
    <3>1. n \in Nat /\ n <= FixedOne /\ n <= TornMax(n)
      BY Sizes
    <3>2. job.val \in 0..MaxAccel /\ StoreThen(decel_denominator, decel_denominator', v, "idle")
      BY <1>1, <1>13 DEF SetAccelDenominator, JobFits
    <3>3. v \in 0..n
      BY <3>2, Sizes
    <3>4. decel_denominator \in 0..TornMax(n)
      BY <1>2
    <3> HIDE DEF v, n
    <3>5. decel_denominator' \in 0..TornMax(n)
      BY <3>1, <3>2, <3>3, <3>4, StoredBounded
    <3> QED
      BY <3>5 DEF n
  <2> QED
    BY <1>1, <2>1, <2>2, <2>3, MotionStays DEF RxrInv, TypeOK, OnGrid, Multiple, sleepVars
<1> QED
  BY <1>5, <1>6, <1>7, <1>8, <1>9, <1>10, <1>11, <1>12, <1>13 DEF Continue

LEMMA StutterKeeps == RxrInv /\ UNCHANGED vars => RxrInv'
<1> SUFFICES ASSUME RxrInv, UNCHANGED vars PROVE RxrInv'
  OBVIOUS
<1>1. TypeOK' /\ OnGrid' /\ JobFits'
  BY DEF RxrInv, TypeOK, OnGrid, JobFits, vars, motionVars, tuneVars, sleepVars
<1>2. SpeedBounded'
  BY MotionStays DEF vars
<1> QED
  BY <1>1, <1>2 DEF RxrInv

THEOREM RxrInvariant == Spec => []RxrInv
<1>1. RxrInv /\ [Next]_vars => RxrInv'
  BY RunKeeps, CommandKeeps, ContinueKeeps, StutterKeeps DEF Next
<1> QED
  BY <1>1, RxrInit, PTL DEF Spec

-----------------------------------------------------------------------------
(* The theorems.                                                           *)

\* The controller's variables stay in their types and their bounds, wherever
\* the interrupt cuts the loop's stores (controller.h:6).
THEOREM ControllerTyped == Spec => []TypeOK
<1>1. RxrInv => TypeOK
  BY DEF RxrInv
<1> QED
  BY <1>1, RxrInvariant, PTL

\* The speed never points against the direction, and its square never
\* overflows the product controller_get_decel_threshold takes of it
\* (controller.cpp:109).
THEOREM SpeedIsBounded == Spec => []SpeedBounded
<1>1. RxrInv => SpeedBounded
  BY DEF RxrInv
<1> QED
  BY <1>1, RxrInvariant, PTL

\* The motor's position and its target are whole steps, in the middle of a
\* store of them too, so that the tests for equality (controller.cpp:193, 232)
\* can hold.
THEOREM StaysOnGrid == Spec => []OnGrid
<1>1. RxrInv => OnGrid
  BY DEF RxrInv
<1> QED
  BY <1>1, RxrInvariant, PTL

\* No call of controller_run steps the motor across its target, at any speed,
\* acceleration and position, the torn ones included.
THEOREM TargetIsNotCrossed == Spec => NeverCrosses
<1> DEFINE Kept == /\ motor_position <= target_position => motor_position' <= target_position
                   /\ motor_position >= target_position => motor_position' >= target_position
<1>1. RxrInv /\ Run => Kept
  <2> SUFFICES ASSUME TypeOK, SpeedBounded, OnGrid, Run PROVE Kept
    BY DEF RxrInv
  <2>1. CASE Motion
    BY <2>1, MotionKeeps
  <2>2. CASE ~Motion
    <3>1. motor_position' = motor_position
      BY <2>2 DEF Run, RunMoving, RunResting, RunSleep, motionVars
    <3> QED
      BY <3>1
  <2> QED
    BY <2>1, <2>2
<1>2. RxrInv /\ [Next]_vars => [Run => Kept]_vars
  BY <1>1
<1> QED
  BY <1>2, RxrInvariant, PTL DEF Spec, NeverCrosses

=============================================================================
