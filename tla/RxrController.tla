--------------------------- MODULE RxrController ---------------------------
(***************************************************************************)
(* The motor controller of the receiver (Rxr/controller.cpp), with the     *)
(* motor driver's pins (Rxr/motor.cpp).                                    *)
(*                                                                         *)
(* The timer interrupt, 6000 times a second, runs controller_run as one    *)
(* action, Run.  The loop calls the other functions on behalf of the radio *)
(* and the serial console with interrupts enabled, so they are cut between *)
(* the stores that the interrupt acts on differently.  A 32-bit store of a *)
(* position is itself four: the build writes the low byte first, and the   *)
(* interrupt may find the low part new and the high part old.              *)
(*                                                                         *)
(* Two are one step all the same, as cut they leave what an interrupt      *)
(* before them leaves: the four zero bytes of run_count, and the pins of   *)
(* controller_set_motor_driver, which wakes the driver last.               *)
(*                                                                         *)
(* Positions are fixed-point: a step of the motor is FixedOne.             *)
(***************************************************************************)
EXTENDS Integers

CONSTANTS
  FixedOne,         \* FIXED_ONE
  MaxAccel,         \* the upper limit controller_set_accel imposes
  SleepThreshold,   \* MOTOR_SLEEP_THRESHOLD, in calls of controller_run
  Byte, Wide,       \* where a store can be cut: after one byte, after more
  Positions,        \* the positions asked for, in steps
  Speeds, Accels    \* the speeds and accelerations asked for

ASSUME RxrAssumption ==
  /\ FixedOne \in Nat \ {0}
  /\ Byte \in Nat \ {0}
  /\ FixedOne % Byte = 0
  /\ Wide \subseteq Nat
  /\ \A m \in Wide : m >= 2 * FixedOne /\ m % FixedOne = 0
  /\ MaxAccel \in Nat \ {0}
  /\ 2 * MaxAccel <= FixedOne
  /\ SleepThreshold \in Nat
  /\ Positions \subseteq Int
  /\ Speeds \subseteq Int
  /\ Accels \subseteq Int

VARIABLES
  \* controller_state_t
  direction, max_speed, accel, decel_denominator, velocity,
  calculated_position, motor_position, target_position,
  run_count, sleeping, initial_position_set,
  \* the pins: the selected driver is awake; it turns forward
  awake, dir_pin,
  \* what the loop is in the middle of, and the value it stores
  job

Idle == [op |-> "idle", val |-> 0]

motionVars == <<direction, velocity, calculated_position, motor_position, dir_pin>>
tuneVars   == <<max_speed, accel, decel_denominator>>
sleepVars  == <<run_count, sleeping, awake>>
vars == <<motionVars, tuneVars, sleepVars, target_position, initial_position_set, job>>

Ops == {"idle", "wake_pins", "run_count", "target", "init_motor", "init_calculated",
        "init_target", "max_speed", "accel", "decel_denominator"}

\* The largest value the stores of values up to n, cut in the middle, can leave
\* behind: the high bytes of n, and any low byte.
TornMax(n) == Byte * (n \div Byte) + Byte - 1

SpeedMax == TornMax(FixedOne)

TypeOK ==
  /\ direction \in BOOLEAN
  /\ max_speed \in 0..SpeedMax
  /\ accel \in 0..TornMax(MaxAccel)
  /\ decel_denominator \in 0..TornMax(2 * MaxAccel)
  /\ velocity \in Int
  /\ calculated_position \in Int
  /\ motor_position \in Int
  /\ target_position \in Int
  /\ run_count \in 0..(SleepThreshold + 1)
  /\ sleeping \in BOOLEAN
  /\ initial_position_set \in BOOLEAN
  /\ awake \in BOOLEAN
  /\ dir_pin \in BOOLEAN
  /\ job \in [op : Ops, val : Int]

\* After setup(): the last call but the timer's is controller_set_motor_driver,
\* which wakes the driver.  Nothing has set the direction pin.
Init ==
  /\ direction = TRUE
  /\ max_speed = 1
  /\ accel = 1
  /\ decel_denominator = 2
  /\ velocity = 0
  /\ calculated_position = 0
  /\ motor_position = 0
  /\ target_position = 0
  /\ run_count = 0
  /\ sleeping = TRUE
  /\ initial_position_set = FALSE
  /\ awake = TRUE
  /\ dir_pin = FALSE
  /\ job = Idle

-----------------------------------------------------------------------------
(* The interrupt, controller_run.  Its two halves mirror each other: here   *)
(* everything is measured along the direction of motion.                    *)

Sign == IF direction THEN 1 ELSE -1

Speed == Sign * velocity

Ahead == Sign * (target_position - calculated_position)

steps_to_go == IF Ahead < 0 THEN -Ahead ELSE Ahead

\* controller_get_decel_threshold; the division by 0 gives -1 on this target.
decel_threshold ==
  IF decel_denominator = 0 THEN -1
  ELSE (((velocity * velocity) \div FixedOne) * FixedOne) \div decel_denominator

MinOf(a, b) == IF a < b THEN a ELSE b

\* (Mutants) The speed is not limited; the motion brakes once past its target.
NewSpeedUnlimited ==
  IF Ahead < 0 \/ steps_to_go <= decel_threshold THEN Speed - accel
  ELSE IF Ahead > 0 THEN Speed + accel
  ELSE Speed

NewSpeedLate ==
  IF Ahead < 0 THEN Speed - accel
  ELSE IF Ahead > 0 THEN MinOf(Speed + accel, max_speed)
  ELSE Speed

NewSpeed ==
  IF Ahead < 0 \/ steps_to_go <= decel_threshold THEN Speed - accel
  ELSE IF Ahead > 0 THEN MinOf(Speed + accel, max_speed)
  ELSE Speed

NewCalculated == calculated_position + Sign * NewSpeed

\* (Mutant) The motor goes wherever the calculated position leads.
PulseOver == Sign * (NewCalculated - motor_position) > 0

\* The motor follows, one step at a call, and stops at the target.
Pulse ==
  /\ motor_position # target_position
  /\ Sign * (NewCalculated - motor_position) > 0

Motion ==
  /\ velocity' = Sign * NewSpeed
  /\ calculated_position' = NewCalculated
  /\ motor_position' = IF Pulse THEN motor_position + Sign * FixedOne ELSE motor_position
  /\ IF NewSpeed < 0
     THEN direction' = ~direction /\ dir_pin' = ~direction
     ELSE UNCHANGED <<direction, dir_pin>>

\* controller_try_sleep, and the motion unless it says to sleep.
RunMoving ==
  /\ motor_position # target_position
  /\ run_count' = 0
  /\ Motion
  /\ UNCHANGED <<sleeping, awake>>

\* (Mutant) Rests a call too long.
RunRestingLonger ==
  /\ motor_position = target_position
  /\ ~sleeping
  /\ run_count <= SleepThreshold + 1
  /\ run_count' = run_count + 1
  /\ Motion
  /\ UNCHANGED <<sleeping, awake>>

RunResting ==
  /\ motor_position = target_position
  /\ ~sleeping
  /\ run_count <= SleepThreshold
  /\ run_count' = run_count + 1
  /\ Motion
  /\ UNCHANGED <<sleeping, awake>>

RunSleep ==
  /\ motor_position = target_position
  /\ ~sleeping
  /\ run_count > SleepThreshold
  /\ run_count' = 0
  /\ sleeping' = TRUE
  /\ awake' = FALSE
  /\ UNCHANGED motionVars

Run ==
  /\ RunMoving \/ RunResting \/ RunSleep
  /\ UNCHANGED <<tuneVars, target_position, initial_position_set, job>>

-----------------------------------------------------------------------------
(* The loop.                                                                *)

Clamp(x, low, high) == IF x < low THEN low ELSE IF x > high THEN high ELSE x

\* What memory holds when the part of `new` below m has replaced `old`'s.
Torn(old, new, m) == old - (old % m) + (new % m)

Begin(op, val) == job = Idle /\ job' = [op |-> op, val |-> val]

\* The job goes on with the next store, or with this one.
Then(op) == job' = IF op = "idle" THEN Idle ELSE [job EXCEPT !.op = op]

\* A store to x of the value v: the first bytes, or the last ones.
StoreThen(x, xNew, v, next) ==
  \/ xNew = v /\ Then(next)
  \/ \E m \in Wide \cup {Byte} : xNew = Torn(x, v, m) /\ UNCHANGED job

\* (Mutant) The position is not converted to fixed point.
MoveUnconverted ==
  /\ initial_position_set
  /\ \E p \in Positions :
       /\ p # target_position
       /\ Begin("wake_pins", p)
  /\ sleeping' = FALSE
  /\ UNCHANGED <<motionVars, tuneVars, run_count, awake, target_position,
                 initial_position_set>>

\* PACKET_TARGET_POSITION_SET, SERIAL_TARGET_POSITION_SET once initialised:
\* controller_move_to_position, whose first store is _controller_wake_up's.
Move ==
  /\ initial_position_set
  /\ \E p \in Positions :
       /\ p * FixedOne # target_position
       /\ Begin("wake_pins", p * FixedOne)
  /\ sleeping' = FALSE
  /\ UNCHANGED <<motionVars, tuneVars, run_count, awake, target_position,
                 initial_position_set>>

MoveWakePins ==
  /\ job.op = "wake_pins"
  /\ awake' = TRUE
  /\ Then("run_count")
  /\ UNCHANGED <<motionVars, tuneVars, run_count, sleeping, target_position,
                 initial_position_set>>

MoveRunCount ==
  /\ job.op = "run_count"
  /\ run_count' = 0
  /\ Then("target")
  /\ UNCHANGED <<motionVars, tuneVars, sleeping, awake, target_position,
                 initial_position_set>>

MoveTarget ==
  /\ job.op = "target"
  /\ StoreThen(target_position, target_position', job.val, "idle")
  /\ UNCHANGED <<motionVars, tuneVars, sleepVars, initial_position_set>>

\* The same messages before that: controller_initialize_position.
Initialize ==
  /\ ~initial_position_set
  /\ \E p \in Positions : Begin("init_motor", p * FixedOne)
  /\ UNCHANGED <<motionVars, tuneVars, sleepVars, target_position, initial_position_set>>

InitializeMotor ==
  /\ job.op = "init_motor"
  /\ StoreThen(motor_position, motor_position', job.val, "init_calculated")
  /\ UNCHANGED <<direction, velocity, calculated_position, dir_pin, tuneVars, sleepVars,
                 target_position, initial_position_set>>

InitializeCalculated ==
  /\ job.op = "init_calculated"
  /\ StoreThen(calculated_position, calculated_position', job.val, "init_target")
  /\ UNCHANGED <<direction, velocity, motor_position, dir_pin, tuneVars, sleepVars,
                 target_position, initial_position_set>>

InitializeTarget ==
  /\ job.op = "init_target"
  /\ StoreThen(target_position, target_position', job.val, "idle")
  /\ initial_position_set' = (job' = Idle)
  /\ UNCHANGED <<motionVars, tuneVars, sleepVars>>

\* PACKET_RE_INIT_POSITION: controller_uninitialize_position.
Uninitialize ==
  /\ job = Idle
  /\ initial_position_set' = FALSE
  /\ UNCHANGED <<motionVars, tuneVars, sleepVars, target_position, job>>

\* controller_set_speed
SetSpeed ==
  /\ \E v \in Speeds : Begin("max_speed", Clamp(v, 1, FixedOne))
  /\ UNCHANGED <<motionVars, tuneVars, sleepVars, target_position, initial_position_set>>

SetSpeedStore ==
  /\ job.op = "max_speed"
  /\ StoreThen(max_speed, max_speed', job.val, "idle")
  /\ UNCHANGED <<motionVars, accel, decel_denominator, sleepVars, target_position,
                 initial_position_set>>

\* controller_set_accel
SetAccel ==
  /\ \E a \in Accels : Begin("accel", Clamp(a, 1, MaxAccel))
  /\ UNCHANGED <<motionVars, tuneVars, sleepVars, target_position, initial_position_set>>

SetAccelStore ==
  /\ job.op = "accel"
  /\ StoreThen(accel, accel', job.val, "decel_denominator")
  /\ UNCHANGED <<motionVars, max_speed, decel_denominator, sleepVars, target_position,
                 initial_position_set>>

SetAccelDenominator ==
  /\ job.op = "decel_denominator"
  /\ StoreThen(decel_denominator, decel_denominator', 2 * job.val, "idle")
  /\ UNCHANGED <<motionVars, max_speed, accel, sleepVars, target_position,
                 initial_position_set>>

\* controller_set_motor_driver: either driver is selected awake.
SetMotorDriver ==
  /\ job = Idle
  /\ awake' = TRUE
  /\ UNCHANGED <<motionVars, tuneVars, run_count, sleeping, target_position,
                 initial_position_set, job>>

Command == Move \/ Initialize \/ Uninitialize \/ SetSpeed \/ SetAccel \/ SetMotorDriver

Continue ==
  \/ MoveWakePins \/ MoveRunCount \/ MoveTarget
  \/ InitializeMotor \/ InitializeCalculated \/ InitializeTarget
  \/ SetSpeedStore \/ SetAccelStore \/ SetAccelDenominator

Next == Run \/ Command \/ Continue

Spec == Init /\ [][Next]_vars

\* Those of its behaviours in which the timer, slow beside the loop's stores,
\* interrupts them once at most: when the controller is due to sleep.
SwiftSpec == Init /\ [][(Run /\ (job = Idle \/ run_count > SleepThreshold)) \/ Command \/ Continue]_vars

\* The timer keeps interrupting, and the loop finishes what it began.
FairSpec == Spec /\ WF_vars(Run) /\ WF_vars(Continue)

-----------------------------------------------------------------------------
(* Properties.                                                             *)

\* The speed never points against the direction, and never exceeds one step a
\* call by more than a torn max_speed can make it: its square, which
\* controller_get_decel_threshold takes, fits 32 bits (controller.cpp:109).
SpeedBounded == Speed \in 0..SpeedMax

\* The motor and its target are whole steps, in the middle of a store too: the
\* motor stops by the test for equality (controller.cpp:193, 232).
OnGrid == motor_position % FixedOne = 0 /\ target_position % FixedOne = 0

\* However fast it is, the motor does not step across its target ("make sure
\* we don't go over target", test/motorcontrollertests.cpp:55).
NeverCrosses ==
  [][Run => /\ motor_position <= target_position => motor_position' <= target_position
            /\ motor_position >= target_position => motor_position' >= target_position]_vars

\* When nothing more is asked of it, the motor comes to its target, whatever
\* was asked before, and the controller sleeps.
ComesToRest ==
  <>[](job = Idle) => <>[](motor_position = target_position /\ sleeping)

\* The test HitsItsTarget (test/motorcontrollertests.cpp:60) counts the steps
\* in the direction last set, from forward on: a step turns the shaft the way
\* the controller accounts for it,
PulsesForward ==
  [][Run /\ motor_position' # motor_position => dir_pin = direction]_vars

\* and the driver is awake to turn it.
PulsesAwake ==
  [][Run /\ motor_position' # motor_position => awake]_vars

=============================================================================
