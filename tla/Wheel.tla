-------------------------------- MODULE Wheel --------------------------------
(***************************************************************************)
(* The wheel of the calibrated hand unit sets the maximum speed or the     *)
(* maximum acceleration (Txr/ao_Txr.cpp).  A click changes a high speed by *)
(* more, and a high acceleration is stored as a multiple of what it is on  *)
(* the wheel (Txr/settings.cpp); the host and the presets set both, too.   *)
(***************************************************************************)
EXTENDS Integers

CONSTANTS
  MaxSpeed,       \* 32768
  SpeedPerFactor, \* 64: the speed over this is what a step changes it by,
  MaxFactor,      \* 128: up to this
  ENCODER_STEPS_PER_CLICK,
  MaxClicks,      \* 32: the wheel's highest acceleration
  DefaultAccel,   \* DEFAULT_MAX_ACCEL * 4, as it is stored
  Speeds, HostClicks,  \* what the host sets
  PresetAccels,   \* the accelerations that the other presets hold, on the wheel
  MaxDelta        \* the steps between two timeouts (a bound)

ASSUME WheelAssumption ==
  /\ MaxSpeed \in Nat \ {0} /\ SpeedPerFactor \in Nat \ {0} /\ MaxFactor \in Nat \ {0}
  /\ MaxClicks \in Nat \ {0}
  /\ ENCODER_STEPS_PER_CLICK = 4 /\ DefaultAccel = 128
  /\ Speeds \subseteq Nat
  /\ HostClicks \subseteq Int /\ PresetAccels \subseteq Int
  /\ MaxDelta \in Nat

\* The host's accelerations may be negative, but none overflows the int that it
\* is multiplied in, four times on the wheel and eight more as it is stored.
ASSUME NoOverflow ==
  /\ \A n \in HostClicks : n >= -8192 /\ n <= 1023
  /\ \A v \in PresetAccels : v >= -32768 /\ v <= 4095

VARIABLES
  max_speed, max_accel,  \* the debounced values, the acceleration as it is stored
  encoder_mode,
  encoder_delta          \* the encoder's count less previous_encoder_count_

wheelVars == <<max_speed, max_accel, encoder_mode, encoder_delta>>

Clamp(x, min, max) == IF x < min THEN min ELSE IF x > max THEN max ELSE x

\* (Mutant) The next multiple begins too early on the way in.
AccelInEarly(v) ==
  LET clicks == v \div ENCODER_STEPS_PER_CLICK
  IN  IF clicks <= 8 THEN v
      ELSE IF clicks <= 14 THEN v * 2
      ELSE IF clicks <= 24 THEN v * 4
      ELSE v * 8

\* settings_process_accel_in and settings_process_accel_out
AccelIn(v) ==
  LET clicks == v \div ENCODER_STEPS_PER_CLICK
  IN  IF clicks <= 8 THEN v
      ELSE IF clicks <= 16 THEN v * 2
      ELSE IF clicks <= 24 THEN v * 4
      ELSE v * 8

AccelOut(v) ==
  LET clicks == v \div ENCODER_STEPS_PER_CLICK
  IN  IF clicks < 16 THEN v
      ELSE IF clicks < 64 THEN v \div 2
      ELSE IF clicks < 192 THEN v \div 4
      ELSE v \div 8

\* The acceleration on the wheel.
Accel == AccelOut(max_accel)

WheelTypeOK ==
  /\ max_speed \in Nat /\ max_accel \in Int
  /\ encoder_mode \in {"ENCODER_MODE_SPEED", "ENCODER_MODE_ACCEL"}
  /\ encoder_delta \in (-MaxDelta)..MaxDelta

WheelInit ==
  /\ max_speed \in Speeds
  /\ max_accel = DefaultAccel
  /\ encoder_mode = "ENCODER_MODE_SPEED"
  /\ encoder_delta = 0

-----------------------------------------------------------------------------

TurnWheel ==
  /\ encoder_delta' \in {encoder_delta - 1, encoder_delta + 1} \cap (-MaxDelta)..MaxDelta
  /\ UNCHANGED <<max_speed, max_accel, encoder_mode>>

\* ENC_UP_SIG in calibrated: the press that does not make a double tap.
ChangeEncoderMode ==
  /\ encoder_mode' = (IF encoder_mode = "ENCODER_MODE_SPEED" THEN "ENCODER_MODE_ACCEL"
                      ELSE "ENCODER_MODE_SPEED")
  /\ UNCHANGED <<max_speed, max_accel, encoder_delta>>

\* (Mutant) A low speed is not changed at all.
SpeedFactorZero(speed) == Clamp(speed \div SpeedPerFactor, 0, MaxFactor)

\* What a step of the wheel changes the speed by.
SpeedFactor(speed) == Clamp(speed \div SpeedPerFactor, 1, MaxFactor)

\* (Mutant) The speed is not kept within its range.
UpdateMaxSpeedUnclamped ==
  /\ encoder_mode = "ENCODER_MODE_SPEED"
  /\ max_speed' = max_speed + encoder_delta * SpeedFactor(max_speed)
  /\ encoder_delta' = 0
  /\ UNCHANGED <<max_accel, encoder_mode>>

\* update_max_speed_using_encoder
UpdateMaxSpeed ==
  /\ encoder_mode = "ENCODER_MODE_SPEED"
  /\ max_speed' = Clamp(max_speed + encoder_delta * SpeedFactor(max_speed), 1, MaxSpeed)
  /\ encoder_delta' = 0
  /\ UNCHANGED <<max_accel, encoder_mode>>

\* (Mutant) What the wheel shows is stored.
UpdateMaxAccelPlain ==
  /\ encoder_mode = "ENCODER_MODE_ACCEL"
  /\ max_accel' = Clamp(Accel + encoder_delta, ENCODER_STEPS_PER_CLICK, ENCODER_STEPS_PER_CLICK * MaxClicks)
  /\ encoder_delta' = 0
  /\ UNCHANGED <<max_speed, encoder_mode>>

\* update_max_accel_using_encoder: what does not change is not stored.
UpdateMaxAccel ==
  /\ encoder_mode = "ENCODER_MODE_ACCEL"
  /\ LET new == Clamp(Accel + encoder_delta, ENCODER_STEPS_PER_CLICK, ENCODER_STEPS_PER_CLICK * MaxClicks)
     IN  max_accel' = (IF new # Accel THEN AccelIn(new) ELSE max_accel)
  /\ encoder_delta' = 0
  /\ UNCHANGED <<max_speed, encoder_mode>>

\* SERIAL_MAX_SPEED_SET
SetMaxSpeed ==
  /\ max_speed' \in Speeds
  /\ UNCHANGED <<max_accel, encoder_mode, encoder_delta>>

\* SERIAL_ACCEL_SET
SetMaxAccel ==
  /\ \E n \in HostClicks : max_accel' = AccelIn(n * ENCODER_STEPS_PER_CLICK)
  /\ UNCHANGED <<max_speed, encoder_mode, encoder_delta>>

\* Another preset, which holds what the host or the wheel has set.
SelectPreset ==
  /\ max_speed' \in Speeds
  /\ \E v \in PresetAccels : max_accel' = AccelIn(v)
  /\ UNCHANGED <<encoder_mode, encoder_delta>>

WheelNext ==
  \/ TurnWheel \/ ChangeEncoderMode \/ UpdateMaxSpeed \/ UpdateMaxAccel
  \/ SetMaxSpeed \/ SetMaxAccel \/ SelectPreset

WheelSpec == WheelInit /\ [][WheelNext]_wheelVars

-----------------------------------------------------------------------------
(* Properties.                                                             *)

\* The acceleration on the wheel is the one that is stored: storing it again
\* would change nothing, so that no step of the wheel is lost or made twice at
\* the changes of the multiple (settings.cpp:219).
AccelExact == AccelIn(Accel) = max_accel

\* How a value follows the wheel that was turned.
Follows(value, next, limit) ==
  /\ encoder_delta > 0 => next > value \/ value >= limit
  /\ encoder_delta < 0 => next < value \/ value <= 1

\* A timeout changes the acceleration by as many steps as the wheel was turned,
\* but for the ends of its range (ao_Txr.cpp:263).
AccelFollowsWheel ==
  [][UpdateMaxAccel =>
       Accel' = Clamp(Accel + encoder_delta, ENCODER_STEPS_PER_CLICK, ENCODER_STEPS_PER_CLICK * MaxClicks)]_wheelVars

\* The wheel always has an effect: turned up it makes the speed higher, and
\* turned down lower, until the end of the range (ao_Txr.cpp:248).
SpeedFollowsWheel == [][UpdateMaxSpeed => Follows(max_speed, max_speed', MaxSpeed)]_wheelVars

\* The speed and the acceleration follow the wheel.
FollowsWheel == AccelFollowsWheel /\ SpeedFollowsWheel

=============================================================================
