----------------------------- MODULE MCSettings -----------------------------
(***************************************************************************)
(* The settings of the hand unit (TxrSettings) and of the motor unit       *)
(* (RxrSettings), the wheel's count (Encoder), and the speed and the       *)
(* acceleration that are set with it (Wheel).                              *)
(*                                                                         *)
(* A behaviour is of one of the four and leaves the others as they start,  *)
(* as their steps do not touch each other's state; Wheel takes what the    *)
(* presets hold as an input.  There are two presets and room for a third   *)
(* (four and six in the code), and two fields, enough for one to be        *)
(* written and the other not.  There are all the accelerations of the      *)
(* wheel, which it turns through, and the speeds are scaled down.          *)
(***************************************************************************)
EXTENDS TxrSettings, RxrSettings, Encoder, Wheel

VARIABLE component  \* which of the four

ASSUME MCAssumption == RxrAssumption

MCFieldSeq == <<"max_speed", "max_accel">>
MCOffset == [max_speed |-> 0, max_accel |-> 2]
MCDefault == [f \in {"max_speed", "max_accel"} |-> <<0, 0>>]
MCSentinelValue == <<251, 250, 0, 0>>

\* Both bytes differ from the default's, so that a half-written value is a third.
MCValues == {<<0, 0>>, <<1, 1>>}

\* What the host sets may be outside the range of the wheel.
MCClicks == {-1, 0, 9, 17, 32, 40}
MCAccels == {-4, 35, 66, 128}
MCSpeeds == {0, MaxSpeed + 9}

-----------------------------------------------------------------------------

Components == {"hand unit", "encoder", "speed and acceleration", "motor unit"}

MCInit ==
  /\ component \in Components
  /\ Init /\ EncoderInit /\ RxrInit
  /\ WheelInit /\ (component # "speed and acceleration" => max_speed = 0)

Of(c, Step, others) == component = c /\ Step /\ UNCHANGED <<component, others>>

HandUnit(Step) == Of("hand unit", Step, <<encoderVars, wheelVars, rxrVars>>)

MCNext ==
  \/ HandUnit(Next)
  \/ Of("encoder", EncoderNext, <<vars, wheelVars, rxrVars>>)
  \/ Of("speed and acceleration", WheelNext, <<vars, encoderVars, rxrVars>>)
  \/ Of("motor unit", RxrNext, <<vars, encoderVars, wheelVars>>)

mcVars == <<component, vars, encoderVars, wheelVars, rxrVars>>

\* The fairness of FairSpec.
MCSpec ==
  /\ MCInit /\ [][MCNext]_mcVars
  /\ WF_mcVars(HandUnit(Boot)) /\ WF_mcVars(HandUnit(WriteByte))
  /\ WF_mcVars(HandUnit(Return)) /\ SF_mcVars(HandUnit(Flush))

-----------------------------------------------------------------------------
(* Properties.                                                             *)

\* The types of the four.
SettingsTypeOK == TypeOK /\ EncoderTypeOK /\ WheelTypeOK /\ RxrTypeOK

=============================================================================
