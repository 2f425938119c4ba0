----------------------------- MODULE TxrPosition -----------------------------
(***************************************************************************)
(* Which position the hand unit commands (Txr/ao_Txr.cpp): calibration     *)
(* with the wheel, the slider and its jitter filter, saved positions and   *)
(* what is left of them after a restart.                                   *)
(*                                                                         *)
(* The handlers are those of module Txr; here they change the positions.   *)
(* A mode signal or a position button may come at any time, and the lever  *)
(* is read as anything: Txr says which of them can happen.  A restart      *)
(* comes between two handlers, so that the two bytes a position takes in   *)
(* the EEPROM are written in one step.                                     *)
(***************************************************************************)
EXTENDS Integers

CONSTANTS
  Buttons,        \* the position buttons
  Levers,         \* the positions of the mode lever
  Multiplier,     \* update_calibration_multiplier, by lever
  StepsPerClick,  \* ENCODER_STEPS_PER_CLICK
  PotMax,         \* MAX_POT_VAL; the slider is below it
  Slew,           \* how far the slider moves between two samples
  Half,           \* the integers from -Half to Half - 1 fit an int
  MaxTurn,        \* how far the wheel is turned (a bound)
  MaxPos          \* how far the motor is taken (a bound)

Pots == 0..(PotMax - 1)
Free == {"free_run_mode", "z_mode"}
Calibrating == {"uncalibrated", "flashing"}

ASSUME PositionAssumption ==
  /\ Levers \subseteq Free \cup {"play_back_mode"}
  /\ Multiplier \in [Levers -> Nat]
  /\ StepsPerClick \in Nat \ {0}
  /\ PotMax \in Nat \ {0}
  /\ Slew \in Nat
  /\ Half \in Nat \ {0}
  /\ MaxTurn \in Nat /\ MaxPos \in Nat

VARIABLES
  state,                   \* the leaf state
  enc_pushes,
  encoder, pot,            \* the wheel and the slider
  raw,                     \* the slider at the last timeout
  calibration_multiplier, initial_encoder_count, initial_position,
  previous_encoder_count,
  cur_pos,
  prev_pos_1, prev_pos_2,  \* the last two samples of the slider that were used
  calibration_pos_1, calibration_pos_2,
  play_back_target_pos,
  saved_positions,
  eeprom,                  \* the calibration and the saved positions in it
  sent,                    \* what the motor unit has been told last
  used,                    \* a sample has been used since the state was entered
  kept,                    \* what the user has saved on each button
  forgotten                \* the buttons a start in calibration did not read back

wheel == <<calibration_multiplier, initial_encoder_count, initial_position, previous_encoder_count>>
filter == <<prev_pos_1, prev_pos_2, used>>
calibration == <<calibration_pos_1, calibration_pos_2>>
saving == <<saved_positions, kept, forgotten>>
vars == <<state, enc_pushes, encoder, pot, raw, wheel, cur_pos, filter, calibration,
          play_back_target_pos, saving, eeprom, sent>>

\* An int keeps 16 bits of a long.
Cut(n) == ((n + Half) % (2 * Half)) - Half

\* Division in C rounds towards zero.
Quotient(a, b) == IF a >= 0 THEN a \div b ELSE -((-a) \div b)

\* (Mutant) The ends are mixed up.
SliderPosMixed(x, from, to) == Quotient(x * (to - from), PotMax) + to

\* map(pot, MIN_POT_VAL, MAX_POT_VAL, ...), MIN_POT_VAL being 0.
SliderPos(x, from, to) == Quotient(x * (to - from), PotMax) + from

TypeOK ==
  /\ state \in Calibrating \cup Free \cup {"play_back_mode"}
  /\ enc_pushes \in 0..2
  /\ encoder \in Int /\ pot \in Pots /\ raw \in Pots
  /\ calibration_multiplier \in Nat
  /\ initial_encoder_count \in Int /\ initial_position \in Int
  /\ previous_encoder_count \in Int
  /\ cur_pos \in Int
  /\ prev_pos_1 \in Pots \cup {-1} /\ prev_pos_2 \in Pots \cup {-1}
  /\ used \in BOOLEAN /\ forgotten \in SUBSET Buttons
  /\ calibration_pos_1 \in Int /\ calibration_pos_2 \in Int
  /\ play_back_target_pos \in Int
  /\ saved_positions \in [Buttons -> Int] /\ kept \in [Buttons -> Int]
  /\ eeprom \in [pos_1 : Int, pos_2 : Int, saved : [Buttons -> Int]]
  /\ sent \in Int

-----------------------------------------------------------------------------
(* Entering a state.                                                       *)

\* (Mutant) The wheel starts anew, and the motor does not.
ResetCalibrationOfWheel(pos) ==
  /\ initial_encoder_count' = encoder
  /\ previous_encoder_count' = encoder
  /\ UNCHANGED initial_position

\* reset_calibration.
ResetCalibration(pos) ==
  /\ initial_encoder_count' = encoder
  /\ previous_encoder_count' = encoder
  /\ initial_position' = pos

\* The motor unit is told to take its position as the origin.
EnterUncalibrated ==
  /\ state' = "uncalibrated"
  /\ \E l \in Levers : calibration_multiplier' = Multiplier[l]
  /\ cur_pos' = 0
  /\ ResetCalibration(0)
  /\ sent' = 0
  /\ used' = FALSE
  /\ UNCHANGED <<encoder, pot, raw, prev_pos_1, prev_pos_2, play_back_target_pos>>

\* (Mutant) Entering play_back_mode does not send the position.
EnterModeSilently(mode) ==
  /\ state' = mode
  /\ used' = FALSE
  /\ play_back_target_pos' = cur_pos
  /\ UNCHANGED <<encoder, pot, raw, wheel, cur_pos, prev_pos_1, prev_pos_2, sent>>

EnterMode(mode) ==
  /\ state' = mode
  /\ used' = FALSE
  /\ \/ /\ mode = "play_back_mode"
        /\ play_back_target_pos' = cur_pos
        /\ sent' = cur_pos
        /\ UNCHANGED wheel
     \/ /\ mode = "z_mode"
        /\ ResetCalibration(cur_pos)
        /\ UNCHANGED <<calibration_multiplier, play_back_target_pos, sent>>
     \/ /\ mode = "free_run_mode"
        /\ UNCHANGED <<wheel, play_back_target_pos, sent>>
  /\ UNCHANGED <<encoder, pot, raw, cur_pos, prev_pos_1, prev_pos_2>>

-----------------------------------------------------------------------------
(* Start.                                                                  *)

\* A stored calibration, and the mode its lever selects.
Init ==
  /\ eeprom \in [pos_1 : {0}, pos_2 : {0, 1} , saved : [Buttons -> {0}]]
  /\ state = "free_run_mode"
  /\ enc_pushes = 0
  /\ encoder = 0 /\ pot = 0 /\ raw = 0
  /\ calibration_multiplier = 1
  /\ initial_encoder_count = 0 /\ previous_encoder_count = 0
  /\ calibration_pos_1 = eeprom.pos_1 /\ calibration_pos_2 = eeprom.pos_2
  /\ cur_pos = SliderPos(pot, calibration_pos_1, calibration_pos_2)
  /\ initial_position = cur_pos
  /\ prev_pos_1 = -1 /\ prev_pos_2 = -1 /\ used = FALSE
  /\ play_back_target_pos = 0
  /\ saved_positions = eeprom.saved /\ kept = eeprom.saved /\ forgotten = {}
  /\ sent = 0

\* Txr::initial.  Only a start outside calibration reads the saved positions;
\* the memory is 0.
Restart ==
  /\ enc_pushes' = 0
  /\ encoder' = 0
  /\ pot' \in Pots /\ raw' = pot'
  /\ prev_pos_1' = -1 /\ prev_pos_2' = -1 /\ used' = FALSE
  /\ calibration_pos_1' = eeprom.pos_1 /\ calibration_pos_2' = eeprom.pos_2
  /\ initial_encoder_count' = 0 /\ previous_encoder_count' = 0
  /\ LET pos == SliderPos(pot', eeprom.pos_1, eeprom.pos_2)
     IN  \/ /\ state' = "uncalibrated"
            /\ \E l \in Levers : calibration_multiplier' = Multiplier[l]
            /\ cur_pos' = 0 /\ initial_position' = 0 /\ sent' = 0
            /\ saved_positions' = [b \in Buttons |-> 0]
            /\ play_back_target_pos' = 0
         \/ /\ state' \in Free \cap Levers
            /\ calibration_multiplier' = 1
            /\ cur_pos' = pos /\ initial_position' = pos
            /\ saved_positions' = eeprom.saved
            /\ play_back_target_pos' = 0
            /\ UNCHANGED sent
         \/ /\ state' = "play_back_mode"
            /\ calibration_multiplier' = 1
            /\ cur_pos' = pos /\ initial_position' = pos /\ sent' = pos
            /\ saved_positions' = eeprom.saved
            /\ play_back_target_pos' = pos
  /\ forgotten' = (IF state' = "uncalibrated" THEN Buttons ELSE {})
  /\ UNCHANGED <<eeprom, kept>>

-----------------------------------------------------------------------------
(* The user.                                                               *)

\* In the other states the wheel sets the speed or the acceleration (Wheel),
\* and both of its counts start again when they are left.
Turn ==
  /\ state \in Calibrating
  /\ \E e \in {encoder - 1, encoder + 1} : e \in (-MaxTurn)..MaxTurn /\ encoder' = e
  /\ UNCHANGED <<state, enc_pushes, pot, raw, wheel, cur_pos, filter, calibration,
                 play_back_target_pos, saving, eeprom, sent>>

Slide ==
  /\ pot' \in Pots \cap (raw - Slew)..(raw + Slew)
  /\ UNCHANGED <<state, enc_pushes, encoder, raw, wheel, cur_pos, filter, calibration,
                 play_back_target_pos, saving, eeprom, sent>>

-----------------------------------------------------------------------------
(* SEND_TIMEOUT_SIG, a hundred times a second.                             *)

\* Whole clicks since the multiplier was chosen.
WheelPosition ==
  initial_position
    + Quotient(encoder - initial_encoder_count, StepsPerClick) * calibration_multiplier

\* update_position_calibration
SendCalibration ==
  /\ state \in Calibrating
  /\ WheelPosition \in (-MaxPos)..MaxPos
  /\ previous_encoder_count' = encoder /\ raw' = pot
  /\ cur_pos' = WheelPosition
  /\ sent' = (IF cur_pos' # cur_pos THEN cur_pos' ELSE sent)
  /\ UNCHANGED <<state, enc_pushes, encoder, pot, calibration_multiplier,
                 initial_encoder_count, initial_position, filter, calibration,
                 play_back_target_pos, saving, eeprom>>

\* update_position: a sample that is one of the last two used is jitter.
Jittering(sample) == sample \in {prev_pos_1, prev_pos_2}

\* (Mutant) A sample that is not used is remembered as one that is.
SendSliderRemembering ==
  /\ state \in Free
  /\ previous_encoder_count' = encoder /\ raw' = pot
  /\ prev_pos_1' = prev_pos_2
  /\ prev_pos_2' = pot
  /\ IF Jittering(pot)
     THEN UNCHANGED <<cur_pos, sent, used>>
     ELSE /\ used' = TRUE
          /\ cur_pos' = SliderPos(pot, calibration_pos_1, calibration_pos_2)
          /\ sent' = cur_pos'
  /\ UNCHANGED <<state, enc_pushes, encoder, pot, calibration_multiplier,
                 initial_encoder_count, initial_position, calibration,
                 play_back_target_pos, saving, eeprom>>

\* The wheel sets the speed or the acceleration, and the slider the position.
SendSlider ==
  /\ state \in Free
  /\ previous_encoder_count' = encoder /\ raw' = pot
  /\ IF Jittering(pot)
     THEN UNCHANGED <<prev_pos_1, prev_pos_2, cur_pos, sent, used>>
     ELSE /\ prev_pos_1' = prev_pos_2
          /\ prev_pos_2' = pot
          /\ used' = TRUE
          /\ cur_pos' = SliderPos(pot, calibration_pos_1, calibration_pos_2)
          /\ sent' = cur_pos'
  /\ UNCHANGED <<state, enc_pushes, encoder, pot, calibration_multiplier,
                 initial_encoder_count, initial_position, calibration,
                 play_back_target_pos, saving, eeprom>>

\* update_position_play_back
SendPlayBack ==
  /\ state = "play_back_mode"
  /\ previous_encoder_count' = encoder /\ raw' = pot
  /\ cur_pos' = play_back_target_pos
  /\ sent' = (IF cur_pos' # cur_pos THEN cur_pos' ELSE sent)
  /\ UNCHANGED <<state, enc_pushes, encoder, pot, calibration_multiplier,
                 initial_encoder_count, initial_position, filter, calibration,
                 play_back_target_pos, saving, eeprom>>

-----------------------------------------------------------------------------
(* Calibration.                                                            *)

\* ENC_DOWN_SIG in uncalibrated, the first and the second time.
Press ==
  /\ state = "uncalibrated"
  /\ enc_pushes' = enc_pushes + 1
  /\ state' = "flashing"
  /\ IF enc_pushes = 0
     THEN /\ calibration_pos_1' = cur_pos
          /\ eeprom' = [eeprom EXCEPT !.pos_1 = Cut(cur_pos)]
          /\ UNCHANGED calibration_pos_2
     ELSE /\ calibration_pos_2' = cur_pos
          /\ eeprom' = [eeprom EXCEPT !.pos_2 = Cut(cur_pos)]
          /\ UNCHANGED calibration_pos_1
  /\ UNCHANGED <<encoder, pot, raw, wheel, cur_pos, filter, play_back_target_pos, saving, sent>>

\* (Mutant) Two presses are not enough.
FlashingEndsLate ==
  /\ state = "flashing"
  /\ \/ /\ enc_pushes <= 2
        /\ state' = "uncalibrated"
        /\ UNCHANGED <<encoder, pot, raw, wheel, cur_pos, filter, play_back_target_pos, sent>>
     \/ enc_pushes > 2 /\ \E l \in Levers : EnterMode(l)
  /\ UNCHANGED <<enc_pushes, calibration, saving, eeprom>>

\* CALIBRATION_SIG in flashing; uncalibrated, its superstate, is not entered.
FlashingEnds ==
  /\ state = "flashing"
  /\ \/ /\ enc_pushes < 2
        /\ state' = "uncalibrated"
        /\ UNCHANGED <<encoder, pot, raw, wheel, cur_pos, filter, play_back_target_pos, sent>>
     \/ enc_pushes >= 2 /\ \E l \in Levers : EnterMode(l)
  /\ UNCHANGED <<enc_pushes, calibration, saving, eeprom>>

\* A mode signal in uncalibrated or flashing.
CalibrationLever ==
  /\ state \in Calibrating
  /\ \E l \in Levers : calibration_multiplier' = Multiplier[l]
  /\ ResetCalibration(cur_pos)
  /\ UNCHANGED <<state, enc_pushes, encoder, pot, raw, cur_pos, filter, calibration,
                 play_back_target_pos, saving, eeprom, sent>>

-----------------------------------------------------------------------------
(* The calibrated states.                                                  *)

\* A mode signal in calibrated.
ChangeMode ==
  /\ state \notin Calibrating
  /\ \E l \in Levers : EnterMode(l)
  /\ UNCHANGED <<enc_pushes, calibration, saving, eeprom>>

DoubleTap ==
  /\ state \notin Calibrating
  /\ enc_pushes' = 0
  /\ EnterUncalibrated
  /\ UNCHANGED <<calibration, saving, eeprom>>

\* (Mutant) The position is not written to the EEPROM.
SavePositionInMemory ==
  /\ state = "free_run_mode"
  /\ \E b \in Buttons :
       /\ saved_positions' = [saved_positions EXCEPT ![b] = cur_pos]
       /\ kept' = [kept EXCEPT ![b] = cur_pos]
       /\ forgotten' = forgotten \ {b}
  /\ UNCHANGED <<state, enc_pushes, encoder, pot, raw, wheel, cur_pos, filter, calibration,
                 play_back_target_pos, eeprom, sent>>

\* POSITION_BUTTON_SIG in free_run_mode.
SavePosition ==
  /\ state = "free_run_mode"
  /\ \E b \in Buttons :
       /\ saved_positions' = [saved_positions EXCEPT ![b] = cur_pos]
       /\ kept' = [kept EXCEPT ![b] = cur_pos]
       /\ forgotten' = forgotten \ {b}
       /\ eeprom' = [eeprom EXCEPT !.saved[b] = Cut(cur_pos)]
  /\ UNCHANGED <<state, enc_pushes, encoder, pot, raw, wheel, cur_pos, filter, calibration,
                 play_back_target_pos, sent>>

\* POSITION_BUTTON_SIG in play_back_mode.
PlayBackButton ==
  /\ state = "play_back_mode"
  /\ \E b \in Buttons : play_back_target_pos' = saved_positions[b]
  /\ UNCHANGED <<state, enc_pushes, encoder, pot, raw, wheel, cur_pos, filter, calibration,
                 saving, eeprom, sent>>

\* POSITION_BUTTON_SIG in z_mode, which selects a preset.
RecallButton ==
  /\ state = "z_mode"
  /\ ResetCalibration(cur_pos)
  /\ UNCHANGED <<state, enc_pushes, encoder, pot, raw, calibration_multiplier, cur_pos, filter,
                 calibration, play_back_target_pos, saving, eeprom, sent>>

Next ==
  \/ Restart \/ Turn \/ Slide
  \/ SendCalibration \/ SendSlider \/ SendPlayBack
  \/ Press \/ FlashingEnds \/ CalibrationLever
  \/ ChangeMode \/ DoubleTap \/ SavePosition \/ PlayBackButton \/ RecallButton

Spec == Init /\ [][Next]_vars

-----------------------------------------------------------------------------
(* Properties.                                                             *)

Distance(a, b) == IF a < b THEN b - a ELSE a - b

\* What the motor unit was told last is the position the handlers go on from,
\* from the first sample of the slider after a start (ao_Txr.cpp:306: they send
\* a position only when it is another).
SentIsCurrent == sent = cur_pos \/ (state \in Free /\ prev_pos_2 = -1)

\* The jitter filter never leaves the motor further from the slider than the
\* slider moves between two samples, once a sample has been used in the mode,
\* although it skips samples (ao_Txr.cpp:291); and the slider takes the motor
\* between the ends of the calibration, whichever is the higher (297).
SliderFollowed ==
  used => /\ cur_pos = SliderPos(prev_pos_2, calibration_pos_1, calibration_pos_2)
          /\ Distance(raw, prev_pos_2) <= Slew
          /\ \/ calibration_pos_1 <= cur_pos /\ cur_pos <= calibration_pos_2
             \/ calibration_pos_2 <= cur_pos /\ cur_pos <= calibration_pos_1

Clicks == (Distance(encoder, previous_encoder_count) + StepsPerClick - 1) \div StepsPerClick

\* While it calibrates, the motor moves by the clicks the wheel has turned since
\* the last timeout, whatever the lever does to the multiplier (ao_Txr.cpp:454).
NoJump ==
  [][\/ state \notin Calibrating \/ state' # state \/ Restart
     \/ Distance(cur_pos, cur_pos') <= calibration_multiplier * Clicks]_vars

\* A button plays back what was last saved on it, as an int has it after a
\* restart, unless the device started in calibration and did not read it
\* (ao_Txr.cpp:613).
SavedKept ==
  \A b \in Buttons \ forgotten : saved_positions[b] \in {kept[b], Cut(kept[b])}

=============================================================================
