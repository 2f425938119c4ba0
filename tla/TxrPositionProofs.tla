------------------------- MODULE TxrPositionProofs -------------------------
(***************************************************************************)
(* The position that the hand unit commands, for every slider, wheel,      *)
(* lever and set of buttons, and every width of an int.                    *)
(***************************************************************************)
EXTENDS TxrPosition, TLAPS

\* The second press is the last.
PressesFit == state = "uncalibrated" => enc_pushes < 2

\* The slider moves at most by Slew between two timeouts.
SliderNear == Distance(raw, pot) <= Slew

\* Once a sample has been used, the last sample is one of the last two that
\* were, and if it is the older, the newer is close to it.
FilterFollows ==
  used => /\ state \in Free
          /\ prev_pos_2 \in Pots
          /\ cur_pos = SliderPos(prev_pos_2, calibration_pos_1, calibration_pos_2)
          /\ raw \in {prev_pos_1, prev_pos_2}
          /\ raw = prev_pos_1 => Distance(prev_pos_1, prev_pos_2) <= Slew

\* The wheel's position when it was read last.
ReadPosition ==
  initial_position
    + Quotient(previous_encoder_count - initial_encoder_count, StepsPerClick)
        * calibration_multiplier

\* While it calibrates, the motor is where the wheel was read last.
WheelFollows == state \in Calibrating => cur_pos = ReadPosition

\* The EEPROM has what was saved, perhaps cut.
EepromKept == \A b \in Buttons : eeprom.saved[b] \in {kept[b], Cut(kept[b])}

PositionInv ==
  /\ TypeOK /\ PressesFit
  /\ SliderNear /\ FilterFollows
  /\ WheelFollows
  /\ SentIsCurrent
  /\ EepromKept /\ SavedKept

-----------------------------------------------------------------------------
(* Division towards zero.                                                  *)

LEMMA DivBounds ==
  ASSUME NEW m \in Nat \ {0}, NEW y \in Nat
  PROVE  /\ y \div m \in Nat
         /\ m * (y \div m) <= y /\ y < m * (y \div m) + m
OBVIOUS

\* A factor can be taken out of an inequality.
LEMMA Cancel ==
  ASSUME NEW m \in Nat \ {0}, NEW p \in Int, NEW q \in Int, m * p < m * q
  PROVE  p < q
OBVIOUS

LEMMA Monotone ==
  ASSUME NEW m \in Nat, NEW p \in Int, NEW q \in Int, p <= q
  PROVE  m * p <= m * q
OBVIOUS

LEMMA DivWithin ==
  ASSUME NEW m \in Nat \ {0}, NEW d \in Nat, NEW x \in 0..m
  PROVE  (x * d) \div m \in 0..d
<1>1. x * d \in Nat /\ x * d <= m * d
  OBVIOUS
<1> DEFINE y == x * d  q == y \div m
<1>2. q \in Nat /\ m * q <= y
  BY <1>1, DivBounds
<1>3. m * q <= m * d
  BY <1>1, <1>2
<1> HIDE DEF q, y
<1>4. q <= d
  <2> SUFFICES ASSUME d < q PROVE FALSE
    BY <1>2
  <2>1. d + 1 <= q
    BY <1>2
  <2>2. m * (d + 1) <= m * q
    BY <1>2, <2>1, Monotone
  <2>3. m * (d + 1) = m * d + m
    OBVIOUS
  <2> QED BY <1>2, <1>3, <2>2, <2>3
<1> QED BY <1>2, <1>4 DEF q, y

LEMMA QuotientInt ==
  ASSUME NEW a \in Int, NEW m \in Nat \ {0}
  PROVE  Quotient(a, m) \in Int
BY DEF Quotient

LEMMA QuotientNegated ==
  ASSUME NEW m \in Nat \ {0}, NEW y \in Nat
  PROVE  Quotient(-y, m) = -(y \div m)
<1>1. CASE y = 0
  BY <1>1 DEF Quotient
<1>2. CASE y > 0
  BY <1>2 DEF Quotient
<1> QED BY <1>1, <1>2

LEMMA SliderInt ==
  ASSUME PositionAssumption, NEW x \in Int, NEW from \in Int, NEW to \in Int
  PROVE  SliderPos(x, from, to) \in Int
<1>1. x * (to - from) \in Int
  OBVIOUS
<1>2. Quotient(x * (to - from), PotMax) \in Int
  BY <1>1, QuotientInt DEF PositionAssumption
<1> QED BY <1>2 DEF SliderPos

\* The slider's position is between the ends of the calibration.
LEMMA SliderBetween ==
  ASSUME PositionAssumption, NEW x \in Pots, NEW from \in Int, NEW to \in Int
  PROVE  LET pos == SliderPos(x, from, to)
         IN  (from <= pos /\ pos <= to) \/ (to <= pos /\ pos <= from)
<1>1. PotMax \in Nat \ {0} /\ x \in 0..PotMax
  BY DEF PositionAssumption, Pots
<1>2. CASE from <= to
  <2> DEFINE d == to - from
  <2>1. d \in Nat /\ x * d \in Nat
    BY <1>1, <1>2
  <2>2. (x * d) \div PotMax \in 0..d
    BY <1>1, <2>1, DivWithin
  <2>3. Quotient(x * d, PotMax) = (x * d) \div PotMax
    BY <2>1 DEF Quotient
  <2> DEFINE q == (x * d) \div PotMax
  <2>4. SliderPos(x, from, to) = q + from /\ q \in 0..d
    BY <2>2, <2>3 DEF SliderPos
  <2> HIDE DEF q
  <2> QED BY <1>2, <2>4
<1>3. CASE to < from
  <2> DEFINE d == from - to
  <2>1. d \in Nat /\ x * d \in Nat /\ x * (to - from) = -(x * d)
    BY <1>1, <1>3
  <2>2. (x * d) \div PotMax \in 0..d
    BY <1>1, <2>1, DivWithin
  <2>3. Quotient(-(x * d), PotMax) = -((x * d) \div PotMax)
    BY <1>1, <2>1, QuotientNegated
  <2> DEFINE q == (x * d) \div PotMax
  <2>4. SliderPos(x, from, to) = (-q) + from /\ q \in 0..d
    BY <2>1, <2>2, <2>3 DEF SliderPos
  <2> HIDE DEF q
  <2> QED BY <1>3, <2>4
<1> QED BY <1>2, <1>3

\* What a quotient is, by the sign of the dividend.
LEMMA QuotientBounds ==
  ASSUME NEW m \in Nat \ {0}, NEW x \in Int
  PROVE  LET q == Quotient(x, m)
         IN  /\ q \in Int
             /\ x >= 0 => m * q <= x /\ x < m * q + m /\ q >= 0
             /\ x < 0  => x <= m * q /\ m * q < x + m /\ q <= 0
<1>1. CASE x >= 0
  <2>1. Quotient(x, m) = x \div m
    BY <1>1 DEF Quotient
  <2> QED BY <1>1, <2>1, DivBounds
<1>2. CASE x < 0
  <2> DEFINE y == -x  q == y \div m
  <2>1. y \in Nat /\ y > 0 /\ Quotient(x, m) = -q
    BY <1>2 DEF Quotient
  <2>2. q \in Nat /\ m * q <= y /\ y < m * q + m
    BY <2>1, DivBounds
  <2> HIDE DEF q
  <2>3. m * (-q) = -(m * q)
    BY <2>2
  <2> QED BY <1>2, <2>1, <2>2, <2>3
<1> QED BY <1>1, <1>2

\* The clicks of a turn are at least the change of the quotient.
LEMMA QuotientStep ==
  ASSUME NEW m \in Nat \ {0}, NEW x \in Int, NEW y \in Int, NEW k \in Nat,
         x <= y, y - x <= m * k
  PROVE  Quotient(x, m) <= Quotient(y, m) /\ Quotient(y, m) <= Quotient(x, m) + k
<1> DEFINE p == Quotient(x, m)  q == Quotient(y, m)
<1>1. /\ p \in Int
      /\ x >= 0 => m * p <= x /\ x < m * p + m /\ p >= 0
      /\ x < 0  => x <= m * p /\ m * p < x + m /\ p <= 0
  BY QuotientBounds
<1>2. /\ q \in Int
      /\ y >= 0 => m * q <= y /\ y < m * q + m /\ q >= 0
      /\ y < 0  => y <= m * q /\ m * q < y + m /\ q <= 0
  BY QuotientBounds
<1> HIDE DEF p, q
<1>3. m * (q + 1) = m * q + m /\ m * (p + k + 1) = m * p + m * k + m
  BY <1>1, <1>2
<1>4. p <= q
  <2>1. CASE x < 0 /\ y >= 0
    BY <1>1, <1>2, <2>1
  <2>2. CASE x >= 0 \/ y < 0
    <3>1. m * p < m * (q + 1)
      BY <1>1, <1>2, <1>3, <2>2
    <3> QED BY <1>1, <1>2, <3>1, Cancel
  <2> QED BY <2>1, <2>2
<1>5. m * q < m * (p + k + 1)
  BY <1>1, <1>2, <1>3
<1>6. q < p + k + 1
  BY <1>1, <1>2, <1>5, Cancel
<1> QED BY <1>1, <1>2, <1>4, <1>6 DEF p, q

LEMMA DistanceNat ==
  ASSUME NEW a \in Int, NEW b \in Int
  PROVE  Distance(a, b) \in Nat /\ Distance(a, b) = Distance(b, a)
BY DEF Distance

LEMMA DistanceOrdered ==
  ASSUME NEW a \in Int, NEW b \in Int, NEW k \in Nat, a <= b, b <= a + k
  PROVE  Distance(a, b) <= k
BY DEF Distance

LEMMA DistanceWithin ==
  ASSUME NEW a \in Int, NEW b \in Int, NEW k \in Nat, a - k <= b, b <= a + k
  PROVE  Distance(a, b) <= k
BY DEF Distance

LEMMA DistanceScaled ==
  ASSUME NEW i \in Int, NEW f \in Nat, NEW p \in Int, NEW q \in Int, NEW k \in Nat,
         Distance(p, q) <= k
  PROVE  Distance(i + q * f, i + p * f) <= f * k
<1>1. f * (p - q) = f * p - f * q /\ p * f = f * p /\ q * f = f * q
  OBVIOUS
<1>2. p - q <= k /\ q - p <= k
  BY DEF Distance
<1>3. f * (p - q) <= f * k /\ f * (q - p) <= f * k /\ f * (q - p) = f * q - f * p
  BY <1>2, Monotone
<1>4. f * p \in Int /\ f * q \in Int /\ f * k \in Int
  OBVIOUS
<1> QED BY <1>1, <1>3, <1>4 DEF Distance

LEMMA ClicksCover ==
  ASSUME NEW m \in Nat \ {0}, NEW x \in Int, NEW y \in Int
  PROVE  LET k == (Distance(x, y) + m - 1) \div m
         IN  k \in Nat /\ Distance(x, y) <= m * k
             /\ Distance(Quotient(x, m), Quotient(y, m)) <= k
<1> DEFINE d == Distance(x, y)  k == (d + m - 1) \div m
<1>1. d \in Nat
  BY DistanceNat
<1>2. k \in Nat /\ m * k <= d + m - 1 /\ d + m - 1 < m * k + m
  <2> HIDE DEF d
  <2>1. d + m - 1 \in Nat
    BY <1>1
  <2> QED BY <2>1, DivBounds
<1> HIDE DEF k
<1>3. d <= m * k
  <2> HIDE DEF d
  <2>1. m * k \in Int
    BY <1>2
  <2> QED BY <1>1, <1>2, <2>1
<1>4. Distance(Quotient(x, m), Quotient(y, m)) <= k
  <2>1. CASE x <= y
    <3>1. y - x <= m * k
      BY <1>3, <2>1 DEF Distance
    <3>2. Quotient(x, m) <= Quotient(y, m) /\ Quotient(y, m) <= Quotient(x, m) + k
      BY <1>2, <2>1, <3>1, QuotientStep
    <3> QED BY <1>2, <3>2, DistanceOrdered, QuotientInt, DistanceNat
  <2>2. CASE y < x
    <3>1. x - y <= m * k
      BY <1>3, <2>2 DEF Distance
    <3>2. Quotient(y, m) <= Quotient(x, m) /\ Quotient(x, m) <= Quotient(y, m) + k
      BY <1>2, <2>2, <3>1, QuotientStep
    <3> QED BY <1>2, <3>2, DistanceOrdered, QuotientInt, DistanceNat
  <2> QED BY <2>1, <2>2
<1> QED BY <1>2, <1>3, <1>4 DEF k

LEMMA CutInt == ASSUME PositionAssumption, NEW n \in Int PROVE Cut(n) \in Int
<1> DEFINE w == 2 * Half
<1>1. w \in Nat \ {0} /\ Half \in Int
  BY DEF PositionAssumption
<1> HIDE DEF w
<1>2. (n + Half) % w \in Int
  BY <1>1
<1> QED BY <1>1, <1>2 DEF Cut, w

LEMMA ReadPositionInt ==
  ASSUME PositionAssumption, NEW i \in Int, NEW e \in Int, NEW f \in Nat
  PROVE  i + Quotient(e, StepsPerClick) * f \in Int
<1>1. Quotient(e, StepsPerClick) \in Int
  BY QuotientInt DEF PositionAssumption
<1> QED BY <1>1

-----------------------------------------------------------------------------
(* Types.                                                                  *)

LEMMA EnterModeTyped ==
  ASSUME PositionAssumption, TypeOK, NEW mode \in Levers, EnterMode(mode),
         UNCHANGED <<enc_pushes, calibration, saving, eeprom>>
  PROVE  TypeOK' /\ state' \notin Calibrating
<1>1. state' \in Free \cup {"play_back_mode"}
  BY DEF EnterMode, PositionAssumption
<1>2. /\ cur_pos' = cur_pos
      /\ sent' \in Int /\ play_back_target_pos' \in Int
      /\ initial_encoder_count' \in Int /\ initial_position' \in Int
      /\ previous_encoder_count' \in Int /\ calibration_multiplier' \in Nat
  BY DEF EnterMode, TypeOK, ResetCalibration, wheel
<1> QED BY <1>1, <1>2 DEF EnterMode, TypeOK, Calibrating, Free, calibration, saving

LEMMA RestartTyped ==
  ASSUME PositionAssumption, TypeOK, Restart
  PROVE  TypeOK' /\ PressesFit'
<1> DEFINE pos == SliderPos(pot', eeprom.pos_1, eeprom.pos_2)
<1>1. pot' \in Pots /\ pot' \in Int /\ eeprom.pos_1 \in Int /\ eeprom.pos_2 \in Int
  BY DEF Restart, TypeOK, Pots
<1>2. pos \in Int
  BY <1>1, SliderInt
<1> HIDE DEF pos
<1>3. \A l \in Levers : Multiplier[l] \in Nat
  BY DEF PositionAssumption
<1>4. /\ state' \in Calibrating \cup Free \cup {"play_back_mode"}
      /\ calibration_multiplier' \in Nat
      /\ cur_pos' \in Int /\ initial_position' \in Int /\ sent' \in Int
      /\ play_back_target_pos' \in Int
      /\ saved_positions' \in [Buttons -> Int]
  BY <1>2, <1>3 DEF Restart, TypeOK, pos, Calibrating
<1>5. /\ enc_pushes' = 0 /\ encoder' = 0 /\ raw' = pot'
      /\ prev_pos_1' = -1 /\ prev_pos_2' = -1 /\ used' = FALSE
      /\ initial_encoder_count' = 0 /\ previous_encoder_count' = 0
      /\ calibration_pos_1' = eeprom.pos_1 /\ calibration_pos_2' = eeprom.pos_2
      /\ UNCHANGED <<eeprom, kept>>
  BY DEF Restart
<1>6. forgotten' \in SUBSET Buttons
  BY DEF Restart
<1>7. /\ enc_pushes' \in 0..2 /\ PressesFit'
      /\ encoder' \in Int /\ raw' \in Pots
      /\ prev_pos_1' \in Pots \cup {-1} /\ prev_pos_2' \in Pots \cup {-1}
      /\ initial_encoder_count' \in Int /\ previous_encoder_count' \in Int
      /\ calibration_pos_1' \in Int /\ calibration_pos_2' \in Int
  BY <1>1, <1>5 DEF PressesFit
<1>8. used' \in BOOLEAN
  BY <1>5
<1>9. /\ eeprom' \in [pos_1 : Int, pos_2 : Int, saved : [Buttons -> Int]]
      /\ kept' \in [Buttons -> Int]
  BY <1>5 DEF TypeOK
<1> QED BY <1>1, <1>4, <1>6, <1>7, <1>8, <1>9 DEF TypeOK

LEMMA TypeStep ==
  ASSUME PositionAssumption, TypeOK, PressesFit, Next
  PROVE  TypeOK' /\ PressesFit'
<1> USE DEF Calibrating, Free, wheel, filter, calibration, saving
<1>1. CASE Restart
  BY <1>1, RestartTyped
<1>2. CASE Turn
  BY <1>2 DEF Turn, TypeOK, PressesFit
<1>3. CASE Slide
  BY <1>3 DEF Slide, TypeOK, PressesFit
<1>4. CASE SendCalibration
  <2>1. WheelPosition \in Int
    BY ReadPositionInt DEF WheelPosition, TypeOK
  <2> QED BY <1>4, <2>1 DEF SendCalibration, TypeOK, PressesFit
<1>5. CASE SendSlider
  <2>1. SliderPos(pot, calibration_pos_1, calibration_pos_2) \in Int
    BY SliderInt DEF TypeOK, Pots
  <2> QED BY <1>5, <2>1 DEF SendSlider, TypeOK, PressesFit
<1>6. CASE SendPlayBack
  BY <1>6 DEF SendPlayBack, TypeOK, PressesFit
<1>7. CASE Press
  <2>1. Cut(cur_pos) \in Int
    BY CutInt DEF TypeOK
  <2>2. enc_pushes + 1 \in 0..2
    BY <1>7 DEF Press, PressesFit, TypeOK
  <2>3. eeprom' \in [pos_1 : Int, pos_2 : Int, saved : [Buttons -> Int]]
    BY <1>7, <2>1 DEF Press, TypeOK
  <2> QED BY <1>7, <2>2, <2>3 DEF Press, TypeOK, PressesFit
<1>8. CASE FlashingEnds
  <2>1. CASE enc_pushes < 2 /\ state' = "uncalibrated"
             /\ UNCHANGED <<encoder, pot, raw, wheel, cur_pos, filter, play_back_target_pos, sent>>
    BY <1>8, <2>1 DEF FlashingEnds, TypeOK, PressesFit
  <2>2. CASE \E l \in Levers : EnterMode(l)
    BY <1>8, <2>2, EnterModeTyped DEF FlashingEnds, PressesFit
  <2> QED BY <1>8, <2>1, <2>2 DEF FlashingEnds
<1>9. CASE CalibrationLever
  <2>1. calibration_multiplier' \in Nat
    BY <1>9 DEF CalibrationLever, PositionAssumption
  <2> QED BY <1>9, <2>1 DEF CalibrationLever, ResetCalibration, TypeOK, PressesFit
<1>10. CASE ChangeMode
  BY <1>10, EnterModeTyped DEF ChangeMode, PressesFit
<1>11. CASE DoubleTap
  <2>1. calibration_multiplier' \in Nat
    BY <1>11 DEF DoubleTap, EnterUncalibrated, PositionAssumption
  <2>2. /\ state' = "uncalibrated" /\ enc_pushes' = 0 /\ cur_pos' = 0 /\ sent' = 0
        /\ initial_encoder_count' = encoder /\ previous_encoder_count' = encoder
        /\ initial_position' = 0 /\ used' = FALSE
        /\ UNCHANGED <<encoder, pot, raw, prev_pos_1, prev_pos_2, play_back_target_pos,
                       calibration, saving, eeprom>>
    BY <1>11 DEF DoubleTap, EnterUncalibrated, ResetCalibration
  <2>3. enc_pushes' \in 0..2 /\ PressesFit' /\ cur_pos' \in Int /\ sent' \in Int
        /\ initial_position' \in Int
    BY <2>2 DEF PressesFit
  <2>4. used' \in BOOLEAN
    BY <2>2
  <2> QED BY <2>1, <2>2, <2>3, <2>4 DEF TypeOK
<1>12. CASE SavePosition
  <2>1. PICK b \in Buttons :
          /\ saved_positions' = [saved_positions EXCEPT ![b] = cur_pos]
          /\ kept' = [kept EXCEPT ![b] = cur_pos]
          /\ forgotten' = forgotten \ {b}
          /\ eeprom' = [eeprom EXCEPT !.saved[b] = Cut(cur_pos)]
    BY <1>12 DEF SavePosition
  <2>2. cur_pos \in Int /\ Cut(cur_pos) \in Int
    BY CutInt DEF TypeOK
  <2>3. eeprom' \in [pos_1 : Int, pos_2 : Int, saved : [Buttons -> Int]]
    BY <2>1, <2>2 DEF TypeOK
  <2>4. saved_positions' \in [Buttons -> Int] /\ kept' \in [Buttons -> Int]
        /\ forgotten' \in SUBSET Buttons
    BY <2>1, <2>2 DEF TypeOK
  <2> QED BY <1>12, <2>3, <2>4 DEF SavePosition, TypeOK, PressesFit
<1>13. CASE PlayBackButton
  BY <1>13 DEF PlayBackButton, TypeOK, PressesFit
<1>14. CASE RecallButton
  BY <1>14 DEF RecallButton, ResetCalibration, TypeOK, PressesFit
<1> QED BY <1>1, <1>2, <1>3, <1>4, <1>5, <1>6, <1>7, <1>8, <1>9, <1>10, <1>11, <1>12, <1>13,
           <1>14 DEF Next

-----------------------------------------------------------------------------
(* The slider and its filter.                                              *)

LEMMA DistanceToSelf == ASSUME NEW a \in Int PROVE Distance(a, a) = 0
BY DEF Distance

\* What nothing but a sample of the slider disturbs.
LEMMA FilterKept ==
  ASSUME SliderNear, FilterFollows,
         UNCHANGED <<raw, pot, cur_pos, prev_pos_1, prev_pos_2, calibration>>,
         used' = used, used => state' \in Free
  PROVE  SliderNear' /\ FilterFollows'
BY DEF SliderNear, FilterFollows, calibration

LEMMA FilterStep ==
  ASSUME PositionAssumption, TypeOK, SliderNear, FilterFollows, Next
  PROVE  SliderNear' /\ FilterFollows'
<1> USE DEF wheel, calibration, saving
<1>a. Slew \in Nat /\ raw \in Int /\ pot \in Int /\ Pots \subseteq Int
  BY DEF PositionAssumption, TypeOK, Pots
<1>b. used => state \in Free
  BY DEF FilterFollows
<1>c. raw' = pot /\ pot' = pot => SliderNear'
  BY <1>a DEF SliderNear, Distance
<1>1. CASE Restart
  <2>1. raw' = pot' /\ pot' \in Int /\ ~used'
    BY <1>1, <1>a DEF Restart
  <2> QED BY <1>a, <2>1, DistanceToSelf DEF SliderNear, FilterFollows
<1>2. CASE Turn
  BY <1>2, <1>b, FilterKept DEF Turn, filter
<1>3. CASE Slide
  <2>1. pot' \in Int /\ raw - Slew <= pot' /\ pot' <= raw + Slew /\ raw' = raw
    BY <1>3, <1>a DEF Slide
  <2>2. SliderNear'
    <3>1. Distance(raw, pot') <= Slew
      BY <1>a, <2>1, DistanceWithin
    <3> QED BY <2>1, <3>1 DEF SliderNear
  <2>3. FilterFollows'
    BY <1>3 DEF Slide, filter, FilterFollows
  <2> QED BY <2>2, <2>3
<1>4. CASE SendCalibration
  <2>1. ~used /\ ~used'
    BY <1>4, <1>b DEF SendCalibration, filter, Free, Calibrating
  <2> QED BY <1>4, <1>c, <2>1 DEF SendCalibration, FilterFollows
<1>5. CASE SendSlider
  <2>1. SliderNear'
    BY <1>5, <1>c DEF SendSlider
  <2>2. CASE Jittering(pot)
    <3>1. raw' = pot /\ UNCHANGED <<state, prev_pos_1, prev_pos_2, cur_pos, calibration>>
      BY <1>5, <2>2 DEF SendSlider
    <3>2. used' = used
      BY <1>5, <2>2 DEF SendSlider
    <3>3. ASSUME used PROVE pot = prev_pos_1 => Distance(prev_pos_1, prev_pos_2) <= Slew
      <4>1. CASE raw = prev_pos_1
        BY <3>3, <4>1 DEF FilterFollows
      <4>2. CASE raw = prev_pos_2
        BY <1>a, <3>3, <4>2, DistanceNat DEF SliderNear
      <4> QED BY <3>3, <4>1, <4>2 DEF FilterFollows
    <3> QED BY <2>1, <2>2, <3>1, <3>2, <3>3 DEF FilterFollows, Jittering
  <2>3. CASE ~Jittering(pot)
    <3>1. /\ raw' = pot /\ prev_pos_1' = prev_pos_2 /\ prev_pos_2' = pot
          /\ cur_pos' = SliderPos(pot, calibration_pos_1, calibration_pos_2)
          /\ state' = state /\ state \in Free /\ UNCHANGED calibration
      BY <1>5, <2>3 DEF SendSlider
    <3>2. pot \in Pots /\ pot # prev_pos_2
      BY <2>3 DEF TypeOK, Jittering
    <3> QED BY <2>1, <3>1, <3>2 DEF FilterFollows
  <2> QED BY <2>2, <2>3
<1>6. CASE SendPlayBack
  <2>1. ~used /\ ~used'
    BY <1>6, <1>b DEF SendPlayBack, filter, Free
  <2> QED BY <1>6, <1>c, <2>1 DEF SendPlayBack, FilterFollows
<1>7. CASE Press
  <2>1. ~used /\ ~used'
    BY <1>7, <1>b DEF Press, filter, Free
  <2> QED BY <1>7, <2>1 DEF Press, SliderNear, FilterFollows
<1>8. CASE FlashingEnds
  <2>1. ~used'
    BY <1>8, <1>b DEF FlashingEnds, EnterMode, filter, Free
  <2>2. UNCHANGED <<raw, pot>>
    BY <1>8 DEF FlashingEnds, EnterMode
  <2> QED BY <2>1, <2>2 DEF SliderNear, FilterFollows
<1>9. CASE CalibrationLever
  BY <1>9, <1>b, FilterKept DEF CalibrationLever, filter
<1>10. CASE ChangeMode
  <2>1. ~used' /\ UNCHANGED <<raw, pot>>
    BY <1>10 DEF ChangeMode, EnterMode
  <2> QED BY <2>1 DEF SliderNear, FilterFollows
<1>11. CASE DoubleTap
  <2>1. ~used' /\ UNCHANGED <<raw, pot>>
    BY <1>11 DEF DoubleTap, EnterUncalibrated
  <2> QED BY <2>1 DEF SliderNear, FilterFollows
<1>12. CASE SavePosition
  BY <1>12, <1>b, FilterKept DEF SavePosition, filter
<1>13. CASE PlayBackButton
  BY <1>13, <1>b, FilterKept DEF PlayBackButton, filter
<1>14. CASE RecallButton
  BY <1>14, <1>b, FilterKept DEF RecallButton, filter
<1> QED BY <1>1, <1>2, <1>3, <1>4, <1>5, <1>6, <1>7, <1>8, <1>9, <1>10, <1>11, <1>12, <1>13,
           <1>14 DEF Next

-----------------------------------------------------------------------------
(* The wheel.                                                              *)

\* A wheel that has not turned since it was counted anew adds nothing.
LEMMA NotTurned ==
  ASSUME PositionAssumption, NEW i \in Int, NEW e \in Int, NEW f \in Nat
  PROVE  i + Quotient(e - e, StepsPerClick) * f = i
<1>1. e - e = 0 /\ StepsPerClick \in Nat \ {0}
  BY DEF PositionAssumption
<1>2. Quotient(0, StepsPerClick) = 0
  BY <1>1 DEF Quotient
<1> QED BY <1>1, <1>2

LEMMA CountedAnew ==
  ASSUME PositionAssumption, TypeOK', initial_position' = cur_pos',
         initial_encoder_count' = previous_encoder_count'
  PROVE  WheelFollows'
<1>1. /\ initial_position' \in Int /\ previous_encoder_count' \in Int
      /\ calibration_multiplier' \in Nat
  BY DEF TypeOK
<1>2. initial_position' + Quotient(previous_encoder_count' - previous_encoder_count', StepsPerClick)
        * calibration_multiplier' = initial_position'
  BY <1>1, NotTurned
<1> QED BY <1>2 DEF WheelFollows, ReadPosition

LEMMA WheelStep ==
  ASSUME PositionAssumption, TypeOK, TypeOK', WheelFollows, Next
  PROVE  WheelFollows'
<1> USE DEF wheel, calibration, saving, filter
<1>a. ASSUME state \in Calibrating, UNCHANGED <<wheel, cur_pos>>
      PROVE  WheelFollows'
  BY <1>a DEF WheelFollows, ReadPosition
<1>b. ASSUME state' \notin Calibrating
      PROVE  WheelFollows'
  BY <1>b DEF WheelFollows
<1>c. ASSUME UNCHANGED <<state, wheel, cur_pos>>
      PROVE  WheelFollows'
  BY <1>c DEF WheelFollows, ReadPosition
<1>d. ASSUME NEW l \in Levers, EnterMode(l)
      PROVE  WheelFollows'
  <2>1. state' \notin Calibrating
    BY <1>d DEF EnterMode, PositionAssumption, Free, Calibrating
  <2> QED BY <1>b, <2>1
<1>1. CASE Restart
  <2>1. initial_position' = cur_pos' /\ initial_encoder_count' = previous_encoder_count'
    BY <1>1 DEF Restart
  <2> QED BY <2>1, CountedAnew
<1>2. CASE Turn
  BY <1>2, <1>c DEF Turn
<1>3. CASE Slide
  BY <1>3, <1>c DEF Slide
<1>4. CASE SendCalibration
  BY <1>4 DEF SendCalibration, WheelPosition, WheelFollows, ReadPosition
<1>5. CASE SendSlider
  BY <1>5, <1>b DEF SendSlider, Free, Calibrating
<1>6. CASE SendPlayBack
  BY <1>6, <1>b DEF SendPlayBack, Calibrating
<1>7. CASE Press
  BY <1>7, <1>a DEF Press, Calibrating
<1>8. CASE FlashingEnds
  BY <1>8, <1>a, <1>d DEF FlashingEnds, Calibrating
<1>9. CASE CalibrationLever
  BY <1>9, CountedAnew DEF CalibrationLever, ResetCalibration
<1>10. CASE ChangeMode
  BY <1>10, <1>d DEF ChangeMode
<1>11. CASE DoubleTap
  BY <1>11, CountedAnew DEF DoubleTap, EnterUncalibrated, ResetCalibration
<1>12. CASE SavePosition
  BY <1>12, <1>c DEF SavePosition
<1>13. CASE PlayBackButton
  BY <1>13, <1>c DEF PlayBackButton
<1>14. CASE RecallButton
  BY <1>14, CountedAnew DEF RecallButton, ResetCalibration
<1> QED BY <1>1, <1>2, <1>3, <1>4, <1>5, <1>6, <1>7, <1>8, <1>9, <1>10, <1>11, <1>12, <1>13,
           <1>14 DEF Next

\* The motor moves by the clicks the wheel has turned.
LEMMA JumpStep ==
  ASSUME PositionAssumption, TypeOK, WheelFollows, Next,
         state \in Calibrating, state' = state, ~Restart
  PROVE  Distance(cur_pos, cur_pos') <= calibration_multiplier * Clicks
<1> USE DEF wheel, calibration, saving, filter
<1> DEFINE f == calibration_multiplier
           x == encoder - initial_encoder_count
           y == previous_encoder_count - initial_encoder_count
<1>1. /\ f \in Nat /\ x \in Int /\ y \in Int /\ cur_pos \in Int /\ initial_position \in Int
      /\ StepsPerClick \in Nat \ {0}
  BY DEF TypeOK, PositionAssumption
<1>2. Distance(x, y) = Distance(encoder, previous_encoder_count)
  BY DEF TypeOK, Distance
<1>3. Clicks \in Nat /\ Distance(Quotient(x, StepsPerClick), Quotient(y, StepsPerClick)) <= Clicks
  BY <1>1, <1>2, ClicksCover DEF Clicks
<1>4. CASE cur_pos' = cur_pos
  <2>1. Distance(cur_pos, cur_pos') = 0
    BY <1>1, <1>4, DistanceToSelf
  <2>2. f * Clicks >= 0
    BY <1>1, <1>3
  <2> QED BY <2>1, <2>2
<1>5. CASE SendCalibration
  <2> DEFINE p == Quotient(x, StepsPerClick)  q == Quotient(y, StepsPerClick)
  <2>1. p \in Int /\ q \in Int
    BY <1>1, QuotientInt
  <2>2. cur_pos' = initial_position + p * f
    BY <1>5 DEF SendCalibration, WheelPosition
  <2>3. cur_pos = initial_position + q * f
    BY DEF WheelFollows, ReadPosition
  <2>4. Distance(p, q) <= Clicks
    BY <1>3
  <2> HIDE DEF p, q, x, y, f
  <2>5. Distance(initial_position + q * f, initial_position + p * f) <= f * Clicks
    BY <1>1, <1>3, <2>1, <2>4, DistanceScaled
  <2> QED BY <2>2, <2>3, <2>5 DEF f
<1>6. cur_pos' = cur_pos \/ SendCalibration
  BY DEF Next, Turn, Slide, SendSlider, SendPlayBack, Press, FlashingEnds, CalibrationLever,
         ChangeMode, DoubleTap, SavePosition, PlayBackButton, RecallButton, Free, Calibrating,
         EnterMode
<1> QED BY <1>4, <1>5, <1>6

-----------------------------------------------------------------------------
(* What is sent and what is saved.                                         *)

LEMMA SentStep ==
  ASSUME PositionAssumption, TypeOK, SentIsCurrent, Next
  PROVE  SentIsCurrent'
<1> USE DEF wheel, calibration, saving, filter, Free, Calibrating
<1>a. ASSUME UNCHANGED <<state, cur_pos, sent, prev_pos_2>>
      PROVE  SentIsCurrent'
  BY <1>a DEF SentIsCurrent
<1>b. ASSUME sent' = cur_pos'
      PROVE  SentIsCurrent'
  BY <1>b DEF SentIsCurrent
<1>c. state \notin Free => sent = cur_pos
  BY DEF SentIsCurrent
<1>d. ASSUME NEW l \in Levers, EnterMode(l)
      PROVE  SentIsCurrent'
  <2>1. CASE l = "play_back_mode"
    BY <1>b, <1>d, <2>1 DEF EnterMode
  <2>2. CASE l \in Free
    <3>1. state' \in Free /\ UNCHANGED <<cur_pos, sent, prev_pos_2>>
      BY <1>d, <2>2 DEF EnterMode
    <3> QED BY <3>1 DEF SentIsCurrent
  <2> QED BY <2>1, <2>2 DEF PositionAssumption
<1>1. CASE Restart
  <2>1. prev_pos_2' = -1
    BY <1>1 DEF Restart
  <2>2. state' \in Free \/ sent' = cur_pos'
    BY <1>1 DEF Restart
  <2> QED BY <2>1, <2>2 DEF SentIsCurrent
<1>2. CASE Turn
  BY <1>2, <1>a DEF Turn
<1>3. CASE Slide
  BY <1>3, <1>a DEF Slide
<1>4. CASE SendCalibration
  BY <1>4, <1>b, <1>c DEF SendCalibration
<1>5. CASE SendSlider
  BY <1>5, <1>a, <1>b DEF SendSlider
<1>6. CASE SendPlayBack
  BY <1>6, <1>b, <1>c DEF SendPlayBack
<1>7. CASE Press
  BY <1>7, <1>b, <1>c DEF Press
<1>8. CASE FlashingEnds
  BY <1>8, <1>b, <1>c, <1>d DEF FlashingEnds
<1>9. CASE CalibrationLever
  BY <1>9, <1>a DEF CalibrationLever
<1>10. CASE ChangeMode
  BY <1>10, <1>d DEF ChangeMode
<1>11. CASE DoubleTap
  BY <1>11, <1>b DEF DoubleTap, EnterUncalibrated
<1>12. CASE SavePosition
  BY <1>12, <1>a DEF SavePosition
<1>13. CASE PlayBackButton
  BY <1>13, <1>a DEF PlayBackButton
<1>14. CASE RecallButton
  BY <1>14, <1>a DEF RecallButton
<1> QED BY <1>1, <1>2, <1>3, <1>4, <1>5, <1>6, <1>7, <1>8, <1>9, <1>10, <1>11, <1>12, <1>13,
           <1>14 DEF Next

LEMMA SavedStep ==
  ASSUME TypeOK, EepromKept, SavedKept, Next
  PROVE  EepromKept' /\ SavedKept'
<1> USE DEF wheel, calibration, saving, filter
<1>a. ASSUME UNCHANGED <<saving, eeprom>>
      PROVE  EepromKept' /\ SavedKept'
  BY <1>a DEF EepromKept, SavedKept, Cut
<1>1. CASE Restart
  <2>1. UNCHANGED <<eeprom, kept>>
    BY <1>1 DEF Restart
  <2>2. EepromKept'
    BY <2>1 DEF EepromKept, Cut
  <2>3. forgotten' = Buttons \/ saved_positions' = eeprom.saved
    BY <1>1 DEF Restart
  <2>4. SavedKept'
    BY <2>1, <2>3 DEF EepromKept, SavedKept, Cut
  <2> QED BY <2>2, <2>4
<1>2. CASE Press
  <2>1. eeprom'.saved = eeprom.saved /\ UNCHANGED saving
    BY <1>2 DEF Press, TypeOK
  <2> QED BY <2>1 DEF EepromKept, SavedKept, Cut
<1>3. CASE SavePosition
  <2>1. PICK b \in Buttons :
          /\ saved_positions' = [saved_positions EXCEPT ![b] = cur_pos]
          /\ kept' = [kept EXCEPT ![b] = cur_pos]
          /\ forgotten' = forgotten \ {b}
          /\ eeprom' = [eeprom EXCEPT !.saved[b] = Cut(cur_pos)]
    BY <1>3 DEF SavePosition
  <2>2. /\ saved_positions'[b] = cur_pos /\ kept'[b] = cur_pos
        /\ eeprom'.saved[b] = Cut(cur_pos)
    BY <2>1 DEF TypeOK
  <2>3. \A c \in Buttons \ {b} :
          /\ saved_positions'[c] = saved_positions[c] /\ kept'[c] = kept[c]
          /\ eeprom'.saved[c] = eeprom.saved[c]
    BY <2>1 DEF TypeOK
  <2>4. EepromKept'
    BY <2>2, <2>3 DEF EepromKept, Cut
  <2>5. SavedKept'
    BY <2>1, <2>2, <2>3 DEF SavedKept, Cut
  <2> QED BY <2>4, <2>5
<1>4. CASE Turn \/ Slide \/ SendCalibration \/ SendSlider \/ SendPlayBack
  BY <1>4, <1>a DEF Turn, Slide, SendCalibration, SendSlider, SendPlayBack
<1>5. CASE FlashingEnds \/ CalibrationLever \/ ChangeMode \/ DoubleTap
  BY <1>5, <1>a DEF FlashingEnds, CalibrationLever, ChangeMode, DoubleTap
<1>6. CASE PlayBackButton \/ RecallButton
  BY <1>6, <1>a DEF PlayBackButton, RecallButton
<1> QED BY <1>1, <1>2, <1>3, <1>4, <1>5, <1>6 DEF Next

-----------------------------------------------------------------------------
(* The theorems.                                                           *)

LEMMA InitInv == Init => PositionInv
<1> SUFFICES ASSUME Init PROVE PositionInv
  OBVIOUS
<1>1. 0 \in Pots /\ eeprom.pos_1 \in Int /\ eeprom.pos_2 \in Int
  BY PositionAssumption DEF PositionAssumption, Init, Pots
<1>2. SliderPos(0, eeprom.pos_1, eeprom.pos_2) \in Int
  <2>1. \A from, to \in Int : SliderPos(0, from, to) \in Int
    BY SliderInt, PositionAssumption
  <2> QED BY <1>1, <2>1
<1>3. cur_pos \in Int /\ initial_position \in Int
  BY <1>2 DEF Init
<1>4. eeprom \in [pos_1 : Int, pos_2 : Int, saved : [Buttons -> Int]]
      /\ eeprom.saved \in [Buttons -> Int]
  BY DEF Init
<1>5. used \in BOOLEAN /\ ~used
  BY DEF Init
<1>6. TypeOK
  BY <1>1, <1>3, <1>4, <1>5 DEF Init, TypeOK, Free
<1>7. SliderNear
  BY PositionAssumption DEF PositionAssumption, Init, SliderNear, Distance
<1>8. PressesFit /\ FilterFollows /\ WheelFollows /\ SentIsCurrent
  BY <1>5 DEF Init, PressesFit, FilterFollows, WheelFollows, SentIsCurrent, Free, Calibrating
<1>9. EepromKept /\ SavedKept
  BY DEF Init, EepromKept, SavedKept
<1> QED BY <1>6, <1>7, <1>8, <1>9 DEF PositionInv

LEMMA NextInv == PositionInv /\ [Next]_vars => PositionInv'
<1> SUFFICES ASSUME PositionInv, [Next]_vars PROVE PositionInv'
  OBVIOUS
<1>1. CASE Next
  <2>1. TypeOK' /\ PressesFit'
    BY <1>1, PositionAssumption, TypeStep DEF PositionInv
  <2>2. SliderNear' /\ FilterFollows'
    BY <1>1, PositionAssumption, FilterStep DEF PositionInv
  <2>3. WheelFollows'
    BY <1>1, <2>1, PositionAssumption, WheelStep DEF PositionInv
  <2>4. SentIsCurrent'
    BY <1>1, PositionAssumption, SentStep DEF PositionInv
  <2>5. EepromKept' /\ SavedKept'
    BY <1>1, SavedStep DEF PositionInv
  <2> QED BY <2>1, <2>2, <2>3, <2>4, <2>5 DEF PositionInv
<1>2. CASE UNCHANGED vars
  BY <1>2 DEF vars, wheel, filter, calibration, saving, PositionInv, TypeOK, PressesFit,
     SliderNear, Distance, FilterFollows, SliderPos, WheelFollows, ReadPosition, SentIsCurrent,
     EepromKept, SavedKept, Cut
<1> QED BY <1>1, <1>2

LEMMA Invariance == Spec => []PositionInv
BY InitInv, NextInv, PTL DEF Spec

\* The handlers keep their variables of their types, and the presses of a
\* calibration fit the code's two cases (ao_Txr.cpp:496).
THEOREM PositionTyped == Spec => []TypeOK
<1>1. PositionInv => TypeOK
  BY DEF PositionInv
<1> QED BY <1>1, Invariance, PTL

\* What the motor unit was told last is what the handlers go on from
\* (ao_Txr.cpp:306), through restarts, calibrations and modes.
THEOREM CurrentIsSent == Spec => []SentIsCurrent
<1>1. PositionInv => SentIsCurrent
  BY DEF PositionInv
<1> QED BY <1>1, Invariance, PTL

\* The jitter filter leaves the motor no further from the slider than that
\* moves between two samples (ao_Txr.cpp:291), and within the calibration
\* (297), for every range of the slider and every calibration.
THEOREM SliderIsFollowed == Spec => []SliderFollowed
<1>1. PositionInv => SliderFollowed
  <2> SUFFICES ASSUME PositionInv, used PROVE SliderFollowed
    BY DEF SliderFollowed
  <2>1. /\ prev_pos_2 \in Pots
        /\ cur_pos = SliderPos(prev_pos_2, calibration_pos_1, calibration_pos_2)
        /\ raw \in {prev_pos_1, prev_pos_2}
        /\ raw = prev_pos_1 => Distance(prev_pos_1, prev_pos_2) <= Slew
    BY DEF PositionInv, FilterFollows
  <2>2. Distance(raw, prev_pos_2) <= Slew
    <3>1. CASE raw = prev_pos_1
      BY <2>1, <3>1
    <3>2. CASE raw = prev_pos_2
      <4>1. prev_pos_2 \in Int
        BY <2>1 DEF Pots
      <4> QED BY <3>2, <4>1, DistanceToSelf, PositionAssumption DEF PositionAssumption
    <3> QED BY <2>1, <3>1, <3>2
  <2>3. calibration_pos_1 \in Int /\ calibration_pos_2 \in Int
    BY DEF PositionInv, TypeOK
  <2>4. \/ calibration_pos_1 <= cur_pos /\ cur_pos <= calibration_pos_2
        \/ calibration_pos_2 <= cur_pos /\ cur_pos <= calibration_pos_1
    BY <2>1, <2>3, SliderBetween, PositionAssumption
  <2> QED BY <2>1, <2>2, <2>4 DEF SliderFollowed
<1> QED BY <1>1, Invariance, PTL

\* A button plays back what was saved on it, cut to an int at most
\* (ao_Txr.cpp:613), for every width of an int.
THEOREM SavedIsKept == Spec => []SavedKept
<1>1. PositionInv => SavedKept
  BY DEF PositionInv
<1> QED BY <1>1, Invariance, PTL

\* While it calibrates, the motor moves by the clicks of the wheel, whatever the
\* lever does to the multiplier (ao_Txr.cpp:454).
THEOREM MotorNeverJumps == Spec => NoJump
<1> DEFINE A == \/ state \notin Calibrating \/ state' # state \/ Restart
                \/ Distance(cur_pos, cur_pos') <= calibration_multiplier * Clicks
<1>1. PositionInv /\ [Next]_vars => [A]_vars
  <2> SUFFICES ASSUME PositionInv, Next, state \in Calibrating, state' = state, ~Restart
               PROVE  Distance(cur_pos, cur_pos') <= calibration_multiplier * Clicks
    OBVIOUS
  <2> QED BY PositionAssumption, JumpStep DEF PositionInv
<1>2. Spec => [][A]_vars
  BY <1>1, Invariance, PTL DEF Spec
<1> QED BY <1>2 DEF NoJump
=============================================================================
