-------------------------------- MODULE Txr --------------------------------
(***************************************************************************)
(* The control of the hand unit's active object (Txr/ao_Txr.cpp) together  *)
(* with the parts of the QP framework (libraries/qp/qp.cpp) and the board  *)
(* support (Txr/bsp.cpp) that drive it: the Timer4 interrupt, the time     *)
(* events, the event pool, the event queue and the cooperative loop.       *)
(*                                                                         *)
(* The interrupt does not nest and the loop cannot run inside it, so it is *)
(* one action, Tick.  A handler runs to completion, but it runs with       *)
(* interrupts enabled: the interrupt and the loop meet at the queue, and   *)
(* Tick may happen between taking an event off the queue (Get) and         *)
(* handling it.  The positions, the encoder and the radio packets that the *)
(* handlers also compute are data this module leaves out.                  *)
(*                                                                         *)
(* The mode lever closes the Z contact, the FREE contact or, between the   *)
(* two and in play back, neither; it is taken never to close both, where   *)
(* the interrupt would test Z first (bsp.cpp:76) and the handlers FREE     *)
(* (ao_Txr.cpp:360, 553).  What time handlers take is left to TxrBacklog.  *)
(***************************************************************************)
EXTENDS Naturals, Sequences, FiniteSets, Functions

CONSTANTS
  QueueLen,          \* length of txrQueueSto, the ring behind the front event
  PoolSize,          \* number of blocks in smlPoolSto
  PositionButtons,   \* the four position buttons
  PeriodicSigs,      \* the signals of the time events posted for ever
  Period,            \* the interval of each of them, in ticks
  FlashRateTout, FlashDurationTout, DoubleTapTout   \* in ticks

ModeSigs == {"PLAY_BACK_MODE_SIG", "FREE_RUN_MODE_SIG", "Z_MODE_SIG"}

\* The signals the interrupt publishes, each in a block of the event pool.
PooledSigs == ModeSigs \cup {"ENC_DOWN_SIG", "ENC_UP_SIG", "POSITION_BUTTON_SIG"}

OneShotSigs == {"FLASH_RATE_SIG", "CALIBRATION_SIG", "DOUBLE_TAP_SIG"}

TimeSigs == PeriodicSigs \cup OneShotSigs

Sigs == TimeSigs \cup PooledSigs

NoEvt == "NO_EVT"

ASSUME TxrAssumption ==
  /\ QueueLen \in Nat
  /\ PoolSize \in Nat
  /\ PeriodicSigs \subseteq {"SEND_TIMEOUT_SIG", "SPEED_AND_ACCEL_TIMEOUT_SIG",
                             "FLUSH_SETTINGS_TIMEOUT_SIG", "ALIVE_SIG"}
  /\ Period \in [PeriodicSigs -> Nat \ {0}]
  /\ FlashRateTout \in Nat \ {0}
  /\ FlashDurationTout \in Nat \ {0}
  /\ DoubleTapTout \in Nat \ {0}

\* The leaf states below `calibrated`, and the one each mode signal selects.
Modes == {"play_back_mode", "free_run_mode", "z_mode"}

ModeOf == [PLAY_BACK_MODE_SIG |-> "play_back_mode",
           FREE_RUN_MODE_SIG  |-> "free_run_mode",
           Z_MODE_SIG         |-> "z_mode"]

States == Modes \cup {"uncalibrated", "flashing"}

\* The assertions that can fail, each named for the object that raises it.
ArmFaults == {"arm_flash", "arm_calibration", "arm_double_tap"}
Faults == ArmFaults \cup {"queue", "pool"}

VARIABLES
  \* the active object
  state, enc_pushes, double_tapping, flashing_position_button,
  \* the framework: time events, event queue and pool, and the event the
  \* loop has taken and not yet finished with
  ctr, interval, queue, free, cur,
  \* the interrupt's previous samples, and the mode lever itself
  prev_button_state, prev_mode_state, prev_position_state, lever,
  \* the assertion that has failed, if one has
  fault

aoVars     == <<state, enc_pushes, double_tapping, flashing_position_button>>
timerVars  == <<ctr, interval>>
evtVars    == <<queue, free, cur>>
sampleVars == <<prev_button_state, prev_mode_state, prev_position_state>>
vars       == <<aoVars, timerVars, evtVars, sampleVars, lever, fault>>

TypeOK ==
  /\ state \in States
  /\ enc_pushes \in 0..2
  /\ double_tapping \in BOOLEAN
  /\ flashing_position_button \in BOOLEAN
  /\ ctr \in [TimeSigs -> Nat]
  /\ interval \in [TimeSigs -> Nat]
  /\ queue \in Seq(Sigs)
  /\ Len(queue) <= QueueLen + 1
  /\ free \in Nat
  /\ cur \in Sigs \cup {NoEvt}
  /\ prev_button_state \in BOOLEAN
  /\ prev_mode_state \in ModeSigs \cup {"none"}
  /\ prev_position_state \in SUBSET PositionButtons
  /\ lever \in ModeSigs
  /\ fault \in Faults \cup {"none"}

-----------------------------------------------------------------------------
(* Start of the program: setup() up to QF::run.                            *)

\* `initial` posts the periodic time events; the others are disarmed.
InitialTimers == [t \in TimeSigs |-> IF t \in PeriodicSigs THEN Period[t] ELSE 0]

\* `initial` goes to calibration when the settings ask for it, else to the
\* state of the lever, which it reads itself.
InitialStates == {"uncalibrated", ModeOf[lever]}

Init ==
  /\ lever \in ModeSigs
  /\ state \in InitialStates
  /\ enc_pushes = 0
  /\ double_tapping = FALSE
  /\ flashing_position_button = FALSE
  /\ ctr = InitialTimers
  /\ interval = InitialTimers
  /\ queue = <<>>
  /\ free = PoolSize
  /\ cur = NoEvt
  /\ prev_button_state = FALSE
  /\ prev_mode_state = "none"
  /\ prev_position_state = {}
  /\ fault = "none"

\* A failed assertion jumps to address 0: the memory is initialised again,
\* the lever stays where it is.
Reboot ==
  /\ fault # "none"
  /\ state' \in InitialStates
  /\ enc_pushes' = 0
  /\ double_tapping' = FALSE
  /\ flashing_position_button' = FALSE
  /\ ctr' = InitialTimers
  /\ interval' = InitialTimers
  /\ queue' = <<>>
  /\ free' = PoolSize
  /\ cur' = NoEvt
  /\ prev_button_state' = FALSE
  /\ prev_mode_state' = "none"
  /\ prev_position_state' = {}
  /\ fault' = "none"
  /\ UNCHANGED lever

-----------------------------------------------------------------------------
(* The Timer4 interrupt.                                                   *)

Expired == {t \in TimeSigs : ctr[t] = 1}

\* The ways to list a finite set.
Orders(S) == {s \in [1..Cardinality(S) -> S] : Range(s) = S /\ IsInjective(s)}

\* QF::tick posts in the order of its list, newest link first.  The periodic
\* time events were linked first and are never unlinked: they come last and in
\* a fixed order.  The order of the others depends on when each was linked.
ExpiredPosts ==
  LET last == CHOOSE s \in Orders(Expired \cap PeriodicSigs) : TRUE
  IN  {first \o last : first \in Orders(Expired \cap OneShotSigs)}

\* An armed counter goes down; one that reaches 0 restarts at its interval.
TickedCtr == [t \in TimeSigs |-> IF ctr[t] = 1 THEN interval[t]
                                 ELSE IF ctr[t] = 0 THEN 0 ELSE ctr[t] - 1]

\* What the interrupt publishes when it samples the calibration button as b,
\* the lever where it stands, and the position buttons in `held` as pressed.
EncPosts(b) ==
  IF b = prev_button_state THEN <<>>
  ELSE IF b THEN <<"ENC_DOWN_SIG">> ELSE <<"ENC_UP_SIG">>

\* (Mutant) A move of the lever is missed when the queue is in use.
ModePostsToEmpty == IF lever = prev_mode_state \/ queue # <<>> THEN <<>> ELSE <<lever>>

ModePosts == IF lever = prev_mode_state THEN <<>> ELSE <<lever>>

PositionPosts(held) ==
  IF held \ prev_position_state = {} THEN <<>> ELSE <<"POSITION_BUTTON_SIG">>

Published(b, held) == EncPosts(b) \o ModePosts \o PositionPosts(held)

\* (Mutant) One place too many.
QueueTakesOneMore(posts) == Len(queue) + Len(posts) <= QueueLen + 2

\* The queue holds the front event and QueueLen more.
QueueTakes(posts) == Len(queue) + Len(posts) <= QueueLen + 1

TickAccepted(b, held) ==
  \E order \in ExpiredPosts :
    /\ QueueTakes(order \o Published(b, held))
    /\ Len(Published(b, held)) <= free
    /\ ctr' = TickedCtr
    /\ queue' = queue \o order \o Published(b, held)
    /\ free' = free - Len(Published(b, held))
    /\ prev_button_state' = b
    /\ prev_mode_state' = lever
    /\ prev_position_state' = held
    /\ UNCHANGED <<aoVars, interval, cur, lever, fault>>

\* A post to a full queue, or a new event from an empty pool, fails an
\* assertion; nothing the interrupt did before that survives the reset.
Fail(f) ==
  /\ fault' = f
  /\ UNCHANGED <<aoVars, timerVars, evtVars, sampleVars, lever>>

TickRefused(b, held) ==
  \/ /\ Len(queue) + Cardinality(Expired) + Len(Published(b, held)) > QueueLen + 1
     /\ Fail("queue")
  \/ /\ Len(Published(b, held)) > free
     /\ Fail("pool")

Tick ==
  /\ fault = "none"
  /\ \E b \in BOOLEAN, held \in SUBSET PositionButtons :
       TickAccepted(b, held) \/ TickRefused(b, held)

\* The user moves the lever; the interrupt, 256 times a second, samples every
\* position it rests in.
MoveLever ==
  /\ fault = "none"
  /\ prev_mode_state \in {lever, "none"}
  /\ lever' \in ModeSigs \ {lever}
  /\ UNCHANGED <<aoVars, timerVars, evtVars, sampleVars, fault>>

-----------------------------------------------------------------------------
(* The loop, QF::run: take an event, handle it, recycle it.                *)

Get ==
  /\ fault = "none"
  /\ cur = NoEvt
  /\ queue # <<>>
  /\ cur' = Head(queue)
  /\ queue' = Tail(queue)
  /\ UNCHANGED <<aoVars, timerVars, free, sampleVars, lever, fault>>

Handling(sig) == fault = "none" /\ cur = sig

\* (Mutant) The block is never given back.
RecycleLost ==
  /\ cur' = NoEvt
  /\ UNCHANGED <<queue, free, sampleVars, lever, fault>>

\* QF::gc after the handler gives the block of a pooled event back.
Recycle ==
  /\ cur' = NoEvt
  /\ free' = IF cur \in PooledSigs THEN free + 1 ELSE free
  /\ UNCHANGED <<queue, sampleVars, lever, fault>>

\* The time events after leaving leaf state s: z_mode's exit leaves the flash
\* time event armed.
AfterExit(s) ==
  IF s = "z_mode" \/ s = "uncalibrated" THEN ctr
  ELSE [ctr EXCEPT !["FLASH_RATE_SIG"] = 0]

\* (Mutant) The double-tap window stays open when a mode is entered.
EnterModeTapping(m) ==
  /\ state' = m
  /\ ctr' = AfterExit(state)
  /\ UNCHANGED <<enc_pushes, double_tapping, flashing_position_button,
                 interval>>

\* Entering a mode from leaf state `state`.
EnterMode(m) ==
  /\ state' = m
  /\ double_tapping' = FALSE
  /\ ctr' = AfterExit(state)
  /\ UNCHANGED <<enc_pushes, flashing_position_button, interval>>

\* (Mutants) Both time events periodic; only the light's.
FlashingTimersPeriodic ==
  /\ ctr' = [ctr EXCEPT !["FLASH_RATE_SIG"] = FlashRateTout,
                        !["CALIBRATION_SIG"] = FlashDurationTout]
  /\ interval' = [interval EXCEPT !["FLASH_RATE_SIG"] = FlashRateTout,
                                  !["CALIBRATION_SIG"] = FlashDurationTout]

FlashingTimersRateOnly ==
  /\ ctr' = [ctr EXCEPT !["FLASH_RATE_SIG"] = FlashRateTout]
  /\ interval' = [interval EXCEPT !["FLASH_RATE_SIG"] = FlashRateTout]

\* The time events once `flashing` has been entered.
FlashingTimers ==
  /\ ctr' = [ctr EXCEPT !["FLASH_RATE_SIG"] = FlashRateTout,
                        !["CALIBRATION_SIG"] = FlashDurationTout]
  /\ interval' = [interval EXCEPT !["FLASH_RATE_SIG"] = FlashRateTout,
                                  !["CALIBRATION_SIG"] = 0]

\* uncalibrated, ENC_DOWN_SIG: a calibration position is taken, and `flashing`
\* is entered.  QTimeEvt::arm_ requires both time events disarmed.
UncalibratedEncDown ==
  /\ Handling("ENC_DOWN_SIG")
  /\ state = "uncalibrated"
  /\ \/ /\ ctr["FLASH_RATE_SIG"] = 0
        /\ ctr["CALIBRATION_SIG"] = 0
        /\ state' = "flashing"
        /\ enc_pushes' = enc_pushes + 1
        /\ FlashingTimers
        /\ Recycle
        /\ UNCHANGED <<double_tapping, flashing_position_button>>
     \/ ctr["FLASH_RATE_SIG"] # 0 /\ Fail("arm_flash")
     \/ /\ ctr["FLASH_RATE_SIG"] = 0
        /\ ctr["CALIBRATION_SIG"] # 0
        /\ Fail("arm_calibration")

\* (Mutant) The lever is not read again.
FlashingCalibrationPlayBack ==
  /\ Handling("CALIBRATION_SIG")
  /\ state = "flashing"
  /\ \/ enc_pushes >= 2 /\ EnterMode("play_back_mode")
     \/ /\ enc_pushes < 2
        /\ state' = "uncalibrated"
        /\ ctr' = AfterExit("flashing")
        /\ UNCHANGED <<enc_pushes, double_tapping,
                       flashing_position_button, interval>>
  /\ Recycle

\* flashing, CALIBRATION_SIG: back to `uncalibrated`, which is not entered
\* anew, or, after the second press, on to the state of the lever.
FlashingCalibration ==
  /\ Handling("CALIBRATION_SIG")
  /\ state = "flashing"
  /\ \/ enc_pushes >= 2 /\ EnterMode(ModeOf[lever])
     \/ /\ enc_pushes < 2
        /\ state' = "uncalibrated"
        /\ ctr' = AfterExit("flashing")
        /\ UNCHANGED <<enc_pushes, double_tapping,
                       flashing_position_button, interval>>
  /\ Recycle

\* calibrated, a mode signal: the leaf state is left and the selected one
\* entered, also when they are the same.
CalibratedMode ==
  /\ fault = "none"
  /\ cur \in ModeSigs
  /\ state \in Modes
  /\ EnterMode(ModeOf[cur])
  /\ Recycle

\* (Mutant) The timeout leaves the window open.
CalibratedDoubleTapKept ==
  /\ Handling("DOUBLE_TAP_SIG")
  /\ state \in Modes
  /\ Recycle
  /\ UNCHANGED <<aoVars, timerVars>>

\* calibrated, DOUBLE_TAP_SIG.  The handler returns an uninitialised status.
\* In bin/Txr.ino.leonardo-2.35.hex it is what QActive::get_ leaves in r18,
\* the length of the ring: none of the codes QHsm::dispatch acts on.
CalibratedDoubleTap ==
  /\ Handling("DOUBLE_TAP_SIG")
  /\ state \in Modes
  /\ double_tapping' = FALSE
  /\ Recycle
  /\ UNCHANGED <<state, enc_pushes, flashing_position_button, timerVars>>

\* (Mutant) The presses are not counted anew.
CalibratedSecondTapCounting ==
  /\ Handling("ENC_UP_SIG")
  /\ state \in Modes
  /\ double_tapping
  /\ ctr' = [AfterExit(state) EXCEPT !["DOUBLE_TAP_SIG"] = 0]
  /\ state' = "uncalibrated"
  /\ Recycle
  /\ UNCHANGED <<enc_pushes, double_tapping, flashing_position_button,
                 interval>>

\* calibrated, ENC_UP_SIG, the second of a double tap: calibration starts.
CalibratedSecondTap ==
  /\ Handling("ENC_UP_SIG")
  /\ state \in Modes
  /\ double_tapping
  /\ ctr' = [AfterExit(state) EXCEPT !["DOUBLE_TAP_SIG"] = 0]
  /\ enc_pushes' = 0
  /\ state' = "uncalibrated"
  /\ Recycle
  /\ UNCHANGED <<double_tapping, flashing_position_button, interval>>

\* calibrated, ENC_UP_SIG, a single tap: the encoder changes what it adjusts
\* (encoder_mode_, in Wheel), and the time for a second tap starts.
CalibratedTap ==
  /\ Handling("ENC_UP_SIG")
  /\ state \in Modes
  /\ ~double_tapping
  /\ \/ /\ ctr["DOUBLE_TAP_SIG"] = 0
        /\ ctr' = [ctr EXCEPT !["DOUBLE_TAP_SIG"] = DoubleTapTout]
        /\ interval' = [interval EXCEPT !["DOUBLE_TAP_SIG"] = 0]
        /\ double_tapping' = TRUE
        /\ Recycle
        /\ UNCHANGED <<state, enc_pushes, flashing_position_button>>
     \/ ctr["DOUBLE_TAP_SIG"] # 0 /\ Fail("arm_double_tap")

\* The button's light starts to flash.
FlashButton ==
  /\ flashing_position_button' = TRUE
  /\ ctr' = [ctr EXCEPT !["FLASH_RATE_SIG"] = FlashRateTout]
  /\ interval' = [interval EXCEPT !["FLASH_RATE_SIG"] = 0]

\* free_run_mode, POSITION_BUTTON_SIG: the position is saved, unless the light
\* of an earlier save has not finished.
SavePosition ==
  /\ Handling("POSITION_BUTTON_SIG")
  /\ state = "free_run_mode"
  /\ ctr["FLASH_RATE_SIG"] = 0
  /\ FlashButton
  /\ Recycle
  /\ UNCHANGED <<state, enc_pushes, double_tapping>>

\* play_back_mode and z_mode, POSITION_BUTTON_SIG: a position or a preset is
\* recalled; the flash time event is disarmed before it is armed.
RecallButton ==
  /\ Handling("POSITION_BUTTON_SIG")
  /\ state \in {"play_back_mode", "z_mode"}
  /\ FlashButton
  /\ Recycle
  /\ UNCHANGED <<state, enc_pushes, double_tapping>>

\* free_run_mode, play_back_mode and z_mode, FLASH_RATE_SIG.
FlashDone ==
  /\ Handling("FLASH_RATE_SIG")
  /\ state \in Modes
  /\ flashing_position_button' = FALSE
  /\ Recycle
  /\ UNCHANGED <<state, enc_pushes, double_tapping, timerVars>>

\* The events whose handlers, from the state up to QHsm::top, change only
\* data, LEDs or settings, or nothing.
NoControl ==
  \/ cur \in PeriodicSigs
  \/ /\ state = "uncalibrated"
     /\ cur \in Sigs \ {"ENC_DOWN_SIG"}
  \/ /\ state = "flashing"
     /\ cur \in Sigs \ {"CALIBRATION_SIG"}
  \/ state \in Modes /\ cur \in {"ENC_DOWN_SIG", "CALIBRATION_SIG"}
  \/ /\ state = "free_run_mode"
     /\ cur = "POSITION_BUTTON_SIG"
     /\ ctr["FLASH_RATE_SIG"] # 0

DispatchOther ==
  /\ fault = "none"
  /\ NoControl
  /\ Recycle
  /\ UNCHANGED <<aoVars, timerVars>>

Dispatch ==
  \/ UncalibratedEncDown \/ FlashingCalibration \/ CalibratedMode
  \/ CalibratedDoubleTap \/ CalibratedSecondTap \/ CalibratedTap
  \/ SavePosition \/ RecallButton \/ FlashDone \/ DispatchOther

Next == Tick \/ MoveLever \/ Get \/ Dispatch \/ Reboot

Spec == Init /\ [][Next]_vars

\* The timer keeps interrupting, the loop keeps taking and handling events,
\* and the jump to address 0 is not delayed.
Fairness == WF_vars(Tick) /\ WF_vars(Get) /\ WF_vars(Dispatch) /\ WF_vars(Reboot)

FairSpec == Spec /\ Fairness

-----------------------------------------------------------------------------
(* Properties.                                                             *)

\* sig is in the queue, or is the event the loop holds.
Queued(sig) == sig \in Range(queue)
InFlight(sig) == cur = sig \/ Queued(sig)

\* There is one of sig and no more: its counter runs, or it is queued, or it
\* is held.
Once(sig) ==
  /\ \A i, j \in DOMAIN queue : queue[i] = sig /\ queue[j] = sig => i = j
  /\ ~(ctr[sig] # 0 /\ InFlight(sig))
  /\ ~(cur = sig /\ Queued(sig))

\* `flashing` is left by CALIBRATION_SIG and by nothing else.  In every state
\* of the program the signal is on its way exactly when `flashing` is active,
\* and then once: no late or second one can reach `calibrated`, whose handler
\* for it returns an uninitialised status (ao_Txr.cpp:522), and the time event
\* is never armed while it runs.
CalibrationTimeout ==
  /\ state = "flashing" <=> (ctr["CALIBRATION_SIG"] # 0 \/ InFlight("CALIBRATION_SIG"))
  /\ Once("CALIBRATION_SIG")
  /\ fault # "arm_calibration"

\* The presses counted since the last double tap fit the state: at most one
\* before the next press, at least one while its light flashes, and never a
\* third (ao_Txr.cpp:440, 552).
PressesFitState ==
  /\ state = "uncalibrated" => enc_pushes <= 1
  /\ state = "flashing" => enc_pushes \in {1, 2}
  /\ state \in Modes => enc_pushes \in {0, 2}

\* In a mode, an open double-tap window has its timeout on the way, so a tap
\* cannot be paired with one long after it (ao_Txr.cpp:496, 516, 586).
TapWindow ==
  state \in Modes /\ double_tapping =>
    ctr["DOUBLE_TAP_SIG"] # 0 \/ InFlight("DOUBLE_TAP_SIG")

\* Every block of the event pool is free, or holds one queued event, or the
\* one being handled: none is lost and none is recycled twice.
PooledQueued == {i \in DOMAIN queue : queue[i] \in PooledSigs}

PoolAccounting ==
  free + Cardinality(PooledQueued) + (IF cur \in PooledSigs THEN 1 ELSE 0) = PoolSize

\* Once the interrupt has sampled the lever and the loop has handled what the
\* interrupt published, the mode is the lever's, although the lever is read in
\* two places (bsp.cpp:74, ao_Txr.cpp:360 and 553).
ModeAgreement ==
  state \in Modes /\ prev_mode_state = lever /\ (\A m \in ModeSigs : ~InFlight(m))
    => state = ModeOf[lever]

\* QTimeEvt::arm_ asserts that a time event is disarmed before it is armed
\* (qp.cpp:1804).  For the double-tap and the flash time event the handlers do
\* not ensure it.
DoubleTapArmedOnce == fault # "arm_double_tap"
FlashArmedOnce == fault # "arm_flash"

\* The flashing that confirms a calibration press comes to an end.
FlashingEnds == state = "flashing" ~> state # "flashing"

\* A mode is left for the one the lever selects, unless the lever moves on,
\* calibration starts or the program is reset.
LeverObeyed ==
  \A m \in ModeSigs :
    (lever = m /\ state \in Modes)
      ~> (state = ModeOf[m] \/ lever # m \/ state \notin Modes \/ fault # "none")

\* An open double-tap window is closed in the end.
TapWindowCloses ==
  (state \in Modes /\ double_tapping) ~> (~double_tapping \/ state \notin Modes)

=============================================================================
