----------------------------- MODULE TxrBacklog -----------------------------
(***************************************************************************)
(* One backlog of the hand unit's event queue: what can be posted from the *)
(* moment its loop stops idling until the queue is empty again, with the   *)
(* times of the program.  Of the handlers in Txr it keeps how long they    *)
(* take, of the time events how often they expire.                         *)
(*                                                                         *)
(* A tick is 3.9 ms.  A byte written to the EEPROM takes 3.4 ms, and the   *)
(* processor waits for it with interrupts enabled: during a handler there  *)
(* come no more ticks than it writes bytes.  Nothing else that handlers do *)
(* takes long: those of one backlog together need less than a tick, their  *)
(* writes apart.  The idle callback (bsp.cpp:168), in which the console    *)
(* writes to the EEPROM too and the radio waits for its chip, is entered   *)
(* with interrupts disabled (qp.cpp:2296) and enables them at its end: of  *)
(* the ticks it has held back one comes then, with the next perhaps right  *)
(* behind it.                                                              *)
(***************************************************************************)
EXTENDS Naturals, Sequences, FiniteSets

CONSTANTS
  QueueLen,    \* length of txrQueueSto, the ring behind the front event
  MaxInputs    \* events that buttons and lever cause in one backlog (a bound)

ASSUME BacklogAssumption == QueueLen \in Nat /\ MaxInputs \in Nat

\* The ticks between two expirations of a time event, at least.  (Of the
\* double-tap and the calibration time event one is armed at most.)
Interval == [SEND_TIMEOUT_SIG |-> 2, SPEED_AND_ACCEL_TIMEOUT_SIG |-> 64,
             FLASH_RATE_SIG |-> 85, DOUBLE_TAP_OR_CALIBRATION_SIG |-> 256,
             FLUSH_SETTINGS_TIMEOUT_SIG |-> 1024, ALIVE_SIG |-> 1280]

\* Those whose handlers are quick; in the queue they are all "QUICK_SIG".
QuickSigs == DOMAIN Interval \ {"SEND_TIMEOUT_SIG", "FLUSH_SETTINGS_TIMEOUT_SIG"}

\* One interrupt publishes a change of the calibration button, of the lever and
\* of the position buttons, each an "INPUT_SIG".
SamplesOfTick == 3

NoEvt == "NO_EVT"

VARIABLES
  queue, cur,  \* the event queue, and the event that is handled
  sending,     \* the next tick posts SEND_TIMEOUT_SIG
  ticks,       \* the ticks in this backlog
  quick,       \* how many of QuickSigs have not expired in it
  flush,       \* 1 when FLUSH_SETTINGS_TIMEOUT_SIG has not, else 0
  inputs,      \* what buttons and lever may still cause in it
  unsaved,     \* the settings that differ from what the EEPROM holds
  owed         \* the ticks that may come before the next event is taken

backlogVars == <<ticks, quick, flush, inputs, unsaved, owed>>
vars == <<queue, cur, sending, backlogVars>>

Init ==
  /\ queue = <<>> /\ cur = NoEvt
  /\ sending \in BOOLEAN
  /\ ticks = 0 /\ quick = Cardinality(QuickSigs) /\ flush = 1 /\ inputs = MaxInputs
  /\ unsaved = 3 /\ owed = 2

\* The idle callback: the console may change all three settings.
StartIdling ==
  /\ ticks' = 0 /\ quick' = Cardinality(QuickSigs) /\ flush' = 1 /\ inputs' = MaxInputs
  /\ unsaved' = 3 /\ owed' = 2

Idle == queue = <<>> /\ cur = NoEvt

-----------------------------------------------------------------------------

Times(n, sig) == [i \in 1..n |-> sig]

\* The interrupt: q of the quick time events expire, and f of the flush time
\* event, which may be at any time but once in a backlog; and p samples differ.
Posts(q, f, p) ==
  Times(q, "QUICK_SIG") \o Times(f, "FLUSH_SETTINGS_TIMEOUT_SIG")
    \o Times(IF sending THEN 1 ELSE 0, "SEND_TIMEOUT_SIG") \o Times(p, "INPUT_SIG")

Tick ==
  /\ owed > 0
  /\ sending' = ~sending
  /\ \E q \in 0..quick, f \in 0..flush, p \in 0..SamplesOfTick :
       /\ p <= inputs
       /\ queue' = queue \o Posts(q, f, p)
       /\ IF Idle /\ queue' = <<>> THEN UNCHANGED backlogVars
          ELSE /\ ticks' = ticks + 1 /\ owed' = owed - 1
               /\ quick' = quick - q /\ flush' = flush - f /\ inputs' = inputs - p
               /\ UNCHANGED unsaved
  /\ UNCHANGED cur

\* (Mutant) All presets are written, changed or not.
WrittenAll(sig) ==
  CASE sig = "FLUSH_SETTINGS_TIMEOUT_SIG" -> {24}
    [] sig = "INPUT_SIG" -> {0, 2, 2 * unsaved + 1}
    [] OTHER -> {0}

\* The bytes a handler may write, which depends on the state: the settings that
\* have changed, followed by the index when another preset is selected; a saved
\* position; a calibration position.
Written(sig) ==
  CASE sig = "FLUSH_SETTINGS_TIMEOUT_SIG" -> {2 * unsaved}
    [] sig = "INPUT_SIG" -> {0, 2, 2 * unsaved + 1}
    [] OTHER -> {0}

\* What is unsaved after n bytes.  The wheel may change a setting each time it
\* is read.
Unsaved(sig, n) ==
  CASE sig = "FLUSH_SETTINGS_TIMEOUT_SIG" -> 0
    [] sig = "INPUT_SIG" /\ n = 2 * unsaved + 1 -> 0
    [] sig = "SEND_TIMEOUT_SIG" /\ unsaved < 3 -> unsaved + 1
    [] OTHER -> unsaved

\* An event is taken, and handled from here to Finish.  Of the ticks that have
\* not come during a handler one at most is left for the next.
Handle ==
  /\ cur = NoEvt
  /\ queue # <<>>
  /\ cur' = Head(queue)
  /\ queue' = Tail(queue)
  /\ \E n \in Written(Head(queue)) :
       /\ owed' = n + (IF owed > 0 THEN 1 ELSE 0)
       /\ unsaved' = Unsaved(Head(queue), n)
  /\ UNCHANGED <<sending, ticks, quick, flush, inputs>>

Finish ==
  /\ cur # NoEvt
  /\ cur' = NoEvt
  /\ IF queue = <<>> THEN StartIdling ELSE UNCHANGED backlogVars
  /\ UNCHANGED <<queue, sending>>

Next == Tick \/ Handle \/ Finish

Spec == Init /\ [][Next]_vars

-----------------------------------------------------------------------------

\* The queue has room for all that comes while the loop waits for the EEPROM,
\* with all time events expiring in one backlog and the buttons and the lever
\* used (the assertion at qp.cpp:689); and the backlog is over before the first
\* of the slower time events can expire again.
QueueSuffices ==
  /\ Len(queue) <= QueueLen + 1
  /\ \A sig \in DOMAIN Interval \ {"SEND_TIMEOUT_SIG"} : ticks < Interval[sig]

=============================================================================
