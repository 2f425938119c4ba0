# Lenzhound: specifications of the firmware

Lenzhound is a wireless follow-focus: a hand unit (**Txr**) whose wheel, buttons
and mode lever command a motor unit (**Rxr**) over a radio link. Both are
Arduino Leonardos (AVR; `int` is 16 bits, `long` 32). This directory holds TLA+
modules of the firmware, the TLC configurations that check them on small
instances, and theorems about them that TLAPS proves for every value of the
constants.

    tlc -workers 2 -config Txr.cfg MCTxr.tla
    tlapm TxrProofs.tla

## 1. The system

| Component | Source | State | Operations | Talks to |
|---|---|---|---|---|
| Active object | `Txr/ao_Txr.cpp` | leaf state, presses, flags, seven time events, positions | `initial` and the handlers of `on`, `uncalibrated`, `calibrated`, `flashing`, `free_run_mode`, `play_back_mode`, `z_mode` | events from the framework; settings, radio, LEDs by call |
| QP framework | `libraries/qp/qp.cpp` | event queue (front event and a ring of 10), pool of 10 blocks, list of time events | `postFIFO`, `get_`, `new_`, `gc`, `publish`, `tick`, `arm_`, `disarm`, `dispatch`, `run` | interrupt and loop |
| Board support | `Txr/bsp.cpp`, `Txr.ino` | last samples of the switches | Timer4 interrupt (256/s), `onStartup`, `onIdle`, `BSP_get_*`, `Q_onAssert` (software reset) | framework |
| Settings (Txr) | `Txr/settings.cpp` | EEPROM, three debounced values | init with sentinel, preset selection, flush every 4 s | active object, serial API |
| Radio (Txr) | `Txr/radio.cpp` | ring of 64 messages, channel | queue, send one per idle call, supervise | Mirf |
| Radio (Rxr) | `Rxr/radio.cpp` | ring, name assembly | `_process_packet`, queue, send | controller, settings, Mirf |
| Motor controller | `Rxr/controller.cpp`, `motor.cpp`, `util.h` | `controller_state_t`, driver pins | `controller_run` from the interrupt (6000/s); move, initialise, uninitialise, speed, accel, driver from the loop | pins; commanded by radio and serial |
| Settings (Rxr) | `Rxr/settings.h` | EEPROM | lazily reset to defaults | radio, setup |
| Serial API, console | `*/serial_api.cpp`, `*/console.cpp` | line buffers, response buffer | parse, execute, print | settings, radio, controller |
| Mirf, Encoder, NewTimerOne | `libraries/`, `Rxr/` | chip registers | send, poll; count; start the timer | |

The behaviours that are hard:

* In Txr the interrupt and the loop meet at the queue, the pool and the time
  events. A handler runs to completion, but events it has not seen may already
  be queued, `disarm` does not take back what is queued, and a failed assertion
  resets the device.
* In Rxr there is no queue at all: the interrupt reads and writes the variables
  the loop is storing, four bytes at a time.
* Both lose power at any time, and the radio loses packets.

What makes each part correct:

* Active object: flashing always ends, and by its own timeout; presses fit the
  state; the double tap pairs only taps within its window; the mode is the
  lever's; no time event is armed twice; a position is saved only when the last
  save has been shown.
* Framework as used: no block of the pool is lost; the queue takes what comes
  while the loop waits for the EEPROM.
* Motor controller: the motor ends exactly at its target and sleeps; it never
  crosses its target; its speed stays below what the arithmetic bears; a pulse
  turns an awake motor in the direction accounted for.
* Positions: the position sent is the one the handlers go on from; a mode
  change, a recalled preset or a calibration never makes the motor jump; what is
  saved on a button is what it plays back.
* Settings: what is read back after power loss was stored for that preset, and
  can be used; the wheel that sets them is counted and converted without loss.
* Radio link: no target is executed after a newer one, the newest that was sent
  becomes the receiver's unless it was lost or overrun, and the receiver's
  settings become the transmitter's, in spite of loss and restarts.
* Libraries: the ring with its front event is a queue; the list of time events
  counts each of them once a tick; a transition exits and enters the states
  between its source and its target and no others; what the console prints does
  not get into what it reads.

## 2. Modules

| Module | Role |
|---|---|
| `Txr` | active object, framework and board support of the hand unit, composed |
| `TxrBacklog` | one backlog of its event queue, with the times of the program |
| `TxrPosition` | which position the handlers make of wheel, slider and buttons |
| `Wheel` | which speed and acceleration they make of the wheel |
| `Encoder` | the wheel's interrupt and the count the loop reads |
| `TxrSettings` | the hand unit's settings in the EEPROM, byte by byte |
| `Profiles` | what they promise, abstractly; `TxrSettings` implements it |
| `RadioLink` | the hand unit's message ring, the air and chips, the motor unit's handling of packets |
| `RxrController` | interrupt and loop of the motor unit |
| `RxrSettings` | its settings, byte by byte, and the channel it is on |
| `QEQueue` | the framework's event queue, a ring with a front event |
| `BoundedQueue` | what a queue promises; `QEQueue` implements it |
| `QTimeEvt` | the framework's linked list of time events and the tick that walks it |
| `Timers` | what time events promise; `QTimeEvt` implements it |
| `QHsm` | the framework's hierarchical dispatch, for every tree of states |
| `SerialApi` | the console's two buffers |
| `Mirf` | the radio's driver and its chip, between two commands |
| `TxrProofs`, `TxrPositionProofs`, `TxrSettingsProofs`, `RxrProofs`, `RadioLinkProofs` | theorems about the modules they are named after (`RxrProofs`: `RxrController`) |
| `SettingsProofs` | theorems about `RxrSettings`, `Wheel` and `Encoder`, and about `MCSettings` |
| `HsmProofs` | the theorem about `QHsm` |
| `LibrariesProofs` | theorems about `QEQueue`, `QTimeEvt`, `SerialApi` and `Mirf`, and about `MCLibraries` |
| `MCTxr`, `MCRxrController`, `MCRadioLink`, `MCTxrPosition` | instances for TLC |
| `MCTxrSave` | `MCTxr` with a history variable: whether a light flashes for a position that was saved |
| `MCSettings` | instance: `TxrSettings`, `Encoder`, `Wheel` and `RxrSettings` |
| `MCLibraries` | instance: `QEQueue`, `QTimeEvt`, `QHsm`, `SerialApi` and `Mirf` |

The last two put components side by side that do not touch each other's state. A
variable `component` says which of them a behaviour is of; the others stay as
they start, and so the state space is the sum of theirs and not the product.

How the modules fit together: `Txr` queues its events in a sequence, which
`QEQueue` shows the ring to be, has counters for its time events, which
`QTimeEvt` shows the list to be, and makes the transitions that `QHsm` says
dispatch makes. `TxrPosition` and `Wheel` are the data of the handlers whose
control is in `Txr`; `Encoder` is where their count comes from. `RadioLink`
carries what they send to what `RxrController` executes: its `SETTING_SET`,
`TARGET_POSITION_SET` and `RE_INIT_POSITION` are the commands `SetSpeed`,
`SetAccel`, `Move`, `Initialize` and `Uninitialize` there.

### Txr

`state` is the leaf state of the machine. `ctr` and `interval` are `m_ctr` and
`m_interval` of each time event; `queue` is the front event followed by the
ring; `free` counts the pool; `cur` is the event between `get_` and `gc`. The
`prev_*` variables are the interrupt's static samples, `lever` is the switch
itself, `fault` the assertion that has just failed.

* `Tick` is the whole of Timer4's interrupt: `QF::tick` (expired time events
  post themselves), then what `ENC`, lever and position samples publish.
  `TickRefused` is the same interrupt when a post finds the queue full or `new_`
  the pool empty: nothing it did survives the reset.
* `Get` takes an event; each handler branch that changes control is an action
  (`UncalibratedEncDown` ... `FlashDone`); the exits and entries of the
  transition and `gc` are part of it. `DispatchOther` is every branch that
  changes only data; data is also what the encoder adjusts, `encoder_mode_`,
  which is in `Wheel`.
* `Reboot` is the jump to address 0 in `Q_onAssert`.
* `MoveLever` is the user. The lever rests in each position for a sample: the
  interrupt runs 256 times a second. It is one of three clean positions, which
  every reader decodes alike. In the code it is two contacts, of which the
  interrupt tests that of Z first (`bsp.cpp:76`) and the handlers ask for FREE
  first (`ao_Txr.cpp:360`, `553`): with both closed they would disagree, and
  `ModeAgreement` says nothing of that.

A handler is one action, although the interrupt may come in the middle: a
handler makes at most two changes the interrupt reads (two time events armed in
`flashing`'s entry, each under a critical section), and a tick between them
differs from one after them by a tick of one counter.

`CalibratedDoubleTap` and the unreachable `CALIBRATION_SIG` branch of
`calibrated` return an uninitialised status. What the build returns was read off
`bin/Txr.ino.leonardo-2.35.hex`: a value dispatch does not act on.

`QF::tick` posts in the order of its list. The four periodic time events are
linked first and never unlinked, so they come last in a fixed order; the order
of the others is left open.

### TxrBacklog

`Txr` has no clock: nothing in it says how much may be posted before the loop
takes an event. `TxrBacklog` keeps of `Txr` only how long things take. A tick is
3.9 ms. A byte of the EEPROM is 3.4 ms, waited for with interrupts enabled, so
there are no more ticks in a handler than bytes it writes (`Written`): two for
each changed setting at a flush, the same and the index for another preset, two
for a saved position or one of the calibration. The rest of the handlers of one
backlog takes less than a tick.

What takes longest is not in a handler: the console, which writes up to 42 bytes
for a name, and the radio's wait for its chip (`radio.cpp:33`) are both called
from `onIdle`. That is entered with interrupts disabled (`qp.cpp:2296`) and
enables them as its last statement (`bsp.cpp:187`). The timer's flag holds one
interrupt back, not all, so what comes at the end of the idle callback is one
tick, and perhaps the next. (`owed` is 2 there, and after a handler at most 1.)
The price is paid elsewhere: ticks are missed, and so are edges of the wheel
beyond the one that the flag holds.

A backlog begins when the loop stops idling and ends when the queue is empty and
nothing is handled. In one, each time event but SEND_TIMEOUT_SIG expires at most
once, which `QueueSuffices` shows to be so and does not assume: it ends before
the fastest of them comes again. The buttons and the lever cause at most
`MaxInputs` events, 3: of a backlog of some tens of milliseconds that is a lot
for fingers. With 4, and every slow time event in the same backlog, the queue
does overflow.

### RxrController

The variables are the fields of `controller_state_t` that matter to the motion,
the pins `awake` and `dir_pin`, and `job`, what the loop is in the middle of.
`Run` is `controller_run`, indivisible. The loop's functions are cut at each
store, but for the reset of `run_count` and for `controller_set_motor_driver`,
whose parts no property tells apart, and each 32-bit store may be interrupted:
`Torn(old, new, m)` has the part of `new` below `m`. The build stores the low
byte first; cut after the first byte or after the second, a store of a whole
step over a whole step changes nothing, cut later it mixes the two. In the run
`Rxr` a step is 4, the first byte ends at 4 and the third at 8.

The two mirrored halves of `controller_run` are one definition measured along
the direction of motion (`Sign`). `decel_threshold` is the fixed-point quotient;
a torn denominator of 0 gives -1 on this target.

Positions are unbounded integers: the overflow of the conversion beyond 65535
steps is a hazard listed and not modelled. `controller_set_current_level`, the
microstep pins and the unused `mode` change nothing the motion reads.

### TxrSettings

`mem` is the EEPROM, `live` is `settings_state`, `job` the function the loop is
in with the byte writes it has still to make. Each function of `settings.cpp` is
its list of writes (`FlushWrites`, `InitWrites`, `SelectWrites`), computed when
it is called: nothing else writes the EEPROM meanwhile, and no write depends on
one made earlier in the list. `WriteByte` makes the next write, `Return` reads
the debounced values back where the code does. `PowerLoss` comes between any two
bytes, and stands for a reset by a failed assertion in the interrupt too.

`ProfilesSpec` is the refinement: `Profiles` has one profile per preset, of
which the user changes the selected one, and which are made defaults all at
once. A profile is mapped to the EEPROM's bytes, except that the selected one is
mapped to `live` while `live` is what the user sees of it. The abstract promise
is: a change of preset loses nothing, the defaults appear all at once however
often the power failed while they were written, and a power loss changes the
selected profile only.

`Indices`, the presets asked for, are in the run those that read back (0 to
`MaxIndex`, as the four buttons give). `settings.h` has room for six, and
SERIAL_PRESET_INDEX_SET takes any: with an index above the fourth, the values
are read back for the preset asked for and flushed into the fourth. With such an
index in `Indices`, `ProfilesSpec` does not hold; nothing in the repository says
what should happen.

Left out: the id, the name and the channel, which are written at once by their
setters. The calibration and the saved positions are in `TxrPosition`, the
encoding of the acceleration in `Wheel`.

### TxrPosition

The states and buttons of `Txr`, without its queue and its time: a timeout, a
signal or a press may come at any time, and the lever is read as anything.
`SendCalibration`, `SendSlider` and `SendPlayBack` are what the handlers do at
SEND_TIMEOUT_SIG; `sent` is what they queued last. `raw` is the slider at that
timeout and `pot` where it is now. `eeprom` has the calibration and the saved
positions as 16 bits (`Cut`), the variables have them as 32; the two bytes of
one are written in one step, although power may fail between them. `SliderPos`
is `map`, whose division rounds towards zero.

The variables `used`, `kept` and `forgotten` are for the properties: whether a
sample has been used since the mode was entered, what the user has saved, and on
which buttons a start in calibration left the saved positions unread
(`ao_Txr.cpp:353`).

### Wheel and Encoder

`Wheel` is the calibrated hand unit in its mode-independent part: a timeout adds
the wheel's steps to the speed or to the acceleration. `AccelIn` and `AccelOut`
are the piecewise conversions of `settings.cpp`, with their real numbers; the
speeds are parameters. The host's accelerations and what an EEPROM holds may be
negative; they are small enough for 16 bits to hold all that is computed from
them (`NoOverflow`).

`Encoder` cuts the interrupt between the reads of its two pins, and the read of
the count between its parts. The wheel may turn, or a contact bounce, at any of
these points. That it is never two quarters from where it was read last is
assumed: turned faster than the interrupt runs, an encoder of two wires loses
steps, and the table's entries of two are then guesses.

### RadioLink

`ring`, `read_index` and `write_index` are `radio_state`. `QueueMessages` writes
where the write index is, as the code does: nothing tests for room. When the
ring is full the write index passes the read index, and all that was queued
before is gone, with the first of what is being queued. `Dequeue` is `radio_run`
of the hand unit, which waits for the chip: the packet is delivered or lost, and
never sent again. `fifo` is the receiving chip's. `Processed` is what
`_process_packet` does to the target, the coordinates and the settings; the
clamps that the controller applies to a setting, and the quarter that is sent of
an acceleration, are not in it: a setting is what is sent for it.

The consoles of both units are in it. The hand unit's queues settings
(`SerialSetting`, `SerialReload`), questions (`SerialQuery`) and targets that
`cur_pos_` is not told of (`SerialTarget`); the motor unit's changes a setting
or the target behind the hand unit's back (`RxSerial`).

No packet has a number in the code. `stamp` numbers the targets, so that
`InOrder` can tell an older from a newer one. `intact` is false when
`TargetArrives` promises nothing: the newest target was lost in the air or
overrun in the ring, the motor unit restarted, changed channel or was given a
target by its own console, or a calibration has begun.

RE_INIT_POSITION is sent once, when a calibration begins (`ao_Txr.cpp:427`), and
not again. If that packet is lost, the motor unit takes the targets of the new
calibration in the coordinates of the old one, and moves. `RadioLink` has this
behaviour, no property excludes it, and nothing in the repository says that it
should not be so.

### RxrSettings

The three cells, the bytes that a function has still to write, and what the
radio and the motor driver were set to. Channels and drivers are the 16-bit
words that both the console and the packets take. The sentinel is written before
the channel (`settings.h:21`), and a loss of power leaves one byte of the new
value beside one of the old. A channel that the radio accepts has a high byte of
0, so what it starts on is the default, or the low byte of a channel that was
asked for (`ChannelFound`). Of a channel within the range that is the channel
itself. Of one that takes two bytes and is refused when it is set, it may be
another: after 320, with the power lost between its bytes, the motor unit starts
on 64. The driver is read as zero or not, and of it either byte may be old
(`DriverWritten`).

### QEQueue, QTimeEvt, QHsm

`QEQueue` is `QActive::postFIFO`, `postLIFO` and `get_` with the assertion of a
full queue. `QTimeEvt` cuts the tick at each time event of the list; the loop
cannot arm or disarm meanwhile. `QHsm` has the seven cases of `QHsm::dispatch`,
and the length of the path it stores; its initial states are all trees of four
states, and any state of the chain may take an event to any target. `Restart`
and `Reset` are the jump to address 0 in `Q_onAssert`.

### SerialApi

A buffer is its index. Commands are told apart by the length of what they print,
which is all the buffers know of them. The bound of the output is tested after
the byte that is one too many: the 129th byte printed before the output is read
is written behind the buffer, into `in_index` (`Spills`). Nothing bounds what is
printed between two reads of the output: `console_run` goes on reading commands
until the host has sent no more, and a few of them print more than 128 bytes.
When exactly 129 are printed there is no `ERR`, and the last of them is what the
input's index is by then.

To the input this does no harm while commands are read, for a reason that is
easily lost: the index is reset after the command has been processed
(`serial_api.cpp:348`), so what its answer spilled is gone. The rest of the loop
prints too, outside `console_run`, the packets it received, the wheel and the
lights. When that is more than the buffer takes, the byte goes into the index of
a command that is half typed, and stays there until its newline: `flooded` marks
when that can be, and `BuffersKept` exempts it and nothing else.

### Mirf

`at` is the driver's next command, `prim_rx`, `rx_dr`, `tx_ds` and `max_rt` the
chip's bits of those names, `changing` the loop of `radio_set_channel` that
reads what is left. The chip receives (`Arrive`) and sends (`Transmit`) between
any two commands; what the driver does with CE low is one action. `ReadPayload`
and `ClearDataReady` are the two halves of `getData`: a packet that comes
between them is no longer in RX_DR, and `DriverKept` says that none is missed
for it. `flushRx` leaves RX_DR set, so after a channel has been set the next
`dataReady` may be true of an empty receiver, and one packet that nobody sent is
handled; `stale` marks when that can be.

## 3. What the runs check

| Run | Specification | Shows | Result |
|---|---|---|---|
| `Txr` | `MCFairSpec` | `TypeOK`, `CalibrationTimeout`, `PressesFitState`, `TapWindow`, `PoolAccounting`, `ModeAgreement`, `FlashingEnds`, `LeverObeyed`, `TapWindowCloses` | holds, 0.27 M states |
| `TxrBacklog` | `Spec` | `QueueSuffices` | holds, 12.5 M states |
| `TxrPosition` | `MCSpec` | `TypeOK`, `SentIsCurrent`, `SavedKept`, `SliderFollowed`, `NoJump` | holds, 0.95 M states |
| `RadioLink` | `FairSpec` | `TypeOK`, `TargetArrives`, `InOrder`, `SettingsConverge` | holds, 1.0 M states |
| `Rxr` | `FairSpec` | `TypeOK`, `SpeedBounded`, `OnGrid`, `NeverCrosses`, `ComesToRest` | holds, 1.2 M states |
| `Settings` | `MCSpec` | `SettingsTypeOK`, `SentinelLast`, `ProfilesSpec`, `Persisted` (hand unit); `RestartKeepsChannel`, `StoredUsable` (motor unit); `CountExact`, `ReadWhole` (encoder); `FollowsWheel` (speed and acceleration) | holds, 0.36 M states |
| `Libraries` | `MCSpec` | `LibrariesTypeOK`, `QueueSpec`, `TimersSpec`, `ExitsAndEntries`, `BuffersKept`, `DriverKept` | holds, 0.25 M states |
| `TxrDoubleTap` | `Spec` | `DoubleTapArmedOnce` | violated |
| `TxrFlash` | `Spec` | `FlashArmedOnce` | violated |
| `TxrSave` | `SaveSpec` | `SaveAfterFlash` | violated |
| `RxrForward` | `Spec` | `PulsesForward` | violated |
| `RxrAwake` | `SwiftSpec` | `PulsesAwake` | violated |

Bounds.

* `Txr`: a queue of one behind the front event and a pool of two make both fill
  up and refuse; timeouts of one and two ticks keep the order of the code's (a
  third of a second, one second, one second); one periodic time event stands for
  four, which no handler treats differently for the control. There is one
  position button, held for one sample of the interrupt (`MCFairSpec`). The
  violations, and for the safety invariants the theorems, have longer queues.
* `TxrBacklog` has the code's queue, intervals and times. `MaxInputs` is its
  only bound.
* `TxrPosition`: a slider of three positions, a wheel of one step either side,
  an `int` of one bit and a sign, three levers of two multipliers, one button.
  The 16-bit cut, both orders of the calibration and every order of two modes
  and a calibration occur. `MCSpec` bounds the product of the two (`Bound`): the
  third position of the slider, without which the filter never skips a sample,
  is used while nothing is saved and the wheel rests; saving is checked with the
  slider at the other two. The theorems are about `Spec`, without this bound.
* `RadioLink`: a ring of three, which wraps, is filled and overflows; three
  steps of the users (turns, changes, calibrations, commands of either console,
  restarts), with any number of timeouts, losses and deliveries in between; one
  setting of two values: the settings are sent and handled alike.
* `Rxr`: targets a step backward and two forward of the start, speeds below
  FIXED_ONE and such that a torn store makes higher, the acceleration at the
  clamp. The motor reverses, overshoots in `calculated_position`, divides by a
  torn denominator and is given a new target in full motion. `SleepThreshold` is
  1 instead of 30000 calls (five seconds).
* `Settings`: two fields of two bytes, so that a power loss can fall within a
  field and between fields; two presets that can be selected and one that cannot
  (four and six in the code); power may fail any number of times, also while the
  defaults are written again. The motor unit's cells have their real values; the
  host asks for a channel within, at and beyond the range and for one of two
  bytes (2, 82, 83, 320), and for a driver of two bytes (256). The wheel turns
  four steps either way, a full period of the pins. The acceleration has all the
  wheel's values, with the host's within and beyond them, negative ones too; the
  speed is scaled down to a dozen, with both bounds of its factor among them.
* `Libraries`: a ring of three and three events, three time events of one or two
  ticks, all the trees of four states with a path of four, an input buffer of
  six and an output of sixteen, with what is printed both shorter and longer
  than what is left, and as much of it as there is. The chip holds two packets
  of four that come (three in the chip): one that waits and one that comes while
  it is read.

Fairness.

* `Txr` assumes that the timer interrupts (it is started in `onStartup` and
  never stopped), that the loop of `QF::run` takes what is queued and finishes
  the handler, and that the reset happens. It does not assume that the loop
  keeps up.
* `Rxr` assumes that Timer1 interrupts and that the loop finishes the function
  it is in.
* `Settings` assumes of the hand unit that, once off, it is switched on, that a
  function finishes, and that FLUSH_SETTINGS_TIMEOUT_SIG is handled if the loop
  is free again and again (strong fairness): its time event is periodic and what
  it posts stays queued until it is handled. The other three components are
  checked for safety.
* `RadioLink` assumes that both loops go on, that SPEED_AND_ACCEL_TIMEOUT_SIG
  comes again, four times a second, and that no setting is lost for ever (strong
  fairness of its delivery). Two more assumptions are about time, and restrict
  the run's steps (`TimelyNext`). A packet is lost in the air only: the motor
  unit's loop reads its chip faster than the hand unit's, which waits for each
  acknowledgement, can send. And the timeout finds room for the settings: a
  quarter of a second is enough to send more than its timeouts queue. Everything
  else may still overrun the ring. The theorems are about `Spec`, without these.

The violations are these.

* **A tap after a mode change.** Tap, move the lever, tap again within a second:
  `double_tapping_` was cleared by the mode's entry, the time event was not
  disarmed, `postIn` asserts and the hand unit resets (`ao_Txr.cpp:516`).
* **A press after a preset.** `z_mode`'s exit does not disarm the flash time
  event. Recall a preset, double-tap, and press within a third of a second:
  `flashing`'s entry arms it again (`ao_Txr.cpp:540`).
* **Saving while flashing.** The guard of a save is that the flash time event is
  disarmed (`ao_Txr.cpp:608`), which is to say, as the comment above it does,
  that the light of the previous save has finished. Save a position in
  `free_run_mode`, move the lever away and back before its light is done: the
  exit (592) disarms the time event and leaves the light flashing, and the next
  position is saved while the light of the first still flashes. `MCTxrSave`
  remembers that the light is that of a save, and not of a recall.
* **The first motion after a reset.** Nothing sets the direction pins until the
  first reversal: a motion forward turns the shaft backward
  (`controller.cpp:31`).
* **The wake-up that is undone.** `controller_move_to_position` wakes the
  driver, then resets the counter, then stores the target. An interrupt between
  the first two puts the driver to sleep, and the motion that follows is pulsed
  to a sleeping driver until it is woken for another target
  (`controller.cpp:70`). `RxrAwake` uses `SwiftSpec`, in which the interrupt
  cuts the stores only when the controller is due to sleep, so that the trace is
  the plausible one.

Met on the way, and not given a run: the second press of a calibration is stored
whatever the first was, although a comment (`ao_Txr.cpp:444`) speaks of swapping
(`SliderFollowed` holds in both orders); the output buffer of the console takes
one byte too many (`serial_api.cpp:37`); the ring of the radio's messages has no
test for room (`radio.cpp:55` is commented out); RE_INIT_POSITION is not
repeated (`ao_Txr.cpp:427`); `QTimeEvt::rearm` (`qp.cpp:1941`) does not link a
disarmed time event when no other is linked, and is not called; setting the name
from the console writes up to 42 bytes of EEPROM, 0.14 s, with interrupts
disabled, in which ticks and edges of the wheel are lost.

Mutants (definitions marked so in the modules) show that each property depends
on the code it is about: replacing the definition by its mutant breaks it.

## 4. What is proved

Each module of proofs assumes only the named assumption of the module it is
about, which TLC evaluates in a run. Every safety invariant, action property and
refinement that the passing runs check is a theorem, for every value of the
constants, but for `QueueSuffices`, which is about the program's own numbers;
the liveness properties are not.

Where a run puts components side by side, the theorems are about each
component's own specification, and **RunOfEach** says that a behaviour of the
run is one of each of them: `MCSpec => Each`.

* **TypeCorrect, PressesCorrect**: `TypeOK` with `PressesFitState` is inductive
  (`enc_pushes <= 2` needs the state it is counted in).
* **CalibrationCorrect**: the inductive invariant adds that CALIBRATION_SIG's
  interval is 0, so that its expiry disarms it. The interrupt's step needs that
  an expired time event is posted exactly once in any order of the list, and
  that nothing published is a time event: the lemmas on `Orders` and `Concat`.
* **PoolCorrect**: every block of the event pool is free, in the queue or being
  handled. The step of the interrupt is a sum: `Published` takes as many blocks
  as it posts, one each for the wheel, the mode and the buttons (`ThreeSum`),
  and the places of a queue that hold pooled events, shifted by a `Get` or
  joined to those of a posted list, keep their number (`ShiftedPlaces`,
  `PooledConcat`).
* **TapWindowCorrect**: follows the window's timeout from counter to queue to
  the loop; relies on a tick posting whatever reaches 0.
* **ModeAgreementCorrect**: the invariant says that the newest mode signal, in
  the queue or held, is what the interrupt last sampled (`NewestMode`); without
  it an older signal handled last would select another mode.
* **ControllerTyped, SpeedIsBounded, StaysOnGrid, TargetIsNotCrossed**: one
  inductive invariant `RxrInv`, of types, speed, grid and of what the loop is
  about to store (`JobFits`), the last because a store is completed steps after
  its value was clamped or converted. Its arithmetic is the lemmas on multiples:
  a store cut at a multiple of a step, or within one, leaves a multiple
  (`TornOnGrid`), a cut store of a clamped value stays below the clamp's last
  byte (`TornBounded`), and two multiples are at least a step apart, which is
  why a pulse cannot cross the target.

* **PositionTyped, CurrentIsSent, SliderIsFollowed, SavedIsKept,
  MotorNeverJumps**: one invariant, `PositionInv`, for every slider, slew rate,
  wheel, set of levers and width of an `int`. `SliderFollowed` needs to know
  which sample the filter kept and that the one it dropped is near
  (`FilterFollows`), and that the slider's conversion between the calibration's
  ends keeps the order and the distance of two samples, in both orders of the
  ends: division towards zero and its lemmas. `NoJump` needs that a motor that
  calibrates is where the wheel was read last (`WheelFollows`), `SavedKept` what
  the EEPROM has of each button, perhaps cut to an `int` (`EepromKept`).
* **SettingsTyped, SentinelIsLast, SettingsImplementProfiles**: the invariant
  `SettingsInv` says for the function in progress which writes are on its list
  and that every byte it answers for is written or on the list (`Due`); a write
  keeps that because no two entries differ about one place (`DueKept`,
  `LiveUnique`, `InitUnique`), and two settings never share one
  (`PositionsApart`, for every layout). The lists are folds of lists; what they
  hold is proved by induction (`FlattenHolds`), for which `NumbersInduction`
  derives an induction principle about sets from the library's well-founded one.
  `SentinelIsLast` assumes that no value's high byte is 255 (all are below
  65280); `SettingsImplementProfiles` that the presets asked for can be read
  back, `Indices` up to `MaxIndex`: one beyond is stored by the console and read
  back as another, which loses the debounced values (section 2, `TxrSettings`).
  Each step is one of `Profiles` or changes nothing seen: the sentinel's last
  byte is `Prepare`, the index's byte is `Select`, the bytes of values are
  behind the debounced ones.
* **QueueTyped, RingCorrect, QueueImplemented**: `RingOK` relates the two
  indices to the count, and is inductive with the types; the refinement maps the
  ring to the sequence `Events`, and each action to the abstract one of its
  name. The lemmas on `Slot`, `Up` and `Down` are the arithmetic of a ring that
  runs downwards, for every length.
* **WheelTyped, AccelStoredExactly, WheelFollowed**: the lemma `AccelRoundTrip`
  says that storing an acceleration and taking it out again gives it back,
  across all the changes of the multiple; the invariant is that what is stored
  has been stored by `AccelIn`. Neither the host nor a preset can break it, with
  negative values either, as far as `NoOverflow` holds.
* **EncoderTyped, EveryEdgeCounted, CountReadWhole**: the invariant relates the
  count to the pins as they were read last and to where the wheel was then, and
  a pending interrupt to every pin that has changed since. The step of `Update`
  is the table's sixteen entries against the quarters turned.
* **LinkTyped, TargetsArrive, TargetsInOrder**: the invariant `LinkInv` is about
  one sequence, `History`: what the motor unit has executed last, the packets in
  its chip, those in the ring, and the target that was queued last. Along it the
  stamps of the targets never fall (`Ordered`), and behind the newest target
  there are only others unless it was lost (`Arriving`). A step leaves a part of
  the sequence out (`LeftOrdered`, `LeaveOut`) or puts something in before its
  last (`PutOrdered`, `PutIn`); that the ring is a part of it is the lemmas
  `RingDescribed`, `Enqueued`, `Dequeued` and `Started`, with the arithmetic of
  its remainders. When the ring overflows, what is left in it is the end of what
  was just written (`Overflowed`), from which the invariant is rebuilt
  (`Rebuilt`): it is newer than all that was overrun, so the order holds, for a
  ring of any size and any packets. **FairLink** says that the run's
  specification is a case of the one proved about.
* **StoredIsUsable, ChannelSurvives**: for all channels and drivers of 16 bits,
  every sentinel that is not the erased word, and power lost anywhere. A word is
  its two halves, and writing one leaves the other (`Halves`, `WrittenLow`,
  `WrittenHigh`). A function writes its bytes in a fixed order, so the first
  byte that is left tells where it was cut; the invariant has one disjunct for
  each function that says what is stored by then. The low byte of the stored
  channel is always that of a channel that was asked for, or erased; as the
  radio takes only a channel whose high byte is 0, the low byte is all that
  `ChannelFound` needs. The assumption is `RxrAssumption`, a hypothesis of the
  theorems, which `MCSettings` assumes of the run's constants.

* **TimersImplemented**: the linked list, walked and pruned by the interrupt,
  implements `Timers`, where all counters count down at once. The invariant
  `TimeInv` says that there is a ranking of the linked time events (`Places`),
  strictly falling along the links, with nothing between a time event and the
  one it is linked to: so the list ends, holds each of them once, and the walk
  has still to come to exactly those of a rank not above the cursor's (`Ahead`).
  Those behind it have had their tick, those ahead have not (`TickedBehind`).
  Linking at the head takes a rank above all others (`PushKeeps`); removing
  keeps the ranking (`RemoveKeeps`). The mapping shows the counters as they were
  before the walk until it ends. Any number of time events, finite or not;
  `TimeAssumption` only asks that null is none of them, and that none is armed
  with 0 ticks, which `arm_` asserts.
* **ConsoleCorrect**: in `ConsoleInv`, unless `flooded`, the input's index is
  the number of bytes typed, and as long as no more was printed than the output
  takes, the output's index is the number of bytes printed. Nothing bounds what
  is printed: the lemmas `LineInside` and `LineFits` say where a printed line
  leaves the index, and that it spills only beyond `OutSize`; within
  `console_run` what is spilled is gone with the reset that ends each command.
  `ConsoleAssumption` is about sizes: what an index byte holds, and that an
  error fits the buffer.
* **DriverCorrect**: `Mode` says for each command of the driver what it knows of
  the chip, and `Fifo` that RX_DR without a packet is an old one or about to be
  cleared. `NothingLeft` follows from the one command that ends the reading.
* **TransitionsCorrect**: for every finite tree of states, of any depth and
  shape, and every transition. The chain of a state is a recursive function of
  the tree. `TreeInduction` proves, from the levels by which `Trees` is defined,
  that what holds of `top` and of each state whose superstate it holds of holds
  of all; from it the chains exist (`ChainExists`), and a chain has the chain of
  each of its states as its end (`ChainFacts`). The lemma `Transition` makes the
  seven cases of dispatch one: they exit what is before the lowest common state
  in the source's chain, and enter what is before it in the target's
  (`BeforeHolds`, `BeforeJoined`). An assertion fails only where a chain is
  longer than `MaxDepth`. `HsmAssumption` asks that there are finitely many
  states and that `top` is not one of the program's.
* **AllSettingsTyped, LibrariesTyped**: the types of the components side by
  side. `LibrariesTypeOK` contains `Linked`, that an armed time event is linked
  and that its count of references is the number of links to it.

Checked and not proved: the liveness properties (`FlashingEnds`, `LeverObeyed`,
`TapWindowCloses`, `SettingsConverge`, `ComesToRest`, `Persisted`), which are
beyond the prover together with fairness, and `QueueSuffices`, a question of the
program's own times. The runs that expect a violation are about the code as it
is and have nothing to prove.

## 5. Plan

Done: 1. `Txr`, `RxrController`, `TxrSettings` with `Profiles`; 2. `RadioLink`;
3. `TxrPosition`, `Wheel`; 4. `QEQueue` with `BoundedQueue`, `QTimeEvt` with
`Timers`, `QHsm`; 5. `Encoder`, `SerialApi`, `RxrSettings`, `Mirf`; 6.
`TxrBacklog`, the queue's load while the loop writes the EEPROM; 7. the theorems
of section 4.

Left: arguments for the liveness properties by measures that fall at each step,
where the prover reaches the steps.

## 6. Not modelled

* CmdMessenger: neither program uses it.
* Mirf: the transfer of bytes over SPI, addresses, power down. `RadioLink` has
  its own view of it: `isSending` ends with a packet delivered once or lost. A
  packet that nobody sent, which `Mirf` shows may be read after a channel has
  been set, is not among those `RadioLink` delivers; what the chip gives for it
  is not known from the code.
* NewTimerOne: register set-up; the interrupt it starts is `RxrController`'s
  `Run`.
* The link statistics, the choice of a channel and the name, version and preset
  packets; the text of commands and answers; LEDs, debugging strings, build
  scripts.
* What the framework has and the program does not use: defer and recall, `QFsm`,
  `rearm`, the raw queue of `QEQueue` beside the active object's.
* The tests and gtest, which are three quarters of the repository's lines, and
  the framework's header, which is declarations and comments.

Whether Timer4's interrupt, still enabled after the software reset, runs before
`QF::init` depends on the Arduino core, which is not in this repository.
