---------------------------- MODULE RxrSettings ----------------------------
(***************************************************************************)
(* The motor unit's settings (Rxr/settings.h) and what it does with them:  *)
(* the channel its radio is on and its motor driver.                       *)
(*                                                                         *)
(* Nothing interrupts the writes but a loss of power, which comes between  *)
(* two bytes.  Unlike the hand unit's (TxrSettings), the sentinel is       *)
(* written before the last of the defaults, the channel.                   *)
(***************************************************************************)
EXTENDS Integers, Sequences

CONSTANTS
  DefaultChannel, DefaultDriver,  \* DEFAULT_CHANNEL, DEFAULT_MOTOR_DRIVER
  Sentinel,                       \* SENTINEL_VALUE
  LastChannel,                    \* the channels are 1..LastChannel
  Channels, Drivers               \* what the host asks for

Word == 0..65535
Erased == 65535

Low(w) == w % 256
High(w) == w \div 256

\* The radio starts on the default channel.
RxrAssumption ==
  /\ LastChannel \in 1..255 /\ DefaultChannel = 1
  /\ Channels \subseteq Word /\ Drivers \subseteq Word /\ DefaultDriver \in Word
  /\ Sentinel \in Word \ {Erased}

VARIABLES
  rxr_mem,           \* the EEPROM: CHANNEL_LOC, MOTOR_DRIVER_LOC and SENTINEL_LOC
  todo,          \* the byte writes the function the loop is in has still to make
  on,            \* "off", "starting" or "running"
  channel,       \* Mirf.channel
  motor_driver,  \* state.motor_driver, by what controller_set_motor_driver tests
  unapplied      \* a reset, or a channel the radio has not got, since the start

rxrVars == <<rxr_mem, todo, on, channel, motor_driver, unapplied>>

Locs == {"channel", "driver", "sentinel"}

RxrTypeOK ==
  /\ rxr_mem \in [Locs -> Word]
  /\ on \in {"off", "starting", "running"}
  /\ channel \in 1..LastChannel
  /\ motor_driver \in BOOLEAN
  /\ unapplied \in BOOLEAN
  /\ \A i \in DOMAIN todo : todo[i] \in Locs \X {"low", "high"} \X (0..255)

-----------------------------------------------------------------------------

\* eeprom_write_int16: the low byte first.
Writes(loc, w) == << <<loc, "low", Low(w)>>, <<loc, "high", High(w)>> >>

Written(w, half, byte) ==
  IF half = "low" THEN 256 * High(w) + byte ELSE 256 * byte + Low(w)

\* (Mutant) The sentinel is written before all of them.
DefaultWritesSentinelFirst ==
  Writes("sentinel", Sentinel) \o Writes("driver", DefaultDriver)
    \o Writes("channel", DefaultChannel)

\* settings_reset_to_defaults
DefaultWrites ==
  Writes("driver", DefaultDriver) \o Writes("sentinel", Sentinel)
    \o Writes("channel", DefaultChannel)

RxrReady == rxr_mem["sentinel"] = Sentinel

\* (Mutant) Any channel goes to the radio.
SelectAny(c) == IF c \in 1..255 THEN c ELSE channel

\* radio_set_channel: a channel that is none leaves the radio on its own.
Select(c) == IF c \in 1..LastChannel THEN c ELSE channel

-----------------------------------------------------------------------------

\* The constructor of Mirf sets the channel to 1.
RxrInit ==
  /\ rxr_mem = [l \in Locs |-> Erased]
  /\ todo = <<>>
  /\ on = "off"
  /\ channel = 1
  /\ motor_driver = TRUE
  /\ unapplied = FALSE

\* setup(), as far as radio_init, which reads the channel first.
PowerOn ==
  /\ on = "off"
  /\ on' = "starting"
  /\ todo' = (IF RxrReady THEN <<>> ELSE DefaultWrites)
  /\ channel' = 1
  /\ unapplied' = FALSE
  /\ UNCHANGED <<rxr_mem, motor_driver>>

RxrWriteByte ==
  /\ todo # <<>>
  /\ LET w == Head(todo)
     IN  rxr_mem' = [rxr_mem EXCEPT ![w[1]] = Written(@, w[2], w[3])]
  /\ todo' = Tail(todo)
  /\ UNCHANGED <<on, channel, motor_driver, unapplied>>

\* radio_init, and the rest of setup().
Started ==
  /\ on = "starting" /\ todo = <<>>
  /\ on' = "running"
  /\ channel' = Select(rxr_mem["channel"])
  /\ motor_driver' = (rxr_mem["driver"] # 0)
  /\ UNCHANGED <<rxr_mem, todo, unapplied>>

\* (Mutant) A channel is stored, and not given to the radio.
SetChannelLater ==
  /\ on = "running" /\ todo = <<>>
  /\ \E c \in Channels :
       /\ todo' = Writes("channel", c)
       /\ unapplied' = (unapplied \/ c \notin 1..LastChannel)
  /\ UNCHANGED <<rxr_mem, on, channel, motor_driver>>

\* PACKET_CHANNEL_SET and SERIAL_CHANNEL_SET: the radio goes there when the
\* channel is stored, which nothing in the program comes between.
SetChannel ==
  /\ on = "running" /\ todo = <<>>
  /\ \E c \in Channels :
       /\ todo' = Writes("channel", c)
       /\ channel' = Select(c)
       /\ unapplied' = (c \notin 1..LastChannel)
  /\ UNCHANGED <<rxr_mem, on, motor_driver>>

\* SERIAL_MOTOR_DRIVER_SET
SetDriver ==
  /\ on = "running" /\ todo = <<>>
  /\ \E d \in Drivers :
       /\ todo' = Writes("driver", d)
       /\ motor_driver' = (d # 0)
  /\ UNCHANGED <<rxr_mem, on, channel, unapplied>>

\* SERIAL_FACTORY_RESET: the radio and the driver stay as they are.
FactoryReset ==
  /\ on = "running" /\ todo = <<>>
  /\ todo' = DefaultWrites
  /\ unapplied' = TRUE
  /\ UNCHANGED <<rxr_mem, on, channel, motor_driver>>

RxrPowerLoss ==
  /\ on # "off"
  /\ on' = "off"
  /\ todo' = <<>>
  /\ UNCHANGED <<rxr_mem, channel, motor_driver, unapplied>>

RxrNext ==
  \/ PowerOn \/ RxrWriteByte \/ Started
  \/ SetChannel \/ SetDriver \/ FactoryReset \/ RxrPowerLoss

RxrSpec == RxrInit /\ [][RxrNext]_rxrVars

-----------------------------------------------------------------------------
(* Properties.                                                             *)

\* The channels and the drivers that are ever written.
AskedChannels == Channels \cup {DefaultChannel}
AskedDrivers == Drivers \cup {DefaultDriver}

\* A valid sentinel means that the motor driver has been written, however
\* often the power failed on the way; of the channel it does not mean that
\* (settings.h:17).  With the power lost between its bytes a driver has the low
\* byte of one that was asked for and the high byte of another.
DriverWritten ==
  RxrReady => /\ \E d \in AskedDrivers : Low(rxr_mem["driver"]) = Low(d)
              /\ \E d \in AskedDrivers : High(rxr_mem["driver"]) = High(d)

\* The channel after the next start.
NextChannel == IF RxrReady /\ rxr_mem["channel"] \in 1..LastChannel THEN rxr_mem["channel"] ELSE 1

\* A restart does not take the motor unit to another channel: of what is
\* stored when the loop is back from a function, the radio has the channel,
\* but for a factory reset and a channel that is none (settings.h:34,
\* radio.cpp:364).
RestartKeepsChannel == on = "running" /\ todo = <<>> /\ ~unapplied => NextChannel = channel

\* Wherever the power failed, the motor unit is found again: the start took it
\* to the default channel or to the low byte of one that was asked for
\* (settings.h:21).  That is the channel itself, unless one was asked for that
\* takes two bytes and is none: of 320 a loss of power can leave 64.
ChannelFound ==
  on = "running" =>
    \/ channel = DefaultChannel
    \/ \E c \in Channels : Low(c) = channel

\* Whatever the power did, what the motor unit finds in its EEPROM can be used.
StoredUsable == DriverWritten /\ ChannelFound

=============================================================================
