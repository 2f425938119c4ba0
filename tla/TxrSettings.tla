---------------------------- MODULE TxrSettings ----------------------------
(***************************************************************************)
(* The hand unit's settings (Txr/settings.cpp): the profiles in the        *)
(* EEPROM, byte by byte, and the debounced values in memory that the wheel *)
(* and the serial console change.                                          *)
(*                                                                         *)
(* The functions run in the loop and to their end, one after the other, so *)
(* only a power loss, or a reset by a failed assertion in the interrupt,   *)
(* comes in the middle of one.  It comes between two bytes: the hardware   *)
(* finishes a byte.  A function is its list of byte writes, and what it    *)
(* does with the debounced values once they are made.                      *)
(***************************************************************************)
EXTENDS Integers, Sequences, SequencesExt

CONSTANTS
  MaxProfiles,          \* MAX_PROFILES, the profiles there is room for
  MaxIndex,             \* the largest preset index that is read back
  ProfileStart,         \* PROFILE_SETTINGS_START
  ProfileSize,          \* where the last field ends
  FieldSeq,             \* the debounced fields in the order they are written
  Offset,               \* of each field, MAX_SPEED_OFFSET and the others
  PresetIndexOffset,    \* PRESET_INDEX_OFFSET
  SentinelLoc,          \* SENTINEL_LOC
  SentinelValue,        \* SENTINEL_VALUE, its bytes
  Default,              \* DEFAULT_MAX_SPEED and the others
  Values,               \* what the fields are set to
  Indices               \* the presets asked for

Fields  == {FieldSeq[i] : i \in DOMAIN FieldSeq}
Presets == 0..(MaxProfiles - 1)
Byte    == 0..255
Words   == Byte \X Byte

\* _settings_position: all the presets' values of a field, then the next field.
Position(preset, f) == ProfileStart + MaxProfiles * Offset[f] + 2 * preset

Addresses == SentinelLoc..(ProfileStart + MaxProfiles * ProfileSize - 1)

ASSUME SettingsAssumption ==
  /\ MaxProfiles \in 1..128    \* an index fits a signed char
  /\ MaxIndex \in Presets
  /\ ProfileStart \in Nat
  /\ FieldSeq \in Seq(Fields)
  /\ ProfileSize \in Nat
  /\ Offset \in [Fields -> Nat]
  /\ \A f \in Fields : Offset[f] + 2 <= ProfileSize
  /\ \A f, g \in Fields : f # g => Offset[f] + 2 <= Offset[g] \/ Offset[g] + 2 <= Offset[f]
  /\ PresetIndexOffset \in 0..(ProfileStart - 1)
  /\ SentinelLoc \in 0..(PresetIndexOffset - 4)
  /\ SentinelValue \in [1..4 -> Byte] /\ SentinelValue # <<0, 0, 0, 0>>
  /\ SentinelValue # <<255, 255, 255, 255>>
  /\ Default \in [Fields -> Words]
  /\ Values \subseteq Words
  /\ Indices \subseteq Presets

VARIABLES
  mem,    \* the EEPROM
  live,   \* settings_state, the debounced values
  job     \* the function the loop is in: the writes it has still to make

vars == <<mem, live, job>>

Off  == [op |-> "off", index |-> 0, todo |-> <<>>]
Idle == [op |-> "idle", index |-> 0, todo |-> <<>>]
Job(op, index, todo) == [op |-> op, index |-> index, todo |-> todo]

Ops == {"off", "idle", "init", "flush", "select", "reset"}

TypeOK ==
  /\ mem \in [Addresses -> Byte]
  /\ live \in [Fields -> Words]
  /\ job.op \in Ops
  /\ job.index \in Presets
  /\ \A i \in DOMAIN job.todo : job.todo[i] \in Addresses \X Byte

-----------------------------------------------------------------------------
(* Reading and writing (Txr/eeprom_helpers.cpp).                           *)

ReadWord(a) == <<mem[a], mem[a + 1]>>

\* The low byte first.
WordWrites(a, w) == << <<a, w[1]>>, <<a + 1, w[2]>> >>

SentinelWrites(bytes) == [i \in 1..4 |-> <<SentinelLoc + i - 1, bytes[i]>>]

Ready == \A i \in 1..4 : mem[SentinelLoc + i - 1] = SentinelValue[i]

Saved(preset) == [f \in Fields |-> ReadWord(Position(preset, f))]

\* settings_get_preset_index: a signed char, and clamped.
preset_index ==
  LET i == mem[PresetIndexOffset]
  IN  IF i > 127 THEN 0 ELSE IF i > MaxIndex THEN MaxIndex ELSE i

\* (Mutant) Only the first field is written.
FlushWritesFirst ==
  LET a == Position(preset_index, FieldSeq[1])
  IN  IF ReadWord(a) = live[FieldSeq[1]] THEN <<>> ELSE WordWrites(a, live[FieldSeq[1]])

\* settings_flush_debounced_values: the values that differ are written.
FlushWrites ==
  FlattenSeq([i \in DOMAIN FieldSeq |->
    LET a == Position(preset_index, FieldSeq[i])
    IN  IF ReadWord(a) = live[FieldSeq[i]] THEN <<>> ELSE WordWrites(a, live[FieldSeq[i]])])

ProfileWrites(preset) ==
  FlattenSeq([i \in DOMAIN FieldSeq |->
    WordWrites(Position(preset, FieldSeq[i]), Default[FieldSeq[i]])])

\* (Mutants) The profiles are counted from 1; the sentinel comes first.
InitWritesFromOne ==
  FlattenSeq([i \in 1..MaxProfiles |-> ProfileWrites(i)])
    \o << <<PresetIndexOffset, 0>> >> \o SentinelWrites(SentinelValue)

InitWritesSentinelFirst ==
  SentinelWrites(SentinelValue)
    \o FlattenSeq([i \in 1..MaxProfiles |-> ProfileWrites(i - 1)])
    \o << <<PresetIndexOffset, 0>> >>

\* settings_init without the sentinel: the defaults, preset by preset, the
\* index and, last, the sentinel.
InitWrites ==
  FlattenSeq([i \in 1..MaxProfiles |-> ProfileWrites(i - 1)])
    \o << <<PresetIndexOffset, 0>> >> \o SentinelWrites(SentinelValue)

\* (Mutant) The index is stored before the old preset's values.
SelectWritesIndexFirst(index) == << <<PresetIndexOffset, index>> >> \o FlushWrites

\* settings_set_preset_index
SelectWrites(index) == FlushWrites \o << <<PresetIndexOffset, index>> >>

-----------------------------------------------------------------------------

\* An erased EEPROM, and no power.
Init ==
  /\ mem = [a \in Addresses |-> 255]
  /\ live = [f \in Fields |-> <<0, 0>>]
  /\ job = Off

\* settings_init, from BSP_init: the sentinel tells whether the defaults have
\* been written.
Boot ==
  /\ job = Off
  /\ \/ ~Ready /\ job' = Job("init", 0, InitWrites) /\ UNCHANGED live
     \/ Ready /\ job' = Idle /\ live' = Saved(preset_index)
  /\ UNCHANGED mem

\* settings_set_max_speed, settings_set_max_accel, settings_set_current_level
Change ==
  /\ job = Idle
  /\ \E f \in Fields, w \in Values : live' = [live EXCEPT ![f] = w]
  /\ UNCHANGED <<mem, job>>

\* FLUSH_SETTINGS_TIMEOUT_SIG
Flush ==
  /\ job = Idle
  /\ job' = Job("flush", 0, FlushWrites)
  /\ UNCHANGED <<mem, live>>

\* A position button in z_mode, or SERIAL_PRESET_INDEX_SET.
SetPresetIndex ==
  /\ job = Idle
  /\ \E index \in Indices : job' = Job("select", index, SelectWrites(index))
  /\ UNCHANGED <<mem, live>>

\* SERIAL_FACTORY_RESET: settings_reset_to_defaults; the next start does it.
ResetToDefaults ==
  /\ job = Idle
  /\ job' = Job("reset", 0, SentinelWrites(<<0, 0, 0, 0>>))
  /\ UNCHANGED <<mem, live>>

WriteByte ==
  /\ job.todo # <<>>
  /\ mem' = [mem EXCEPT ![Head(job.todo)[1]] = Head(job.todo)[2]]
  /\ job' = [job EXCEPT !.todo = Tail(job.todo)]
  /\ UNCHANGED live

\* settings_init and settings_set_preset_index read the debounced values back.
Return ==
  /\ job.op \in {"init", "flush", "select", "reset"}
  /\ job.todo = <<>>
  /\ live' = IF job.op = "init" THEN Saved(preset_index)
             ELSE IF job.op = "select" THEN Saved(job.index)
             ELSE live
  /\ job' = Idle
  /\ UNCHANGED mem

\* Only what is in the EEPROM stays.
PowerLoss ==
  /\ job # Off
  /\ job' = Off
  /\ live' = [f \in Fields |-> <<0, 0>>]
  /\ UNCHANGED mem

Next ==
  \/ Boot \/ Change \/ Flush \/ SetPresetIndex \/ ResetToDefaults
  \/ WriteByte \/ Return \/ PowerLoss

Spec == Init /\ [][Next]_vars

\* The device is switched on and writes on; the flush's timeout stays queued
\* until it is handled, whatever is handled before it.
FairSpec == Spec /\ WF_vars(Boot) /\ WF_vars(WriteByte) /\ WF_vars(Return) /\ SF_vars(Flush)

-----------------------------------------------------------------------------
(* Properties.                                                             *)

\* A valid sentinel means that everything has been written since the EEPROM
\* was erased, however often the power failed on the way (settings.cpp:85).
SentinelLast ==
  Ready => \A p \in Presets : \A f \in Fields : ReadWord(Position(p, f)) # <<255, 255>>

\* What the user sees of the profiles: of the selected one the debounced
\* values, as long as they are its values.
LiveIsCurrent ==
  job.op \in {"idle", "flush", "reset"} \/ (job.op = "select" /\ job.todo # <<>>)

SeenProfile ==
  [p \in Presets |-> IF LiveIsCurrent /\ p = preset_index THEN live ELSE Saved(p)]

P == INSTANCE Profiles WITH on <- job # Off, ready <- Ready, current <- preset_index,
                            profile <- SeenProfile

\* The settings keep their promise: defaults appear all at once, a change of
\* preset loses nothing, and a power loss harms the selected preset only
\* (settings.cpp:32, 51, 100).
ProfilesSpec == P!Spec

\* Every change reaches the EEPROM while the device stays on (ao_Txr.cpp:405).
Persisted == []<>(job = Off \/ (job = Idle /\ live = Saved(preset_index)))

=============================================================================
