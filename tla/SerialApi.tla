------------------------------ MODULE SerialApi ------------------------------
(***************************************************************************)
(* The serial console, the same code in both devices (serial_api.cpp,      *)
(* console.cpp): a buffer that collects a command, and one that collects   *)
(* what commands, radio packets and the wheel print until console_run      *)
(* writes it.                                                              *)
(*                                                                         *)
(* A buffer is its index.  The index of the input lies behind the output   *)
(* buffer in memory, and the bound of the output is tested after the byte  *)
(* that is one too many: it becomes the low byte of the index, whose high  *)
(* byte is 0.  Nothing bounds what is printed between two reads of the     *)
(* output: console_run processes all the commands it finds before it reads *)
(* what they printed.                                                      *)
(***************************************************************************)
EXTENDS Integers

CONSTANTS
  InSize, OutSize,  \* SERIAL_API_IN_BUFFER_SIZE, SERIAL_API_OUT_BUFFER_SIZE
  ErrorLength,      \* of "ERR 01" and "ERR 02"
  Lengths,          \* of what is printed, without its newline
  Chars,            \* what a printed byte is when it is read as an index
  MaxInput          \* the bytes the host has sent and not been read (a bound)

ConsoleAssumption ==
  /\ {InSize, OutSize, ErrorLength, MaxInput} \cup Lengths \subseteq Nat
  /\ Chars \subseteq 0..255 /\ InSize <= 255
  /\ ErrorLength \in 1..OutSize

VARIABLES
  available,         \* what the host has sent and not been read
  in_index, out_index,
  failing_to_write,
  reading,           \* the loop is in console_run
  typed,             \* the bytes of the command that the host has begun
  printed,           \* what has been printed since the output was read
  flooded            \* since that command began, the rest of the loop has
                     \* printed when there was more than the output takes

vars == <<available, in_index, out_index, failing_to_write, reading, typed, printed, flooded>>

TypeOK ==
  /\ available \in 0..MaxInput
  /\ in_index \in 0..255
  /\ out_index \in 0..(OutSize + 1)
  /\ failing_to_write \in BOOLEAN /\ reading \in BOOLEAN
  /\ typed \in 0..InSize
  /\ printed \in 0..(OutSize + 1)
  /\ flooded \in BOOLEAN

Init ==
  /\ available = 0
  /\ in_index = 0 /\ out_index = 0
  /\ failing_to_write = FALSE /\ reading = FALSE
  /\ typed = 0 /\ printed = 0 /\ flooded = FALSE

-----------------------------------------------------------------------------
(* Printing.                                                               *)

\* _serial_api_print: a byte that finds the index past the size starts the
\* output again, with an error whose first byte is not counted.
PrintText(out, n) == IF out + n <= OutSize + 1 \/ n = 0 THEN out + n ELSE ErrorLength - 1

\* _serial_api_print_len tests the length first.
PrintLen(out, n) == IF out + n > OutSize THEN PrintText(out, ErrorLength) ELSE out + n

\* Printing from out to the index that follows writes behind the buffer.
Spills(out, next, n) == out <= OutSize /\ out + n > OutSize

\* Something and a newline: where it leaves the output's index, and whether a
\* byte went into the input's.
Ended(out, next, n) ==
  [out   |-> PrintText(next, 1),
   spill |-> Spills(out, next, n) \/ Spills(next, PrintText(next, 1), 1),
   count |-> n + 1]

EndLine(out, n) == Ended(out, PrintText(out, n), n)
EndLen(out, n)  == IF out + n > OutSize THEN EndLine(out, ErrorLength) ELSE Ended(out, PrintLen(out, n), n)

\* What a command prints: nothing, the text of its answer, or its echo.
Answers(out) ==
  {[out |-> out, spill |-> FALSE, count |-> 0]}
    \cup {EndLine(out, n) : n \in Lengths} \cup {EndLen(out, n) : n \in Lengths}

\* More than the output takes is not counted.
Counted(n) == IF printed + n > OutSize THEN OutSize + 1 ELSE printed + n

Output(answer) ==
  /\ out_index' = answer.out
  /\ printed' = Counted(answer.count)

-----------------------------------------------------------------------------

HostSends ==
  /\ available < MaxInput
  /\ available' = available + 1
  /\ UNCHANGED <<in_index, out_index, failing_to_write, reading, typed, printed, flooded>>

\* serial_api_queue_output, from the radio's packets, the wheel and the lights,
\* between two calls of console_run.
QueueOutput ==
  /\ ~reading
  /\ \E n \in Lengths, c \in Chars :
       /\ Output(EndLine(out_index, n))
       /\ in_index' = (IF EndLine(out_index, n).spill THEN c ELSE in_index)
  /\ flooded' = (flooded \/ printed' > OutSize)
  /\ UNCHANGED <<available, failing_to_write, reading, typed>>

\* console_run begins.
Run ==
  /\ ~reading
  /\ reading' = TRUE
  /\ UNCHANGED <<available, in_index, out_index, failing_to_write, typed, printed, flooded>>

Read ==
  /\ reading /\ available > 0
  /\ available' = available - 1
  /\ failing_to_write' = FALSE
  /\ UNCHANGED reading

\* A byte of a command.
ReadText ==
  /\ Read
  /\ in_index < InSize
  /\ in_index' = in_index + 1
  /\ typed' = (IF typed < InSize THEN typed + 1 ELSE typed)
  /\ UNCHANGED <<out_index, printed, flooded>>

\* (Mutant) The input is reset before the command is processed, and not after.
ReadEndOfCommandResetFirst ==
  /\ Read
  /\ in_index < InSize
  /\ \E answer \in Answers(out_index), c \in Chars :
       /\ Output(answer)
       /\ in_index' = (IF answer.spill THEN c ELSE 0)
  /\ typed' = 0
  /\ flooded' = FALSE

\* The newline: the command is processed, whatever it is, and only then the
\* input reset, with what its answer has spilled.
ReadEndOfCommand ==
  /\ Read
  /\ in_index < InSize
  /\ \E answer \in Answers(out_index) : Output(answer)
  /\ in_index' = 0
  /\ typed' = 0
  /\ flooded' = FALSE

\* (Mutant) The input is not reset after the error.
ReadTooLongKept ==
  /\ Read
  /\ in_index >= InSize
  /\ Output(EndLine(out_index, ErrorLength))
  /\ in_index' = in_index + 1
  /\ typed' = 0
  /\ flooded' = FALSE

\* MAX_INPUT_LENGTH_EXCEEDED: the byte is lost, were it the newline.
ReadTooLong ==
  /\ Read
  /\ in_index >= InSize
  /\ Output(EndLine(out_index, ErrorLength))
  /\ in_index' = 0
  /\ typed' = 0
  /\ flooded' = FALSE

\* (Mutant) The output is reset only when it has been written.
WriteKept ==
  /\ reading /\ available = 0
  /\ reading' = FALSE
  /\ printed' = 0
  /\ \/ /\ out_index > 0 /\ ~failing_to_write
        /\ failing_to_write' \in BOOLEAN
        /\ out_index' = 0
     \/ (out_index = 0 \/ failing_to_write) /\ UNCHANGED <<failing_to_write, out_index>>
  /\ UNCHANGED <<available, in_index, typed, flooded>>

\* All has been read: the output is written, in up to three pieces, unless the
\* host took none of the last one and has not sent anything since.
Write ==
  /\ reading /\ available = 0
  /\ reading' = FALSE
  /\ out_index' = 0 /\ printed' = 0
  /\ \/ out_index > 0 /\ ~failing_to_write /\ failing_to_write' \in BOOLEAN
     \/ (out_index = 0 \/ failing_to_write) /\ UNCHANGED failing_to_write
  /\ UNCHANGED <<available, in_index, typed, flooded>>

Next ==
  \/ HostSends \/ QueueOutput
  \/ Run \/ ReadText \/ ReadEndOfCommand \/ ReadTooLong \/ Write

Spec == Init /\ [][Next]_vars

-----------------------------------------------------------------------------
(* Properties.                                                             *)

\* What the next newline ends is what the host has typed since the last one, or
\* since the error that it was too long, although the byte printed behind the
\* output buffer goes into the input's index (serial_api.cpp:37): the answers of
\* commands, however many are processed before the output is read, never get
\* into it; only the rest of the loop does, when it prints more than the buffer
\* takes, and then until that newline or error.  And everything printed is still
\* there when the output is read, unless it was more than that
\* (serial_api.cpp:348, 32).
BuffersKept ==
  /\ ~flooded => in_index = typed
  /\ printed <= OutSize => out_index = printed

=============================================================================
