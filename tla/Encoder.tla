------------------------------- MODULE Encoder -------------------------------
(***************************************************************************)
(* The wheel's encoder (libraries/Encoder/Encoder.h): an interrupt for     *)
(* each edge of either pin reads both pins and counts a quarter of a click *)
(* up or down; the loop reads the count, byte after byte, with interrupts  *)
(* off.                                                                    *)
(*                                                                         *)
(* The contacts bounce, and the wheel turns while the interrupt runs, but  *)
(* it is never two steps from where it was read last: the interrupts keep  *)
(* up with it.                                                             *)
(***************************************************************************)
EXTENDS Integers

CONSTANTS
  MaxTurn,  \* how far the wheel is turned (a bound)
  Digit     \* the values of the part of the count that is read first

ASSUME EncoderAssumption == MaxTurn \in Nat /\ Digit \in Nat \ {0, 1}

VARIABLES
  turned,    \* where the wheel is
  origin,    \* where it was when the device started
  pending,   \* the pins whose interrupt flag is set
  isr,       \* "idle", or what the interrupt does next
  read1,     \* pin 1 as the interrupt has read it, and where the wheel was
  state,     \* the pins as the last interrupt read them
  position,  \* the count
  sampled,   \* where the wheel was when it was read last
  reader     \* Encoder::read: whether it has begun, and the low part it has

encoderVars == <<turned, origin, pending, isr, read1, state, position, sampled, reader>>

Pins == {1, 2}
Positions == (-MaxTurn)..MaxTurn
Counts == (-2 * MaxTurn)..(2 * MaxTurn)

\* The two waves of the header's drawing, a quarter apart.
Pin(n, p) == IF n = 1 THEN p % 4 \in {2, 3} ELSE p % 4 \in {1, 2}

EncoderTypeOK ==
  /\ turned \in Positions /\ sampled \in Positions /\ origin \in Positions
  /\ pending \in SUBSET Pins
  /\ isr \in {"idle", "pin1", "pin2"}
  /\ read1 \in [level : BOOLEAN, at : Positions]
  /\ state \in [Pins -> BOOLEAN]
  /\ position \in Counts
  /\ reader \in [reading : BOOLEAN, low : 0..(Digit - 1), result : Counts, was : Counts]

\* The wheel may stand on any of the four states.
EncoderInit ==
  /\ turned \in Positions \cap 0..3
  /\ pending = {}
  /\ isr = "idle"
  /\ read1 = [level |-> FALSE, at |-> 0]
  /\ state = [n \in Pins |-> Pin(n, turned)]
  /\ position = 0 /\ origin = turned /\ sampled = turned
  /\ reader = [reading |-> FALSE, low |-> 0, result |-> 0, was |-> 0]

-----------------------------------------------------------------------------

Near(p, q) == p - q \in {-1, 0, 1}

\* An edge of one of the pins, by turning or by bouncing.
Turn ==
  /\ \E p \in {turned - 1, turned + 1} \cap Positions :
       /\ Near(p, sampled)
       /\ isr = "pin2" => Near(p, read1.at)
       /\ turned' = p
       /\ pending' = pending \cup {n \in Pins : Pin(n, p) # Pin(n, turned)}
  /\ UNCHANGED <<origin, isr, read1, state, position, sampled, reader>>

\* (Mutant) The loop reads the count with interrupts on.
InterruptAnytime ==
  /\ isr = "idle"
  /\ \E n \in pending : pending' = pending \ {n}
  /\ isr' = "pin1"
  /\ UNCHANGED <<turned, origin, read1, state, position, sampled, reader>>

\* The hardware clears the flag when it takes the interrupt.
Interrupt ==
  /\ isr = "idle" /\ ~reader.reading
  /\ \E n \in pending : pending' = pending \ {n}
  /\ isr' = "pin1"
  /\ UNCHANGED <<turned, origin, read1, state, position, sampled, reader>>

ReadPin1 ==
  /\ isr = "pin1"
  /\ isr' = "pin2"
  /\ read1' = [level |-> Pin(1, turned), at |-> turned]
  /\ UNCHANGED <<turned, origin, pending, state, position, sampled, reader>>

Bit(b, weight) == IF b THEN weight ELSE 0

\* (Mutant) One of the entries has the wrong sign.
CountWrong(s) ==
  CASE s \in {1, 7, 8, 13} -> 1
    [] s \in {2, 4, 11, 14} -> -1
    [] s \in {3, 12} -> 2
    [] s \in {6, 9} -> -2
    [] OTHER -> 0

\* The table: the pins as they were and as they are.
Count(s) ==
  CASE s \in {1, 7, 8, 14} -> 1
    [] s \in {2, 4, 11, 13} -> -1
    [] s \in {3, 12} -> 2
    [] s \in {6, 9} -> -2
    [] OTHER -> 0

\* (Mutant) What came while the interrupt ran is forgotten.
UpdateForgetting ==
  /\ isr = "pin2"
  /\ isr' = "idle"
  /\ LET new == [n \in Pins |-> IF n = 1 THEN read1.level ELSE Pin(2, turned)]
         s == Bit(state[1], 1) + Bit(state[2], 2) + Bit(new[1], 4) + Bit(new[2], 8)
     IN  /\ position' = position + Count(s)
         /\ state' = new
         /\ sampled' = (IF Pin(1, turned) = new[1] THEN turned ELSE read1.at)
  /\ pending' = {}
  /\ UNCHANGED <<turned, origin, read1, reader>>

\* It reads pin 2, and counts.
Update ==
  /\ isr = "pin2"
  /\ isr' = "idle"
  /\ LET new == [n \in Pins |-> IF n = 1 THEN read1.level ELSE Pin(2, turned)]
         s == Bit(state[1], 1) + Bit(state[2], 2) + Bit(new[1], 4) + Bit(new[2], 8)
     IN  /\ position' = position + Count(s)
         /\ state' = new
         /\ sampled' = (IF Pin(1, turned) = new[1] THEN turned ELSE read1.at)
  /\ UNCHANGED <<turned, origin, pending, read1, reader>>

\* noInterrupts, and the low part.
ReadBegins ==
  /\ isr = "idle" /\ ~reader.reading
  /\ reader' = [reader EXCEPT !.reading = TRUE, !.low = position % Digit, !.was = position]
  /\ UNCHANGED <<turned, origin, pending, isr, read1, state, position, sampled>>

ReadEnds ==
  /\ isr = "idle" /\ reader.reading
  /\ reader' = [reader EXCEPT !.reading = FALSE,
                              !.result = (position - (position % Digit)) + reader.low]
  /\ UNCHANGED <<turned, origin, pending, isr, read1, state, position, sampled>>

EncoderNext == Turn \/ Interrupt \/ ReadPin1 \/ Update \/ ReadBegins \/ ReadEnds

EncoderSpec == EncoderInit /\ [][EncoderNext]_encoderVars

-----------------------------------------------------------------------------
(* Properties.                                                             *)

\* No edge goes unnoticed, and none is counted twice: whenever no interrupt is
\* pending the count is where the wheel is, however the contacts bounce and at
\* whatever point of the interrupt it turns (Encoder.h:185).
CountExact == isr = "idle" /\ pending = {} => position = turned - origin

\* The loop never gets a count put together from two (Encoder.h:107).
ReadWhole == ~reader.reading => reader.result = reader.was

=============================================================================
