------------------------------ MODULE TimeUuids -----------------------------
(***************************************************************************)
(* The generator of time-based UUIDs, versions 1 and 2 (pkg/util/uuid.go). *)
(*                                                                         *)
(* They come from a time, a clock sequence that makes up for a clock that  *)
(* stands still or steps back, and the network address; getStorage reads   *)
(* and writes them under one mutex, so that any number of goroutines is    *)
(* one generator.                                                          *)
(***************************************************************************)
EXTENDS Integers

CONSTANTS
    Times,          \* clock readings
    SequenceValues, \* how many values the clock sequence has, 65536 in the code
    MaxCalls        \* how many UUIDs are made (a model bound)

\* The sequence is wider than the two bits that the variant takes.
UuidAssumption ==
    Times \subseteq Nat /\ SequenceValues \in Nat \ {0} /\ SequenceValues % 4 = 0
ASSUME UuidAssumption

VARIABLES
    clock,          \* what epochFunc returns
    clockSequence,  \* Unset before storageOnce
    lastTime,
    \* Kept for the property only:
    made,           \* the UUIDs of version 1
    calls,          \* how many UUIDs were made
    stepped,        \* how often clockSequence was increased
    repeated        \* a UUID of version 1 was made a second time

idVars == <<clock, clockSequence, lastTime, made, calls, stepped, repeated>>

----------------------------------------------------------------------------
Unset == -1
Sequences_ == 0..(SequenceValues - 1)

\* The variant takes the place of the sequence's two highest bits.
Kept == SequenceValues \div 4
WithVariant(sequence) == sequence % Kept
V1(time, sequence) == [time |-> time, sequence |-> WithVariant(sequence)]

IdInit ==
    /\ clock \in Times
    /\ clockSequence = Unset
    /\ lastTime = 0
    /\ made = {}
    /\ calls = 0
    /\ stepped = 0
    /\ repeated = FALSE

\* epochFunc is the wall clock: it stands still between two calls that are
\* close, runs on, and steps back when it is set.
ClockMoves ==
    /\ calls > 0
    /\ clock' \in Times \ {clock}
    /\ UNCHANGED <<clockSequence, lastTime, made, calls, stepped, repeated>>

\* A plausible bug, for the mutants.
BehindStrictly == clock < lastTime
Behind == clock <= lastTime

getStorage ==
    /\ calls < MaxCalls
    /\ calls' = calls + 1
    /\ \E sequence \in IF clockSequence = Unset THEN Sequences_ ELSE {clockSequence} :
         clockSequence' = IF Behind THEN (sequence + 1) % SequenceValues ELSE sequence
    /\ stepped' = IF Behind THEN stepped + 1 ELSE stepped
    /\ lastTime' = clock
    /\ UNCHANGED clock

NewV1 ==
    /\ getStorage
    /\ made' = made \cup {V1(clock, clockSequence')}
    /\ repeated' = (repeated \/ V1(clock, clockSequence') \in made)

\* NewV2 puts a domain and its id in the place of half of the time and half
\* of the sequence, and so repeats as long as the other halves do.
NewV2 == getStorage /\ UNCHANGED <<made, repeated>>

IdNext == ClockMoves \/ NewV1 \/ NewV2

UuidSpec == IdInit /\ [][IdNext]_idVars

----------------------------------------------------------------------------
\* NewV1 makes no UUID twice, however the clock stands still or is set back,
\* until the kept bits of the sequence have come round: two calls that read one
\* time have an increase of the sequence between them (getStorage).
UuidsNeverRepeat == repeated => stepped >= Kept
=============================================================================
