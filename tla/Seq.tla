-------------------------------- MODULE Seq --------------------------------
(***************************************************************************)
(* config/seq.go: GenSeq hands out the version numbers of group members.   *)
(* Numbers come from a block in memory (CurSeq, MaxSeq); before a block is *)
(* used its end is written to the table seq (min_seq), where a restarted   *)
(* process goes on.                                                        *)
(*                                                                         *)
(* Only the map seqMap is locked.  The Seq object is read and written      *)
(* without a lock by every caller that got it, so that each of these is a  *)
(* step: the look-up, each statement sent to the database, the publication *)
(* in seqMap, the read of CurSeq and of MaxSeq in the comparison, the read *)
(* and the write of MaxSeq += seqStep, and the atomic increment of CurSeq. *)
(* Calls with another flag than "groupMember" return the clock and touch   *)
(* none of this.                                                           *)
(***************************************************************************)
EXTENDS Integers

CONSTANTS
    Procs,      \* processes that share the database
    Callers,    \* goroutines that call GenSeq, one call at a time each
    ProcOf,     \* the process of each caller
    Loads,      \* the sets of callers of which one makes the calls of a run (a model bound)
    Objects,    \* addresses of Seq objects; one is reused after collection
    NoSeq,      \* the nil pointer, no map entry
    NoRow,      \* no row in the table seq
    Base,       \* the first number, 1000000 in the code
    Step,       \* seqStep
    MaxNumber,  \* no number beyond this is drawn (a model bound)
    MaxCrashes  \* process restarts (a model bound)

ASSUME SeqAssumption ==
    /\ Loads \subseteq SUBSET Callers
    /\ ProcOf \in [Callers -> Procs]
    /\ NoSeq \notin Objects
    /\ Base \in Nat /\ Step \in Nat \ {0} /\ MaxNumber \in Nat /\ MaxCrashes \in Nat
    /\ NoRow \notin Nat

VARIABLES
    active,     \* the callers that make calls in this run of the system
    row,        \* min_seq of the row seq:groupMember, or NoRow
    seqMap,     \* seqMap["groupMember"] of each process
    cur, max,   \* CurSeq and MaxSeq of each object
    pc, obj,    \* where each caller is, and its local variable seq
    tmp,        \* the number it has read or is about to write
    issued,     \* the numbers GenSeq has returned
    repeated,   \* some number was returned twice
    made,       \* how many Seq objects were created
    met,        \* a call began during another, or two processes had blocks at a time
    crashes

vars == <<active, row, seqMap, cur, max, pc, obj, tmp, issued, repeated, made, met, crashes>>
answers == <<issued, repeated>>
world == <<active, crashes>>
kept == <<made, met>>

\* No row yet, or the row an earlier run of the system has left.
Init == /\ active \in Loads
        /\ row \in {NoRow, Base + Step}
        /\ seqMap = [p \in Procs |-> NoSeq]
        /\ cur = [o \in Objects |-> 0] /\ max = [o \in Objects |-> 0]
        /\ pc = [c \in Callers |-> "idle"]
        /\ obj = [c \in Callers |-> NoSeq]
        /\ tmp = [c \in Callers |-> 0]
        /\ issued = {} /\ repeated = FALSE
        /\ made = 0 /\ met = FALSE /\ crashes = 0

----------------------------------------------------------------------------
Go(c, to) == pc' = [pc EXCEPT ![c] = to]

Fresh(o) == /\ \A p \in Procs : seqMap[p] # o
            /\ \A c \in Callers : obj[c] # o

\* &Seq{CurSeq: from, MaxSeq: to}
NewSeq(c, from, to) ==
    \E o \in Objects : /\ Fresh(o)
                       /\ obj' = [obj EXCEPT ![c] = o]
                       /\ cur' = [cur EXCEPT ![o] = from]
                       /\ max' = [max EXCEPT ![o] = to]
                       /\ made' = made + 1
                       /\ met' = (met \/ \E p \in Procs \ {ProcOf[c]} : seqMap[p] # NoSeq)

\* The statement failed: GenSeq panics, the caller's handler is unwound.
Panic(c) == /\ Go(c, "idle")
            /\ obj' = [obj EXCEPT ![c] = NoSeq]
            /\ tmp' = [tmp EXCEPT ![c] = 0]

\* seqMap[flag] under the read lock.
Lookup(c) ==
    /\ pc[c] = "idle"
    /\ c \in active
    /\ obj' = [obj EXCEPT ![c] = seqMap[ProcOf[c]]]
    /\ Go(c, IF seqMap[ProcOf[c]] = NoSeq THEN "query" ELSE "read")
    /\ met' = (met \/ \E b \in Callers \ {c} : pc[b] # "idle")
    /\ UNCHANGED <<row, seqMap, cur, max, tmp, answers, world, made>>

\* A restart that trusts the block of the row to be unused.
QueryReuses(c) ==
    /\ pc[c] = "query"
    /\ \/ /\ row = NoRow
          /\ Go(c, "insert")
          /\ UNCHANGED <<obj, cur, max, kept>>
       \/ /\ row # NoRow
          /\ NewSeq(c, row - Step, row)
          /\ Go(c, "publish")
    /\ UNCHANGED <<row, seqMap, tmp, answers, world>>

\* querySeqWithKey, and the object for a row that exists.
Query(c) ==
    /\ pc[c] = "query"
    /\ \/ /\ row = NoRow
          /\ Go(c, "insert")
          /\ UNCHANGED <<obj, cur, max, kept>>
       \/ /\ row # NoRow
          /\ NewSeq(c, row, row)
          /\ Go(c, "publish")
    /\ UNCHANGED <<row, seqMap, tmp, answers, world>>

\* addOrUpdateSeq for the first block, and its object.
Insert(c) ==
    /\ pc[c] = "insert"
    /\ row' = Base + Step
    /\ NewSeq(c, Base, Base + Step)
    /\ Go(c, "publish")
    /\ UNCHANGED <<seqMap, tmp, answers, world>>

\* seqMap[flag] = seq under the write lock, over an entry another caller made.
Publish(c) ==
    /\ pc[c] = "publish"
    /\ seqMap' = [seqMap EXCEPT ![ProcOf[c]] = obj[c]]
    /\ Go(c, "read")
    /\ UNCHANGED <<row, cur, max, obj, tmp, answers, world, kept>>

\* seq.CurSeq >= seq.MaxSeq: one read ...
ReadCur(c) ==
    /\ pc[c] = "read"
    /\ tmp' = [tmp EXCEPT ![c] = cur[obj[c]]]
    /\ Go(c, "compare")
    /\ UNCHANGED <<row, seqMap, cur, max, obj, answers, world, kept>>

\* A refill that lets the block grow and leaves the row for later.
CompareGrows(c) ==
    /\ pc[c] = "compare"
    /\ IF tmp[c] >= max[obj[c]]
       THEN /\ Go(c, "add") /\ max' = [max EXCEPT ![obj[c]] = @ + Step]
       ELSE /\ Go(c, "add") /\ UNCHANGED max
    /\ tmp' = [tmp EXCEPT ![c] = 0]
    /\ UNCHANGED <<row, seqMap, cur, obj, answers, world, kept>>

\* ... and the other.
Compare(c) ==
    /\ pc[c] = "compare"
    /\ Go(c, IF tmp[c] >= max[obj[c]] THEN "end" ELSE "add")
    /\ tmp' = [tmp EXCEPT ![c] = 0]
    /\ UNCHANGED <<row, seqMap, cur, max, obj, answers, world, kept>>

\* A caller that refills reads CurSeq once more, for the row.
ReadEnd(c) ==
    /\ pc[c] = "end"
    /\ tmp' = [tmp EXCEPT ![c] = cur[obj[c]] + Step]
    /\ Go(c, "refill")
    /\ UNCHANGED <<row, seqMap, cur, max, obj, answers, world, kept>>

\* addOrUpdateSeq with CurSeq + seqStep: overwrites whatever the row holds.
Refill(c) ==
    /\ pc[c] = "refill"
    /\ row' = tmp[c]
    /\ tmp' = [tmp EXCEPT ![c] = 0]
    /\ Go(c, "grow")
    /\ UNCHANGED <<seqMap, cur, max, obj, answers, world, kept>>

\* seq.MaxSeq += seqStep, a read ...
GrowRead(c) ==
    /\ pc[c] = "grow"
    /\ tmp' = [tmp EXCEPT ![c] = max[obj[c]] + Step]
    /\ Go(c, "store")
    /\ UNCHANGED <<row, seqMap, cur, max, obj, answers, world, kept>>

\* A refill that restarts CurSeq at the beginning of the new block.
GrowWriteRestarts(c) ==
    /\ pc[c] = "store"
    /\ max' = [max EXCEPT ![obj[c]] = tmp[c]]
    /\ cur' = [cur EXCEPT ![obj[c]] = tmp[c] - Step]
    /\ tmp' = [tmp EXCEPT ![c] = 0]
    /\ Go(c, "add")
    /\ UNCHANGED <<row, seqMap, obj, answers, world, kept>>

\* ... and a write.
GrowWrite(c) ==
    /\ pc[c] = "store"
    /\ max' = [max EXCEPT ![obj[c]] = tmp[c]]
    /\ tmp' = [tmp EXCEPT ![c] = 0]
    /\ Go(c, "add")
    /\ UNCHANGED <<row, seqMap, cur, obj, answers, world, kept>>

\* return atomic.AddInt64(&seq.CurSeq, 1)
Add(c) ==
    LET n == cur[obj[c]] + 1 IN
    /\ pc[c] = "add"
    /\ n <= MaxNumber
    /\ cur' = [cur EXCEPT ![obj[c]] = n]
    /\ issued' = issued \cup {n}
    /\ repeated' = (repeated \/ n \in issued)
    /\ obj' = [obj EXCEPT ![c] = NoSeq]
    /\ Go(c, "idle")
    /\ UNCHANGED <<row, seqMap, max, tmp, world, kept>>

\* A statement fails: it was not executed, or it was and the answer was lost.
DBFails(c) ==
    /\ \/ pc[c] \in {"query", "insert", "refill"} /\ UNCHANGED row
       \/ pc[c] = "insert" /\ row' = Base + Step
       \/ pc[c] = "refill" /\ row' = tmp[c]
    /\ Panic(c)
    /\ UNCHANGED <<seqMap, cur, max, answers, world, kept>>

\* A process dies and is started again: its memory is gone, the row is not.  A statement
\* it had sent is executed before it dies, or never.
Restart(p) ==
    /\ crashes < MaxCrashes
    /\ crashes' = crashes + 1
    /\ seqMap' = [seqMap EXCEPT ![p] = NoSeq]
    /\ pc' = [c \in Callers |-> IF ProcOf[c] = p THEN "idle" ELSE pc[c]]
    /\ obj' = [c \in Callers |-> IF ProcOf[c] = p THEN NoSeq ELSE obj[c]]
    /\ tmp' = [c \in Callers |-> IF ProcOf[c] = p THEN 0 ELSE tmp[c]]
    /\ UNCHANGED <<active, row, cur, max, answers, kept>>

\* The model's bound, not the code's: every caller is about to draw beyond it.
AtBound == /\ \A c \in active : pc[c] = "add" /\ cur[obj[c]] >= MaxNumber
           /\ UNCHANGED vars

Next == \/ \E c \in Callers :
              \/ Lookup(c) \/ Query(c) \/ Insert(c) \/ Publish(c)
              \/ ReadCur(c) \/ Compare(c) \/ ReadEnd(c) \/ Refill(c) \/ GrowRead(c) \/ GrowWrite(c)
              \/ Add(c) \/ DBFails(c)
        \/ \E p \in Procs : Restart(p)
        \/ AtBound

Spec == Init /\ [][Next]_vars

----------------------------------------------------------------------------
\* Calls have come one at a time, and so have the processes' blocks: no process took a
\* block while another one had its own.  One process may follow another.
Serial == ~met

\* Calls that come one at a time never return a number twice (seq.go GenSeq), across
\* restarts, failed statements and the change from one process to the next: a new block
\* skips what the row has handed out.
SerialCallsNeverRepeat == Serial => ~repeated

\* Calls that come one at a time return no number above the persisted min_seq, where the
\* next process starts (seq.go:65 is reached before the block grows).
SerialNumbersArePersisted ==
    Serial /\ row # NoRow => \A n \in issued : n <= row

\* Calls that overlap, in whatever order they refill, repeat no number while they
\* share one Seq object (seq.go:75, the atomic increment): the unlocked refill costs
\* the bound MaxSeq, never the uniqueness.
OneSeqNeverRepeats == made <= 1 => ~repeated
============================================================================
