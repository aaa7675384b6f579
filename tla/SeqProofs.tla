----------------------------- MODULE SeqProofs -----------------------------
(***************************************************************************)
(* Proofs about Seq for any processes, callers, blocks and numbers.        *)
(*                                                                         *)
(* Numbers are unique as long as one object hands them out, in whatever    *)
(* order its callers refill it: each number is the object's CurSeq after   *)
(* an atomic increment, and nothing sets CurSeq back.  Calls that come one *)
(* at a time may go through several objects, one after the other: there    *)
(* the row of the table is what orders them.  Everything handed out is at  *)
(* most CurSeq, CurSeq at most MaxSeq, and MaxSeq at most the row, which   *)
(* the next object starts from; and MaxSeq grows only after the row has.   *)
(* While calls come one at a time this chain has one link of each kind:    *)
(* one caller in a call and one process with a block.                      *)
(***************************************************************************)
EXTENDS Seq, TLAPS

WithObject == {"publish", "read", "compare", "end", "refill", "grow", "store", "add"}
Pcs == {"idle", "query", "insert"} \cup WithObject
Pointers == Objects \cup {NoSeq}

TypeOK ==
    /\ active \subseteq Callers
    /\ row \in Nat \cup {NoRow}
    /\ seqMap \in [Procs -> Pointers]
    /\ cur \in [Objects -> Nat] /\ max \in [Objects -> Nat]
    /\ pc \in [Callers -> Pcs]
    /\ obj \in [Callers -> Pointers]
    /\ tmp \in [Callers -> Nat]
    /\ issued \subseteq Nat /\ repeated \in BOOLEAN
    /\ made \in Nat /\ met \in BOOLEAN

\* Who has an object (seq.go GenSeq).
LocalState == \A c \in Callers : pc[c] \in WithObject <=> obj[c] # NoSeq

\* Everything handed out came from o's CurSeq (seq.go:75).
Only(o) ==
    /\ \A p \in Procs : seqMap[p] \in {o, NoSeq}
    /\ \A c \in Callers : obj[c] \in {o, NoSeq}
    /\ \A n \in issued : n <= cur[o]
    /\ repeated = FALSE
OneObject ==
    /\ made = 0 => /\ \A p \in Procs : seqMap[p] = NoSeq
                   /\ \A c \in Callers : obj[c] = NoSeq
                   /\ issued = {} /\ repeated = FALSE
    /\ made = 1 => \E o \in Objects : Only(o)

\* The block of object o: numbers, CurSeq, MaxSeq and the row in this order (seq.go GenSeq).
Block(o) ==
    /\ row # NoRow
    /\ \A n \in issued : n <= cur[o]
    /\ cur[o] <= max[o] /\ max[o] <= row

\* What caller c knows of its object, at each step of its call (seq.go GenSeq).
Knows(c) ==
    /\ pc[c] = "compare" => tmp[c] = cur[obj[c]]
    /\ pc[c] \in {"end", "refill", "grow", "store"} => cur[obj[c]] = max[obj[c]]
    /\ pc[c] = "refill" => tmp[c] = cur[obj[c]] + Step
    /\ pc[c] \in {"grow", "store"} => max[obj[c]] + Step <= row
    /\ pc[c] = "store" => tmp[c] = max[obj[c]] + Step
    /\ pc[c] = "add" => cur[obj[c]] < max[obj[c]]

\* A call before its process has a block, and after.
Takes(c) ==
    /\ pc[c] \in {"query", "insert", "publish"} => seqMap[ProcOf[c]] = NoSeq
    /\ pc[c] = "insert" => row = NoRow
    /\ pc[c] = "publish" => Block(obj[c]) /\ \A p \in Procs : seqMap[p] = NoSeq
Uses(c) ==
    pc[c] \in WithObject \ {"publish"} => seqMap[ProcOf[c]] = obj[c] /\ Knows(c)

\* One call and one block at a time (seq.go GenSeq).
OneBlock ==
    /\ \A p, q \in Procs : seqMap[p] # NoSeq /\ seqMap[q] # NoSeq => p = q
    /\ \A p \in Procs : seqMap[p] # NoSeq => Block(seqMap[p])
OneCall ==
    /\ \A b, c \in Callers : pc[b] # "idle" /\ pc[c] # "idle" => b = c
    /\ \A c \in Callers : Takes(c) /\ Uses(c)
Issued == /\ repeated = FALSE
          /\ \A n \in issued : row # NoRow /\ n <= row
SerialBlocks == Serial => OneBlock /\ OneCall /\ Issued

\* The inductive invariant of seq.go.
IInv == TypeOK /\ LocalState /\ OneObject /\ SerialBlocks

----------------------------------------------------------------------------
LEMMA InitIInv == Init => IInv
<1>. SUFFICES ASSUME Init PROVE IInv
  OBVIOUS
<1>1. TypeOK
  <2>1. active \subseteq Callers /\ row \in Nat \cup {NoRow}
    BY SeqAssumption DEF Init
  <2>2. /\ seqMap \in [Procs -> Pointers] /\ cur \in [Objects -> Nat]
        /\ max \in [Objects -> Nat] /\ obj \in [Callers -> Pointers]
        /\ pc \in [Callers -> Pcs] /\ tmp \in [Callers -> Nat]
    BY DEF Init, Pointers, Pcs
  <2>. QED BY <2>1, <2>2 DEF Init, TypeOK
<1>2. LocalState
  BY DEF Init, LocalState, WithObject
<1>3. OneObject
  BY DEF Init, OneObject
<1>4. SerialBlocks
  <2>1. OneBlock /\ Issued
    BY DEF Init, OneBlock, Issued
  <2>2. OneCall
    BY DEF Init, OneCall, Takes, Uses, WithObject
  <2>. QED BY <2>1, <2>2 DEF SerialBlocks
<1>. QED BY <1>1, <1>2, <1>3, <1>4 DEF IInv

\* While calls come one at a time: the caller that is in one, and the block it has.
LEMMA AloneInCall ==
    ASSUME IInv, Serial, NEW c \in Callers, pc[c] # "idle"
    PROVE  /\ OneBlock /\ Issued /\ Takes(c) /\ Uses(c)
           /\ \A b \in Callers \ {c} : pc[b] = "idle"
  BY DEF IInv, SerialBlocks, OneCall

LEMMA AloneWithBlock ==
    ASSUME IInv, Serial, NEW c \in Callers, pc[c] \in WithObject \ {"publish"}
    PROVE  /\ seqMap[ProcOf[c]] = obj[c] /\ obj[c] \in Objects /\ Block(obj[c]) /\ Knows(c)
           /\ \A p \in Procs \ {ProcOf[c]} : seqMap[p] = NoSeq
<1>1. pc[c] # "idle" /\ ProcOf[c] \in Procs /\ obj[c] # NoSeq /\ obj[c] \in Objects
  BY SeqAssumption DEF WithObject, IInv, TypeOK, LocalState, Pointers
<1>2. OneBlock /\ Uses(c)
  BY <1>1, AloneInCall
<1>3. seqMap[ProcOf[c]] = obj[c] /\ Knows(c)
  BY <1>2 DEF Uses
<1>. QED BY <1>1, <1>2, <1>3 DEF OneBlock

\* A step of a call: what is left to show of the calls that come one at a time.
LEMMA CallsKept ==
    ASSUME IInv, Serial, NEW c \in Callers, pc[c] # "idle", pc' \in [Callers -> Pcs],
           \A b \in Callers \ {c} : pc'[b] = pc[b], Takes(c)', Uses(c)'
    PROVE  OneCall'
<1>1. \A b \in Callers \ {c} : pc'[b] = "idle"
  BY AloneInCall
<1>. QED BY <1>1 DEF OneCall, Takes, Uses, WithObject

\* A caller with an object moves on with it: only its block can be disturbed.
LEMMA MoveIInv ==
    ASSUME IInv, NEW c \in Callers, pc[c] \in WithObject \ {"publish"},
           NEW to \in WithObject \ {"publish"}, Go(c, to),
           UNCHANGED <<active, seqMap, cur, obj, issued, repeated, made, met>>,
           row' \in Nat \cup {NoRow}, max' \in [Objects -> Nat], tmp' \in [Callers -> Nat],
           Serial => Block(obj[c])' /\ Knows(c)'
    PROVE  IInv'
<1>1. TypeOK'
  BY DEF IInv, TypeOK, Go, Pcs
<1>2. LocalState'
  BY DEF IInv, TypeOK, LocalState, Go, WithObject
<1>3. OneObject'
  BY DEF IInv, OneObject, Only
<1>4. SerialBlocks'
  <2>. SUFFICES ASSUME Serial PROVE OneBlock' /\ OneCall' /\ Issued'
    BY DEF SerialBlocks, Serial
  <2>1. /\ seqMap[ProcOf[c]] = obj[c] /\ obj[c] \in Objects /\ ProcOf[c] \in Procs
        /\ \A p \in Procs \ {ProcOf[c]} : seqMap[p] = NoSeq
    BY AloneWithBlock, SeqAssumption
  <2>2. pc[c] # "idle" /\ pc'[c] = to /\ Issued
    BY AloneInCall DEF WithObject, IInv, TypeOK, Go
  <2>3. OneBlock'
    BY <2>1 DEF OneBlock
  <2>4. Takes(c)' /\ Uses(c)'
    BY <2>1, <2>2 DEF Takes, Uses, WithObject
  <2>5. OneCall'
    BY <1>1, <2>2, <2>4, CallsKept DEF TypeOK, Go, IInv
  <2>6. Issued'
    <3>1. cur[obj[c]] \in Nat /\ max'[obj[c]] \in Nat /\ row' \in Nat
      BY <2>1 DEF Block, IInv, TypeOK
    <3>. QED BY <2>1, <2>2, <3>1 DEF Issued, Block, IInv, TypeOK
  <2>. QED BY <2>3, <2>5, <2>6
<1>. QED BY <1>1, <1>2, <1>3, <1>4 DEF IInv

LEMMA ReadsIInv ==
    ASSUME IInv, NEW c \in Callers, ReadCur(c) \/ Compare(c) \/ ReadEnd(c) \/ GrowRead(c)
    PROVE  IInv'
<1>1. /\ pc[c] \in WithObject \ {"publish"} /\ obj[c] \in Objects
      /\ cur[obj[c]] \in Nat /\ max[obj[c]] \in Nat /\ Step \in Nat
  BY SeqAssumption
     DEF ReadCur, Compare, ReadEnd, GrowRead, IInv, TypeOK, LocalState, WithObject, Pointers
<1>2. Serial => Block(obj[c]) /\ Knows(c)
  BY <1>1, AloneWithBlock
<1>3. row \in Nat \cup {NoRow}
  BY DEF IInv, TypeOK
<1>4. CASE ReadCur(c)
  <2>1. pc'[c] = "compare" /\ tmp'[c] = cur[obj[c]] /\ tmp' \in [Callers -> Nat]
    BY <1>1, <1>4 DEF ReadCur, Go, IInv, TypeOK
  <2>2. Serial => Block(obj[c])' /\ Knows(c)'
    BY <1>2, <1>4, <2>1 DEF ReadCur, Block, Knows, answers, kept
  <2>. QED BY <1>1, <1>4, <2>1, <2>2, MoveIInv
           DEF ReadCur, WithObject, IInv, TypeOK, answers, world, kept
<1>5. CASE Compare(c)
  <2> DEFINE to == IF tmp[c] >= max[obj[c]] THEN "end" ELSE "add"
  <2>1. pc'[c] = to /\ tmp' \in [Callers -> Nat]
    BY <1>1, <1>5 DEF Compare, Go, IInv, TypeOK
  <2>2. Serial => Block(obj[c])' /\ Knows(c)'
    BY <1>1, <1>2, <1>5, <2>1 DEF Compare, Block, Knows, answers, kept
  <2>3. to \in WithObject \ {"publish"}
    BY DEF WithObject
  <2>. QED BY <1>1, <1>5, <2>1, <2>2, <2>3, MoveIInv DEF Compare, IInv, TypeOK, answers, world, kept
<1>6. CASE ReadEnd(c)
  <2>1. pc'[c] = "refill" /\ tmp'[c] = cur[obj[c]] + Step /\ tmp' \in [Callers -> Nat]
    BY <1>1, <1>6 DEF ReadEnd, Go, IInv, TypeOK
  <2>2. Serial => Block(obj[c])' /\ Knows(c)'
    BY <1>2, <1>6, <2>1 DEF ReadEnd, Block, Knows, answers, kept
  <2>. QED BY <1>1, <1>6, <2>1, <2>2, MoveIInv
           DEF ReadEnd, WithObject, IInv, TypeOK, answers, world, kept
<1>7. CASE GrowRead(c)
  <2>1. pc'[c] = "store" /\ tmp'[c] = max[obj[c]] + Step /\ tmp' \in [Callers -> Nat]
    BY <1>1, <1>7 DEF GrowRead, Go, IInv, TypeOK
  <2>2. Serial => Block(obj[c])' /\ Knows(c)'
    BY <1>2, <1>7, <2>1 DEF GrowRead, Block, Knows, answers, kept
  <2>. QED BY <1>1, <1>7, <2>1, <2>2, MoveIInv
           DEF GrowRead, WithObject, IInv, TypeOK, answers, world, kept
<1>. QED BY <1>4, <1>5, <1>6, <1>7

LEMMA RefillIInv ==
    ASSUME IInv, NEW c \in Callers, Refill(c)
    PROVE  IInv'
<1>1. /\ pc[c] = "refill" /\ pc[c] \in WithObject \ {"publish"} /\ obj[c] \in Objects
      /\ cur[obj[c]] \in Nat /\ max[obj[c]] \in Nat /\ tmp[c] \in Nat /\ Step \in Nat
      /\ NoRow \notin Nat
  BY SeqAssumption DEF Refill, IInv, TypeOK, LocalState, WithObject, Pointers
<1>2. Serial => Block(obj[c]) /\ Knows(c)
  BY <1>1, AloneWithBlock
<1>3. pc'[c] = "grow" /\ row' = tmp[c] /\ tmp' \in [Callers -> Nat]
  BY <1>1 DEF Refill, Go, IInv, TypeOK
<1>4. Serial => Block(obj[c])' /\ Knows(c)'
  BY <1>1, <1>2, <1>3 DEF Refill, Block, Knows, answers, kept
<1>. QED BY <1>1, <1>3, <1>4, MoveIInv DEF Refill, WithObject, IInv, TypeOK, answers, world, kept

LEMMA GrowWriteIInv ==
    ASSUME IInv, NEW c \in Callers, GrowWrite(c)
    PROVE  IInv'
<1>1. /\ pc[c] = "store" /\ pc[c] \in WithObject \ {"publish"} /\ obj[c] \in Objects
      /\ cur[obj[c]] \in Nat /\ max[obj[c]] \in Nat /\ tmp[c] \in Nat /\ Step \in Nat \ {0}
      /\ row \in Nat \cup {NoRow}
  BY SeqAssumption DEF GrowWrite, IInv, TypeOK, LocalState, WithObject, Pointers
<1>2. Serial => Block(obj[c]) /\ Knows(c)
  BY <1>1, AloneWithBlock
<1>3. /\ pc'[c] = "add" /\ max'[obj[c]] = tmp[c] /\ max' \in [Objects -> Nat]
      /\ tmp' \in [Callers -> Nat]
  BY <1>1 DEF GrowWrite, Go, IInv, TypeOK
<1>4. Serial => Block(obj[c])' /\ Knows(c)'
  BY <1>1, <1>2, <1>3 DEF GrowWrite, Block, Knows, answers, kept
<1>. QED BY <1>1, <1>3, <1>4, MoveIInv DEF GrowWrite, WithObject, IInv, TypeOK, answers, world, kept

LEMMA LookupIInv ==
    ASSUME IInv, NEW c \in Callers, Lookup(c)
    PROVE  IInv'
<1> DEFINE there == seqMap[ProcOf[c]]
           to == IF there = NoSeq THEN "query" ELSE "read"
<1>1. /\ pc[c] = "idle" /\ ProcOf[c] \in Procs
      /\ obj' = [obj EXCEPT ![c] = there] /\ pc' = [pc EXCEPT ![c] = to]
      /\ UNCHANGED <<active, row, seqMap, cur, max, tmp, issued, repeated, made>>
      /\ met' = (met \/ \E b \in Callers \ {c} : pc[b] # "idle")
  BY SeqAssumption DEF Lookup, Go, answers, world
<1>2. there \in Pointers /\ to \in Pcs /\ (to \in WithObject <=> there # NoSeq)
  BY <1>1 DEF IInv, TypeOK, Pcs, WithObject
<1>3. TypeOK'
  <2>1. met' \in BOOLEAN
    BY <1>1
  <2>. QED BY <1>1, <1>2, <2>1 DEF IInv, TypeOK
<1>4. LocalState'
  BY <1>1, <1>2 DEF IInv, TypeOK, LocalState
<1>5. OneObject'
  BY <1>1 DEF IInv, TypeOK, OneObject, Only
<1>6. SerialBlocks'
  <2>. SUFFICES ASSUME ~met' PROVE OneBlock' /\ OneCall' /\ Issued'
    BY DEF SerialBlocks, Serial
  <2>1. Serial /\ \A b \in Callers \ {c} : pc[b] = "idle"
    BY <1>1 DEF Serial
  <2>2. OneBlock /\ Issued
    BY <2>1 DEF IInv, SerialBlocks
  <2>3. OneBlock' /\ Issued'
    BY <1>1, <2>2 DEF OneBlock, Issued, Block
  <2>4. /\ obj'[c] = there /\ pc'[c] = to
        /\ \A b \in Callers \ {c} : pc'[b] = "idle"
    BY <1>1, <2>1 DEF IInv, TypeOK
  <2>5. Takes(c)' /\ Uses(c)'
    BY <1>1, <2>4 DEF Takes, Uses, Knows, WithObject
  <2>6. OneCall'
    BY <2>4, <2>5 DEF OneCall, Takes, Uses, WithObject
  <2>. QED BY <2>3, <2>6
<1>. QED BY <1>3, <1>4, <1>5, <1>6 DEF IInv

\* A caller finds no row, and goes on to insert it.
LEMMA NoRowIInv ==
    ASSUME IInv, NEW c \in Callers, pc[c] = "query", row = NoRow, Go(c, "insert"),
           UNCHANGED <<active, row, seqMap, cur, max, obj, tmp, issued, repeated, made, met>>
    PROVE  IInv'
<1>1. TypeOK'
  BY DEF IInv, TypeOK, Go, Pcs
<1>2. LocalState'
  BY DEF IInv, TypeOK, LocalState, Go, WithObject
<1>3. OneObject'
  BY DEF IInv, OneObject, Only
<1>4. SerialBlocks'
  <2>. SUFFICES ASSUME Serial PROVE OneBlock' /\ OneCall' /\ Issued'
    BY DEF SerialBlocks, Serial
  <2>1. OneBlock /\ Issued /\ Takes(c)
    BY AloneInCall
  <2>2. OneBlock' /\ Issued'
    BY <2>1 DEF OneBlock, Issued, Block
  <2>3. pc'[c] = "insert" /\ seqMap[ProcOf[c]] = NoSeq
    BY <2>1 DEF IInv, TypeOK, Go, Takes
  <2>4. Takes(c)' /\ Uses(c)'
    BY <2>3 DEF Takes, Uses, WithObject
  <2>5. OneCall'
    BY <1>1, <2>4, CallsKept DEF IInv, TypeOK, Go
  <2>. QED BY <2>2, <2>5
<1>. QED BY <1>1, <1>2, <1>3, <1>4 DEF IInv

\* A caller makes an object that starts from the row.
LEMMA NewSeqIInv ==
    ASSUME IInv, NEW c \in Callers, pc[c] \in {"query", "insert"}, Go(c, "publish"),
           NEW from \in Nat, NEW to \in Nat, from <= to, NewSeq(c, from, to),
           row' \in Nat, to <= row',
           Serial => \A n \in issued : n <= from,
           UNCHANGED <<active, seqMap, tmp, issued, repeated>>
    PROVE  IInv'
<1>1. PICK o \in Objects : /\ Fresh(o) /\ obj' = [obj EXCEPT ![c] = o]
                           /\ cur' = [cur EXCEPT ![o] = from] /\ max' = [max EXCEPT ![o] = to]
                           /\ made' = made + 1
                           /\ met' = (met \/ \E p \in Procs \ {ProcOf[c]} : seqMap[p] # NoSeq)
  BY DEF NewSeq
<1>2. NoRow \notin Nat /\ NoSeq \notin Objects
  BY SeqAssumption
<1>3. TypeOK'
  <2>1. met' \in BOOLEAN
    BY <1>1
  <2>. QED BY <1>1, <2>1 DEF IInv, TypeOK, Go, Pcs, Pointers, WithObject
<1>4. LocalState'
  BY <1>1, <1>2 DEF IInv, TypeOK, LocalState, Go, WithObject
<1>5. OneObject'
  <2>1. made \in Nat /\ (made' = 1 => made = 0) /\ made' # 0
    BY <1>1 DEF IInv, TypeOK
  <2>2. ASSUME made = 0 PROVE Only(o)'
    BY <1>1, <2>2 DEF IInv, TypeOK, OneObject, Only
  <2>. QED BY <2>1, <2>2 DEF OneObject
<1>6. SerialBlocks'
  <2>. SUFFICES ASSUME ~met' PROVE OneBlock' /\ OneCall' /\ Issued'
    BY DEF SerialBlocks, Serial
  <2>1. Serial /\ \A p \in Procs \ {ProcOf[c]} : seqMap[p] = NoSeq
    BY <1>1 DEF Serial
  <2>2. Issued /\ Takes(c)
    BY <2>1, AloneInCall
  <2>3. \A p \in Procs : seqMap'[p] = NoSeq
    BY <2>1, <2>2 DEF Takes
  <2>4. pc'[c] = "publish" /\ obj'[c] = o /\ cur'[o] = from /\ max'[o] = to
    BY <1>1 DEF IInv, TypeOK, Go
  <2>5. Block(o)'
    BY <1>2, <2>1, <2>4 DEF Block
  <2>6. Takes(c)' /\ Uses(c)'
    BY <2>3, <2>4, <2>5, SeqAssumption DEF Takes, Uses, Block
  <2>7. OneCall'
    BY <1>3, <2>1, <2>6, CallsKept DEF IInv, TypeOK, Go
  <2>8. OneBlock'
    BY <2>3 DEF OneBlock
  <2>9. Issued'
    BY <1>2, <2>1, <2>2 DEF IInv, TypeOK, Issued
  <2>. QED BY <2>7, <2>8, <2>9
<1>. QED BY <1>3, <1>4, <1>5, <1>6 DEF IInv

LEMMA QueryIInv ==
    ASSUME IInv, NEW c \in Callers, Query(c)
    PROVE  IInv'
<1>1. /\ pc[c] = "query" /\ row \in Nat \cup {NoRow}
      /\ UNCHANGED <<active, row, seqMap, tmp, issued, repeated>>
  BY DEF Query, IInv, TypeOK, answers, world
<1>2. CASE row = NoRow /\ Go(c, "insert") /\ UNCHANGED <<obj, cur, max, kept>>
  BY <1>1, <1>2, NoRowIInv DEF kept
<1>3. CASE row # NoRow /\ NewSeq(c, row, row) /\ Go(c, "publish")
  <2>1. row \in Nat /\ row <= row
    BY <1>1, <1>3
  <2>2. Serial => \A n \in issued : n <= row
    BY <1>1, AloneInCall DEF Issued, Takes
  <2>. QED BY <1>1, <1>3, <2>1, <2>2, NewSeqIInv
<1>. QED BY <1>2, <1>3 DEF Query

LEMMA InsertIInv ==
    ASSUME IInv, NEW c \in Callers, Insert(c)
    PROVE  IInv'
<1>1. /\ pc[c] = "insert" /\ row' = Base + Step /\ NewSeq(c, Base, Base + Step)
      /\ Go(c, "publish") /\ UNCHANGED <<active, seqMap, tmp, issued, repeated>>
  BY DEF Insert, answers, world
<1>2. Base \in Nat /\ Base + Step \in Nat /\ Base <= Base + Step
  BY SeqAssumption
<1>3. Serial => \A n \in issued : n <= Base
  BY <1>1, AloneInCall DEF Issued, Takes
<1>. QED BY <1>1, <1>2, <1>3, NewSeqIInv

LEMMA PublishIInv ==
    ASSUME IInv, NEW c \in Callers, Publish(c)
    PROVE  IInv'
<1>1. /\ pc[c] = "publish" /\ seqMap' = [seqMap EXCEPT ![ProcOf[c]] = obj[c]]
      /\ pc' = [pc EXCEPT ![c] = "read"] /\ ProcOf[c] \in Procs
      /\ UNCHANGED <<active, row, cur, max, obj, tmp, issued, repeated, made, met>>
  BY SeqAssumption DEF Publish, Go, answers, world, kept
<1>2. TypeOK'
  BY <1>1 DEF IInv, TypeOK, Pcs, WithObject
<1>3. LocalState'
  BY <1>1 DEF IInv, TypeOK, LocalState, WithObject
<1>4. OneObject'
  BY <1>1 DEF IInv, TypeOK, OneObject, Only
<1>5. SerialBlocks'
  <2>. SUFFICES ASSUME Serial PROVE OneBlock' /\ OneCall' /\ Issued'
    BY <1>1 DEF SerialBlocks, Serial
  <2>1. Issued /\ Takes(c)
    BY <1>1, AloneInCall
  <2>2. /\ pc'[c] = "read" /\ seqMap'[ProcOf[c]] = obj[c] /\ Block(obj[c])
        /\ \A p \in Procs \ {ProcOf[c]} : seqMap'[p] = NoSeq
    BY <1>1, <2>1 DEF IInv, TypeOK, Takes
  <2>3. OneBlock'
    BY <1>1, <2>2 DEF OneBlock, Block
  <2>4. Takes(c)' /\ Uses(c)'
    BY <1>1, <2>2 DEF Takes, Uses, Knows, WithObject
  <2>5. OneCall'
    BY <1>1, <1>2, <2>4, CallsKept DEF IInv, TypeOK
  <2>6. Issued'
    BY <1>1, <2>1 DEF Issued
  <2>. QED BY <2>3, <2>5, <2>6
<1>. QED BY <1>2, <1>3, <1>4, <1>5 DEF IInv

LEMMA AddIInv ==
    ASSUME IInv, NEW c \in Callers, Add(c)
    PROVE  IInv'
<1> DEFINE n == cur[obj[c]] + 1
<1>1. /\ pc[c] = "add" /\ cur' = [cur EXCEPT ![obj[c]] = n]
      /\ issued' = issued \cup {n} /\ repeated' = (repeated \/ n \in issued)
      /\ obj' = [obj EXCEPT ![c] = NoSeq] /\ pc' = [pc EXCEPT ![c] = "idle"]
      /\ UNCHANGED <<active, row, seqMap, max, tmp, made, met>>
  BY DEF Add, Go, world, kept
<1>2. /\ obj[c] \in Objects /\ obj[c] # NoSeq /\ cur[obj[c]] \in Nat /\ n \in Nat
      /\ cur'[obj[c]] = n
  BY <1>1, SeqAssumption DEF IInv, TypeOK, LocalState, WithObject, Pointers
<1>3. TypeOK'
  <2>1. obj' \in [Callers -> Pointers] /\ pc' \in [Callers -> Pcs]
    BY <1>1 DEF IInv, TypeOK, Pointers, Pcs
  <2>2. cur' \in [Objects -> Nat] /\ issued' \subseteq Nat
    BY <1>1, <1>2 DEF IInv, TypeOK
  <2>3. repeated' \in BOOLEAN
    BY <1>1
  <2>. QED BY <1>1, <2>1, <2>2, <2>3 DEF IInv, TypeOK
<1>4. LocalState'
  BY <1>1 DEF IInv, TypeOK, LocalState, WithObject
<1>5. OneObject'
  <2>1. made # 0
    BY <1>2 DEF IInv, OneObject
  <2>2. ASSUME NEW o \in Objects, Only(o) PROVE Only(o)'
    <3>1. obj[c] = o
      BY <1>2, <2>2 DEF Only
    <3>2. n \notin issued /\ \A m \in issued' : m <= cur'[o]
      BY <1>1, <1>2, <2>2, <3>1 DEF Only, IInv, TypeOK
    <3>3. repeated' = FALSE
      BY <1>1, <2>2, <3>2 DEF Only
    <3>. QED BY <1>1, <2>2, <3>2, <3>3 DEF Only, IInv, TypeOK
  <2>. QED BY <1>1, <2>1, <2>2 DEF IInv, OneObject
<1>6. SerialBlocks'
  <2>. SUFFICES ASSUME Serial PROVE OneBlock' /\ OneCall' /\ Issued'
    BY <1>1 DEF SerialBlocks, Serial
  <2>1. /\ seqMap[ProcOf[c]] = obj[c] /\ Block(obj[c]) /\ Knows(c) /\ ProcOf[c] \in Procs
        /\ \A p \in Procs \ {ProcOf[c]} : seqMap[p] = NoSeq
    BY <1>1, AloneWithBlock, SeqAssumption DEF WithObject
  <2>2. pc'[c] = "idle" /\ Issued
    BY <1>1, AloneInCall DEF IInv, TypeOK
  <2>3. /\ n \notin issued /\ row \in Nat /\ row # NoRow /\ max[obj[c]] \in Nat
        /\ n <= max[obj[c]] /\ max[obj[c]] <= row /\ \A m \in issued' : m <= n
    BY <1>1, <1>2, <2>1 DEF Block, Knows, IInv, TypeOK
  <2>4. cur'[seqMap[ProcOf[c]]] = n /\ seqMap' = seqMap
    BY <1>1, <1>2, <2>1
  <2>5. Block(seqMap[ProcOf[c]])'
    BY <1>1, <2>1, <2>3, <2>4 DEF Block
  <2>6. OneBlock'
    BY <1>1, <2>1, <2>5 DEF OneBlock
  <2>7. OneCall'
    BY <1>1, <1>3, <2>2, CallsKept DEF IInv, TypeOK, Takes, Uses, WithObject
  <2>8. Issued'
    BY <1>1, <1>2, <2>2, <2>3 DEF IInv, TypeOK, Issued
  <2>. QED BY <2>6, <2>7, <2>8
<1>. QED BY <1>3, <1>4, <1>5, <1>6 DEF IInv

\* The statement may have been executed: the row has grown, the block has not.
LEMMA DBFailsIInv ==
    ASSUME IInv, NEW c \in Callers, DBFails(c)
    PROVE  IInv'
<1>1. /\ pc[c] \in {"query", "insert", "refill"}
      /\ \/ row' = row
         \/ pc[c] = "insert" /\ row' = Base + Step
         \/ pc[c] = "refill" /\ row' = tmp[c]
      /\ pc' = [pc EXCEPT ![c] = "idle"] /\ obj' = [obj EXCEPT ![c] = NoSeq]
      /\ tmp' = [tmp EXCEPT ![c] = 0]
      /\ UNCHANGED <<active, seqMap, cur, max, issued, repeated, made, met>>
  BY DEF DBFails, Panic, Go, answers, world, kept
<1>2. Base \in Nat /\ Step \in Nat /\ Base + Step \in Nat /\ tmp[c] \in Nat /\ NoRow \notin Nat
  BY SeqAssumption DEF IInv, TypeOK
<1>3. TypeOK'
  BY <1>1, <1>2 DEF IInv, TypeOK, Pointers, Pcs
<1>4. LocalState'
  BY <1>1 DEF IInv, TypeOK, LocalState, WithObject
<1>5. OneObject'
  BY <1>1 DEF IInv, TypeOK, OneObject, Only
<1>6. SerialBlocks'
  <2>. SUFFICES ASSUME Serial PROVE OneBlock' /\ OneCall' /\ Issued'
    BY <1>1 DEF SerialBlocks, Serial
  <2>1. pc'[c] = "idle" /\ OneBlock /\ Issued /\ Takes(c) /\ ProcOf[c] \in Procs
    BY <1>1, AloneInCall, SeqAssumption DEF IInv, TypeOK
  <2>2. OneCall'
    BY <1>1, <1>3, <2>1, CallsKept DEF IInv, TypeOK, Takes, Uses, WithObject
  <2>3. CASE row' = row
    BY <1>1, <2>1, <2>2, <2>3 DEF OneBlock, Issued, Block
  <2>4. CASE pc[c] = "insert"
    \* No row, so no block and no number yet.
    <3>1. issued = {} /\ \A p \in Procs : seqMap[p] = NoSeq
      BY <2>1, <2>4 DEF Takes, Issued, OneBlock, Block
    <3>. QED BY <1>1, <2>1, <2>2, <3>1 DEF OneBlock, Issued
  <2>5. CASE pc[c] = "refill" /\ row' = tmp[c]
    <3>1. /\ seqMap[ProcOf[c]] = obj[c] /\ obj[c] \in Objects /\ Block(obj[c]) /\ Knows(c)
          /\ \A p \in Procs \ {ProcOf[c]} : seqMap[p] = NoSeq
      BY <2>5, AloneWithBlock DEF WithObject
    <3>2. /\ cur[obj[c]] \in Nat /\ max[obj[c]] \in Nat /\ cur[obj[c]] = max[obj[c]]
          /\ tmp[c] = cur[obj[c]] + Step
      BY <2>5, <3>1 DEF IInv, TypeOK, Knows
    <3>3. row' \in Nat /\ row' # NoRow /\ max[obj[c]] <= row'
      BY <1>2, <2>5, <3>2
    <3>4. Block(seqMap[ProcOf[c]])'
      BY <1>1, <3>1, <3>2, <3>3 DEF Block
    <3>5. OneBlock'
      BY <1>1, <3>1, <3>4 DEF OneBlock, Block
    <3>6. Issued'
      BY <1>1, <2>1, <3>1, <3>2, <3>3 DEF IInv, TypeOK, Issued, Block
    <3>. QED BY <2>2, <3>5, <3>6
  <2>. QED BY <1>1, <2>3, <2>4, <2>5
<1>. QED BY <1>3, <1>4, <1>5, <1>6 DEF IInv

LEMMA RestartIInv ==
    ASSUME IInv, NEW p \in Procs, Restart(p)
    PROVE  IInv'
<1>1. /\ seqMap' = [seqMap EXCEPT ![p] = NoSeq]
      /\ pc' = [c \in Callers |-> IF ProcOf[c] = p THEN "idle" ELSE pc[c]]
      /\ obj' = [c \in Callers |-> IF ProcOf[c] = p THEN NoSeq ELSE obj[c]]
      /\ tmp' = [c \in Callers |-> IF ProcOf[c] = p THEN 0 ELSE tmp[c]]
      /\ UNCHANGED <<active, row, cur, max, issued, repeated, made, met>>
  BY DEF Restart, answers, kept
<1>2. TypeOK'
  BY <1>1 DEF IInv, TypeOK, Pointers, Pcs
<1>3. LocalState'
  BY <1>1 DEF IInv, TypeOK, LocalState, WithObject
<1>4. OneObject'
  BY <1>1 DEF IInv, TypeOK, OneObject, Only
<1>5. SerialBlocks'
  <2>. SUFFICES ASSUME Serial PROVE OneBlock' /\ OneCall' /\ Issued'
    BY <1>1 DEF SerialBlocks, Serial
  <2>1. OneBlock /\ OneCall /\ Issued
    BY DEF IInv, SerialBlocks
  <2>2. \A q \in Procs : seqMap'[q] \in {seqMap[q], NoSeq} /\ (q # p => seqMap'[q] = seqMap[q])
    BY <1>1 DEF IInv, TypeOK
  <2>3. \A o \in Pointers : Block(o) => Block(o)'
    BY <1>1 DEF Block
  <2>4. OneBlock' /\ Issued'
    BY <1>1, <2>1, <2>2, <2>3 DEF OneBlock, Issued, IInv, TypeOK
  <2>5. ASSUME NEW c \in Callers PROVE Takes(c)' /\ Uses(c)'
    <3>1. CASE ProcOf[c] = p
      BY <1>1, <3>1 DEF Takes, Uses, WithObject
    <3>2. CASE ProcOf[c] # p
      <4>1. /\ pc'[c] = pc[c] /\ obj'[c] = obj[c] /\ tmp'[c] = tmp[c]
            /\ seqMap'[ProcOf[c]] = seqMap[ProcOf[c]] /\ obj[c] \in Pointers
        BY <1>1, <2>2, <3>2, SeqAssumption DEF IInv, TypeOK
      <4>2. Takes(c) /\ Uses(c)
        BY <2>1 DEF OneCall
      <4>3. Takes(c)'
        BY <1>1, <2>2, <2>3, <4>1, <4>2 DEF Takes
      <4>4. Uses(c)'
        BY <1>1, <4>1, <4>2 DEF Uses, Knows
      <4>. QED BY <4>3, <4>4
    <3>. QED BY <3>1, <3>2
  <2>6. OneCall'
    BY <1>1, <2>1, <2>5 DEF OneCall
  <2>. QED BY <2>4, <2>6
<1>. QED BY <1>2, <1>3, <1>4, <1>5 DEF IInv

----------------------------------------------------------------------------
\* IInv holds in every state of every behaviour of GenSeq.
THEOREM SeqInductive == Spec => []IInv
<1>1. IInv /\ [Next]_vars => IInv'
  <2>1. CASE UNCHANGED vars
    BY <2>1 DEF vars, IInv, TypeOK, LocalState, OneObject, Only, SerialBlocks, Serial,
                OneBlock, OneCall, Issued, Block, Takes, Uses, Knows
  <2>. QED BY <2>1, LookupIInv, QueryIInv, InsertIInv, PublishIInv, ReadsIInv, RefillIInv,
              GrowWriteIInv, AddIInv, DBFailsIInv, RestartIInv
           DEF Next, AtBound
<1>. QED BY <1>1, InitIInv, PTL DEF Spec

\* Whatever callers do to one Seq object at the same time, no number is handed out twice
\* (seq.go GenSeq).
THEOREM OneObjectIsEnough == Spec => []OneSeqNeverRepeats
<1>1. IInv => OneSeqNeverRepeats
  BY DEF IInv, TypeOK, OneObject, Only, OneSeqNeverRepeats
<1>. QED BY <1>1, SeqInductive, PTL

\* Calls that come one at a time hand out no number twice, across restarts, failed
\* statements and the change from one process to the next (seq.go GenSeq).
THEOREM SerialCallsAreSafe == Spec => []SerialCallsNeverRepeat
<1>1. IInv => SerialCallsNeverRepeat
  BY DEF IInv, SerialBlocks, Issued, SerialCallsNeverRepeat
<1>. QED BY <1>1, SeqInductive, PTL

\* ... and nothing beyond the row (seq.go:65).
THEOREM SerialNumbersAreInTheRow == Spec => []SerialNumbersArePersisted
<1>1. IInv => SerialNumbersArePersisted
  BY DEF IInv, SerialBlocks, Issued, SerialNumbersArePersisted
<1>. QED BY <1>1, SeqInductive, PTL
============================================================================
