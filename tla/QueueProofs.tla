---------------------------- MODULE QueueProofs ----------------------------
(***************************************************************************)
(* Proofs about Queue for any finite set of consumers and observers and    *)
(* any number of pushed values.                                            *)
(*                                                                         *)
(* That no wakeup is lost is a count: while somebody sleeps, there are at  *)
(* least as many signalled consumers as buffered values.  A Push adds one  *)
(* to both, because the sleeper it signals is not yet counted; a signalled *)
(* consumer that takes a value or finds none takes one from both or        *)
(* lowers only a count that was not needed; a consumer that has just       *)
(* arrived can only lower the number of values.  With nobody asleep there  *)
(* is nothing to show.                                                     *)
(***************************************************************************)
EXTENDS Queue, FiniteSetTheorems, SequenceTheorems, TLAPS

\* A TryPop reported the end of a queue that was closed and empty (queue.go TryPop).
EndIsDrained == ended => closed /\ buffer = <<>>

\* The inductive invariant of queue.go.
IInv == /\ TypeOK
        /\ ExactlyOnceInOrder
        /\ NoLostWakeup
        /\ NobodySleepsOnClosed
        /\ EndIsDrained

----------------------------------------------------------------------------
\* buffer.Peek and buffer.Remove split a queue into its oldest value and the rest.
LEMMA HeadThenTail ==
    ASSUME NEW S, NEW s \in Seq(S), s # <<>>
    PROVE  /\ Head(s) \in S
           /\ Tail(s) \in Seq(S)
           /\ Len(Tail(s)) = Len(s) - 1
           /\ s = <<Head(s)>> \o Tail(s)
<1>1. /\ Head(s) \in S
      /\ Tail(s) \in Seq(S)
      /\ Len(Tail(s)) = Len(s) - 1
      /\ \A i \in 1..Len(Tail(s)) : Tail(s)[i] = s[i+1]
  BY HeadTailProperties
<1>2. Len(s) \in Nat \ {0} /\ Head(s) = s[1]
  BY EmptySeq
<1>3. <<Head(s)>> \in Seq(S) /\ Len(<<Head(s)>>) = 1 /\ <<Head(s)>>[1] = Head(s)
  BY <1>1
<1>4. /\ <<Head(s)>> \o Tail(s) \in Seq(S)
      /\ Len(<<Head(s)>> \o Tail(s)) = Len(s)
      /\ \A i \in 1..Len(s) : (<<Head(s)>> \o Tail(s))[i] = IF i = 1 THEN Head(s) ELSE Tail(s)[i-1]
  BY <1>1, <1>2, <1>3, ConcatProperties
<1>5. \A i \in 1..Len(s) : (<<Head(s)>> \o Tail(s))[i] = s[i]
  BY <1>1, <1>2, <1>4
<1>. QED BY <1>1, <1>4, <1>5, SeqEqual

\* The consumers signalled at any time are a finite set.
LEMMA WokenFinite ==
    ASSUME TypeOK
    PROVE  IsFiniteSet(woken) /\ Cardinality(woken) \in Nat
<1>1. IsFiniteSet(woken)
  BY FS_Subset, QueueAssumption DEF TypeOK
<1>. QED BY <1>1, FS_CardinalityType

\* Signal moves the consumer that has slept longest to the signalled ones.
LEMMA SignalMovesOne ==
    ASSUME TypeOK, Signal
    PROVE  /\ sleepers' \in Seq(Consumers)
           /\ woken' \in SUBSET Consumers
           /\ \A c \in woken' : ~Asleep(c)'
           /\ \A i, j \in 1..Len(sleepers') : sleepers'[i] = sleepers'[j] => i = j
           /\ sleepers = <<>> => sleepers' = <<>>
           /\ sleepers # <<>> => Cardinality(woken') = Cardinality(woken) + 1
<1>1. CASE sleepers = <<>>
  BY <1>1 DEF Signal, TypeOK, Asleep
<1>2. CASE sleepers # <<>>
  <2>1. /\ Head(sleepers) \in Consumers
        /\ Tail(sleepers) \in Seq(Consumers)
        /\ Len(Tail(sleepers)) = Len(sleepers) - 1
        /\ \A i \in 1..Len(Tail(sleepers)) : Tail(sleepers)[i] = sleepers[i+1]
    BY <1>2, HeadTailProperties DEF TypeOK
  <2>2. Len(sleepers) \in Nat \ {0} /\ Head(sleepers) = sleepers[1]
    BY <1>2, EmptySeq DEF TypeOK
  <2>3. sleepers' = Tail(sleepers) /\ woken' = woken \cup {Head(sleepers)}
    BY <1>2 DEF Signal
  <2>4. Head(sleepers) \notin woken
    BY <2>2 DEF TypeOK, Asleep
  <2>5. Cardinality(woken') = Cardinality(woken) + 1
    BY <2>3, <2>4, WokenFinite, FS_AddElement
  <2>6. \A i, j \in 1..Len(sleepers') : sleepers'[i] = sleepers'[j] => i = j
    BY <2>1, <2>2, <2>3 DEF TypeOK
  <2>7. ASSUME NEW c \in woken', NEW i \in 1..Len(sleepers'), sleepers'[i] = c PROVE FALSE
    <3>1. sleepers[i+1] = c /\ i+1 \in 1..Len(sleepers) /\ i+1 # 1
      BY <2>1, <2>2, <2>3, <2>7
    <3>2. c \notin woken
      BY <3>1 DEF TypeOK, Asleep
    <3>3. c = sleepers[1]
      BY <3>2, <2>2, <2>3
    <3>. QED BY <3>1, <3>3, <2>2 DEF TypeOK
  <2>8. \A c \in woken' : ~Asleep(c)'
    BY <2>7 DEF Asleep
  <2>. QED BY <1>2, <2>1, <2>3, <2>5, <2>6, <2>8 DEF TypeOK
<1>. QED BY <1>1, <1>2

\* Taking the oldest value moves it from the buffer to the delivered ones.
LEMMA TakeKeepsOrder ==
    ASSUME TypeOK, ExactlyOnceInOrder, buffer # <<>>, TakeHead, accepted' = accepted
    PROVE  /\ buffer' \in Seq(1..MaxPush)
           /\ delivered' \in Seq(1..MaxPush)
           /\ Len(buffer') = Len(buffer) - 1
           /\ ExactlyOnceInOrder'
<1> DEFINE V == 1..MaxPush
           h == Head(buffer)
<1>1. /\ h \in V /\ Tail(buffer) \in Seq(V)
      /\ Len(Tail(buffer)) = Len(buffer) - 1
      /\ buffer = <<h>> \o Tail(buffer)
  BY HeadThenTail DEF TypeOK
<1>2. delivered' = delivered \o <<h>> /\ buffer' = Tail(buffer)
  BY <1>1, AppendIsConcat DEF TakeHead, TypeOK
<1>3. <<h>> \in Seq(V) /\ delivered \in Seq(V)
  BY <1>1 DEF TypeOK
<1>4. (delivered \o <<h>>) \o Tail(buffer) = delivered \o (<<h>> \o Tail(buffer))
  BY <1>1, <1>3, ConcatAssociative
<1>5. delivered \o <<h>> \in Seq(V)
  BY <1>3, ConcatProperties
<1>. QED BY <1>1, <1>2, <1>4, <1>5 DEF ExactlyOnceInOrder

----------------------------------------------------------------------------
\* NewQueue: nothing pushed, nobody asleep.
LEMMA InitIInv == Init => IInv
<1> SUFFICES ASSUME Init PROVE IInv
  OBVIOUS
<1>1. TypeOK
  <2>1. <<>> \in Seq(1..MaxPush) /\ <<>> \in Seq(Consumers) /\ Len(<<>>) = 0
    BY EmptySeq
  <2>2. \A i, j \in 1..Len(sleepers) : sleepers[i] = sleepers[j] => i = j
    BY <2>1 DEF Init
  <2>3. /\ opc \in [Observers -> OPCs] /\ seen \in [Observers -> Nat]
        /\ pushes \in 0..MaxPush
    BY QueueAssumption DEF Init, OPCs
  <2>. QED BY <2>1, <2>2, <2>3 DEF Init, TypeOK
<1>2. ExactlyOnceInOrder
  BY ConcatEmptySeq DEF Init, ExactlyOnceInOrder
<1>3. NoLostWakeup /\ NobodySleepsOnClosed /\ EndIsDrained
  BY DEF Init, NoLostWakeup, NobodySleepsOnClosed, EndIsDrained
<1>. QED BY <1>1, <1>2, <1>3 DEF IInv

\* Push: one value more and, if somebody sleeps, one signalled consumer more.
LEMMA PushIInv ==
    ASSUME IInv, Push
    PROVE  IInv'
<1>. USE QueueAssumption
<1>1. CASE closed
  <2>1. UNCHANGED <<buffer, closed, sleepers, woken, accepted, delivered, ended, opc, seen>>
        /\ pushes' = pushes + 1 /\ pushes < MaxPush
    BY <1>1 DEF Push, ovars
  <2>2. TypeOK'
    BY <2>1 DEF IInv, TypeOK, Asleep
  <2>3. ExactlyOnceInOrder' /\ NoLostWakeup' /\ NobodySleepsOnClosed' /\ EndIsDrained'
    BY <2>1 DEF IInv, ExactlyOnceInOrder, NoLostWakeup, NobodySleepsOnClosed, EndIsDrained
  <2>. QED BY <2>2, <2>3 DEF IInv
<1>2. CASE ~closed
  <2> DEFINE v == pushes + 1
  <2>1. /\ buffer' = Append(buffer, v) /\ accepted' = Append(accepted, v) /\ Signal
        /\ pushes' = v /\ v \in 1..MaxPush
        /\ UNCHANGED <<closed, delivered, ended, opc, seen>>
    BY <1>2 DEF Push, ovars, IInv, TypeOK
  <2>2. /\ buffer' \in Seq(1..MaxPush) /\ Len(buffer') = Len(buffer) + 1
        /\ accepted' \in Seq(1..MaxPush)
        /\ accepted' = delivered \o buffer'
    <3> DEFINE V == 1..MaxPush
    <3>1. buffer \in Seq(V) /\ accepted \in Seq(V) /\ delivered \in Seq(V) /\ v \in V
      BY <2>1 DEF IInv, TypeOK
    <3>2. Append(buffer, v) \in Seq(V) /\ Len(Append(buffer, v)) = Len(buffer) + 1
      BY <3>1, AppendProperties
    <3>3. Append(accepted, v) \in Seq(V)
      BY <3>1, AppendProperties
    <3>4. Append(delivered \o buffer, v) = delivered \o Append(buffer, v)
      <4>1. /\ <<v>> \in Seq(V) /\ delivered \o buffer \in Seq(V)
            /\ Append(buffer, v) = buffer \o <<v>>
        BY <3>1, ConcatProperties, AppendIsConcat
      <4>2. Append(delivered \o buffer, v) = (delivered \o buffer) \o <<v>>
        BY <3>1, <4>1, AppendIsConcat
      <4>3. (delivered \o buffer) \o <<v>> = delivered \o (buffer \o <<v>>)
        BY <3>1, <4>1, ConcatAssociative
      <4>. QED BY <4>1, <4>2, <4>3
    <3>5. accepted = delivered \o buffer
      BY DEF IInv, ExactlyOnceInOrder
    <3>6. accepted' = delivered \o buffer'
      BY <2>1, <3>4, <3>5
    <3>. QED BY <2>1, <3>2, <3>3, <3>6
  <2>3. /\ sleepers' \in Seq(Consumers) /\ woken' \in SUBSET Consumers
        /\ \A c \in woken' : ~Asleep(c)'
        /\ \A i, j \in 1..Len(sleepers') : sleepers'[i] = sleepers'[j] => i = j
        /\ sleepers = <<>> => sleepers' = <<>>
        /\ sleepers # <<>> => Cardinality(woken') = Cardinality(woken) + 1
    BY <2>1, SignalMovesOne DEF IInv
  <2>4. TypeOK'
    BY <2>1, <2>2, <2>3 DEF IInv, TypeOK
  <2>5. NoLostWakeup'
    BY <2>2, <2>3, WokenFinite, LenProperties DEF IInv, TypeOK, NoLostWakeup
  <2>6. NobodySleepsOnClosed' /\ EndIsDrained'
    BY <1>2, <2>1 DEF IInv, NobodySleepsOnClosed, EndIsDrained
  <2>. QED BY <2>1, <2>2, <2>4, <2>5, <2>6 DEF IInv, ExactlyOnceInOrder
<1>. QED BY <1>1, <1>2

\* Close wakes everybody.
LEMMA CloseIInv ==
    ASSUME IInv, Close
    PROVE  IInv'
<1>1. /\ closed' = TRUE /\ sleepers' = <<>> /\ woken' \in SUBSET Consumers
      /\ ended = FALSE
      /\ UNCHANGED <<buffer, pushes, accepted, delivered, ended, opc, seen>>
  BY DEF Close, history, ovars, IInv, TypeOK, EndIsDrained
<1>2. TypeOK'
  BY <1>1 DEF IInv, TypeOK, Asleep
<1>3. ExactlyOnceInOrder' /\ NoLostWakeup' /\ NobodySleepsOnClosed' /\ EndIsDrained'
  BY <1>1 DEF IInv, ExactlyOnceInOrder, NoLostWakeup, NobodySleepsOnClosed, EndIsDrained
<1>. QED BY <1>2, <1>3 DEF IInv

(***************************************************************************)
(* Pop's section, entered by a consumer c that neither sleeps nor stays    *)
(* signalled; it may take one from the signalled consumers (c itself).     *)
(***************************************************************************)
LEMMA PopSectionIInv ==
    ASSUME IInv, NEW c \in Consumers, ~Asleep(c), PopSection(c),
           woken' = woken \ {c},
           UNCHANGED <<closed, pushes, accepted, ended, opc, seen>>
    PROVE  IInv'
<1>1. /\ IsFiniteSet(woken) /\ Cardinality(woken) \in Nat
      /\ Cardinality(woken') >= Cardinality(woken) - 1
      /\ Cardinality(woken') \in Nat
  <2>1. IsFiniteSet(woken) /\ Cardinality(woken) \in Nat
    BY WokenFinite DEF IInv
  <2>2. IsFiniteSet(woken \ {c})
        /\ Cardinality(woken \ {c}) = IF c \in woken THEN Cardinality(woken) - 1 ELSE Cardinality(woken)
    BY <2>1, FS_RemoveElement
  <2>3. Cardinality(woken \ {c}) \in Nat
    BY <2>2, FS_CardinalityType
  <2>. QED BY <2>1, <2>2, <2>3
<1>2. Len(buffer) \in Nat /\ (Len(buffer) = 0 <=> buffer = <<>>)
  BY EmptySeq, LenProperties DEF IInv, TypeOK
<1>3. CASE buffer = <<>> /\ ~closed /\ sleepers' = Append(sleepers, c)
           /\ UNCHANGED <<buffer, delivered>>
  <2>1. /\ sleepers' \in Seq(Consumers)
        /\ Len(sleepers') = Len(sleepers) + 1
        /\ \A i \in 1..Len(sleepers) : sleepers'[i] = sleepers[i]
        /\ sleepers'[Len(sleepers')] = c
        /\ Len(sleepers) \in Nat
    BY <1>3, AppendProperties, LenProperties DEF IInv, TypeOK
  <2>2. ASSUME NEW i \in 1..Len(sleepers'), NEW j \in 1..Len(sleepers'),
               sleepers'[i] = sleepers'[j]
        PROVE  i = j
    <3> DEFINE n == Len(sleepers) + 1
    <3>1. \A k \in 1..Len(sleepers) : sleepers[k] # c
      BY DEF Asleep
    <3>2. i \in 1..Len(sleepers) \/ i = n
      BY <2>1
    <3>3. j \in 1..Len(sleepers) \/ j = n
      BY <2>1
    <3>4. sleepers'[n] = c
      BY <2>1
    <3>5. CASE i \in 1..Len(sleepers) /\ j \in 1..Len(sleepers)
      BY <2>1, <2>2, <3>5 DEF IInv, TypeOK
    <3>6. CASE i = n /\ j # n
      BY <2>1, <2>2, <3>1, <3>3, <3>4, <3>6
    <3>7. CASE i # n /\ j = n
      BY <2>1, <2>2, <3>1, <3>2, <3>4, <3>7
    <3>. QED BY <3>2, <3>3, <3>5, <3>6, <3>7
  <2>3. \A d \in woken' : ~Asleep(d)'
    <3>1. SUFFICES ASSUME NEW d \in woken', NEW i \in 1..Len(sleepers'), sleepers'[i] = d
                   PROVE  FALSE
      BY DEF Asleep
    <3>2. d \in woken /\ d # c
      OBVIOUS
    <3>3. \A k \in 1..Len(sleepers) : sleepers[k] # d
      BY <3>2 DEF IInv, TypeOK, Asleep
    <3>4. i \in 1..Len(sleepers) \/ i = Len(sleepers')
      BY <2>1
    <3>. QED BY <2>1, <3>1, <3>2, <3>3, <3>4
  <2>4. TypeOK'
    BY <1>3, <2>1, <2>2, <2>3 DEF IInv, TypeOK
  <2>5. NoLostWakeup' /\ NobodySleepsOnClosed' /\ ExactlyOnceInOrder' /\ EndIsDrained'
    BY <1>1, <1>2, <1>3 DEF IInv, NoLostWakeup, NobodySleepsOnClosed, ExactlyOnceInOrder, EndIsDrained
  <2>. QED BY <2>4, <2>5 DEF IInv
<1>4. CASE closed /\ UNCHANGED <<buffer, delivered, sleepers>>
  <2>1. TypeOK'
    BY <1>4 DEF IInv, TypeOK, Asleep
  <2>2. NoLostWakeup' /\ NobodySleepsOnClosed' /\ ExactlyOnceInOrder' /\ EndIsDrained'
    BY <1>4 DEF IInv, NoLostWakeup, NobodySleepsOnClosed, ExactlyOnceInOrder, EndIsDrained
  <2>. QED BY <2>1, <2>2 DEF IInv
<1>5. CASE buffer # <<>> /\ ~closed /\ TakeHead /\ UNCHANGED sleepers
  <2>1. /\ buffer' \in Seq(1..MaxPush) /\ delivered' \in Seq(1..MaxPush)
        /\ Len(buffer') = Len(buffer) - 1
        /\ ExactlyOnceInOrder'
    BY <1>5, TakeKeepsOrder DEF IInv
  <2>2. TypeOK'
    BY <1>5, <2>1 DEF IInv, TypeOK, Asleep
  <2>3. NoLostWakeup'
    BY <1>1, <1>2, <1>5, <2>1 DEF IInv, NoLostWakeup
  <2>4. NobodySleepsOnClosed' /\ EndIsDrained'
    BY <1>5 DEF IInv, NobodySleepsOnClosed, EndIsDrained
  <2>. QED BY <2>1, <2>2, <2>3, <2>4 DEF IInv
<1>. QED BY <1>3, <1>4, <1>5 DEF PopSection

\* Pop, by a consumer that has just arrived and by one that was signalled.
LEMMA PopIInv ==
    ASSUME IInv, NEW c \in Consumers, PopArrive(c) \/ PopResume(c)
    PROVE  IInv'
<1>1. CASE PopArrive(c)
  <2>1. ~Asleep(c) /\ PopSection(c) /\ woken' = woken \ {c}
        /\ UNCHANGED <<closed, pushes, accepted, ended, opc, seen>>
    BY <1>1 DEF PopArrive, history, ovars
  <2>. QED BY <2>1, PopSectionIInv
<1>2. CASE PopResume(c)
  <2>1. ~Asleep(c) /\ PopSection(c) /\ woken' = woken \ {c}
        /\ UNCHANGED <<closed, pushes, accepted, ended, opc, seen>>
    BY <1>2 DEF PopResume, history, ovars, IInv, TypeOK
  <2>. QED BY <2>1, PopSectionIInv
<1>. QED BY <1>1, <1>2

\* TryPop takes a value or finds none.
LEMMA TryPopIInv ==
    ASSUME IInv, NEW c \in Consumers, TryPop(c)
    PROVE  IInv'
<1>1. CASE buffer # <<>>
  <2>1. TakeHead /\ UNCHANGED <<closed, sleepers, woken, pushes, accepted, ended, opc, seen>>
    BY <1>1 DEF TryPop, history, ovars
  <2>2. /\ buffer' \in Seq(1..MaxPush) /\ delivered' \in Seq(1..MaxPush)
        /\ Len(buffer') = Len(buffer) - 1
        /\ ExactlyOnceInOrder'
    BY <1>1, <2>1, TakeKeepsOrder DEF IInv
  <2>3. TypeOK'
    BY <2>1, <2>2 DEF IInv, TypeOK, Asleep
  <2>4. NoLostWakeup'
    <3>1. Len(buffer) \in Nat /\ Cardinality(woken) \in Nat
      BY WokenFinite, LenProperties DEF IInv, TypeOK
    <3>. QED BY <2>1, <2>2, <3>1 DEF IInv, NoLostWakeup
  <2>5. NobodySleepsOnClosed' /\ EndIsDrained'
    BY <1>1, <2>1 DEF IInv, NobodySleepsOnClosed, EndIsDrained
  <2>. QED BY <2>2, <2>3, <2>4, <2>5 DEF IInv
<1>2. CASE buffer = <<>>
  <2>1. ended' = (ended \/ closed)
        /\ UNCHANGED <<buffer, delivered, closed, sleepers, woken, pushes, accepted, opc, seen>>
    BY <1>2 DEF TryPop, history, ovars
  <2>2. TypeOK'
    BY <2>1 DEF IInv, TypeOK, Asleep
  <2>3. NoLostWakeup' /\ NobodySleepsOnClosed' /\ ExactlyOnceInOrder' /\ EndIsDrained'
    BY <1>2, <2>1 DEF IInv, NoLostWakeup, NobodySleepsOnClosed, ExactlyOnceInOrder, EndIsDrained
  <2>. QED BY <2>2, <2>3 DEF IInv
<1>. QED BY <1>1, <1>2

\* Wait only reads.
LEMMA WaitIInv ==
    ASSUME IInv, NEW o \in Observers,
           WaitCall(o) \/ WaitReadClosed(o) \/ WaitReadLength(o) \/ WaitReturn(o)
    PROVE  IInv'
<1>1. UNCHANGED <<buffer, closed, sleepers, woken, pushes, accepted, delivered, ended>>
  BY DEF WaitCall, WaitReadClosed, WaitReadLength, WaitReturn, history
<1>2. opc' \in [Observers -> OPCs] /\ seen' \in [Observers -> Nat]
  <2>1. Len(accepted) \in Nat
    BY LenProperties DEF IInv, TypeOK
  <2>2. opc \in [Observers -> OPCs] /\ seen \in [Observers -> Nat]
    BY DEF IInv, TypeOK
  <2>3. CASE WaitCall(o)
    BY <2>1, <2>2, <2>3 DEF WaitCall, OPCs
  <2>4. CASE WaitReadClosed(o)
    BY <2>2, <2>4 DEF WaitReadClosed, OPCs
  <2>5. CASE WaitReadLength(o)
    BY <2>2, <2>5 DEF WaitReadLength, OPCs
  <2>6. CASE WaitReturn(o)
    BY <2>2, <2>6 DEF WaitReturn, OPCs
  <2>. QED BY <2>3, <2>4, <2>5, <2>6
<1>3. TypeOK'
  BY <1>1, <1>2 DEF IInv, TypeOK, Asleep
<1>4. NoLostWakeup' /\ NobodySleepsOnClosed' /\ ExactlyOnceInOrder' /\ EndIsDrained'
  BY <1>1 DEF IInv, NoLostWakeup, NobodySleepsOnClosed, ExactlyOnceInOrder, EndIsDrained
<1>. QED BY <1>3, <1>4 DEF IInv

----------------------------------------------------------------------------
\* IInv holds in every state of every behaviour of queue.go.
THEOREM QueueInductive == Spec => []IInv
<1>1. IInv /\ [Next]_vars => IInv'
  <2>1. CASE UNCHANGED vars
    BY <2>1 DEF vars, IInv, TypeOK, Asleep, ExactlyOnceInOrder, NoLostWakeup,
                NobodySleepsOnClosed, EndIsDrained
  <2>. QED BY <2>1, PushIInv, CloseIInv, PopIInv, TryPopIInv, WaitIInv DEF Next
<1>. QED BY <1>1, InitIInv, PTL DEF Spec

\* Every accepted value is delivered once and in the order of the pushes, or is still in
\* the buffer (queue.go Push, Pop, TryPop).
THEOREM DeliveredOnceInOrder == Spec => []ExactlyOnceInOrder
BY QueueInductive, PTL DEF IInv

\* While a consumer sleeps, every buffered value has a signalled consumer of its own
\* (queue.go Push's Signal, Pop's loop).
THEOREM WakeupsAreNotLost == Spec => []NoLostWakeup
BY QueueInductive, PTL DEF IInv

\* Nobody sleeps on a closed queue (queue.go Close's Broadcast).
THEOREM ClosedQueueHasNoSleeper == Spec => []NobodySleepsOnClosed
BY QueueInductive, PTL DEF IInv

\* The end that TryPop reports is final (queue.go TryPop, Push).
THEOREM ReportedEndIsFinal == Spec => []EndIsFinal
<1>1. IInv => EndIsFinal
  BY ConcatEmptySeq DEF IInv, TypeOK, ExactlyOnceInOrder, EndIsDrained, EndIsFinal
<1>. QED BY <1>1, QueueInductive, PTL
============================================================================
