------------------------------- MODULE Queue -------------------------------
(***************************************************************************)
(* pkg/pool/queue.go: an unbounded FIFO queue under one mutex, with a      *)
(* condition variable for the consumers that find it empty.                *)
(*                                                                         *)
(* A section under the mutex is one step.  Pop is the exception: it sleeps *)
(* in the middle of its section and looks again once it is woken and has   *)
(* the mutex back, and other goroutines, consumers that have only just     *)
(* arrived among them, can be faster.  Len and Wait read the queue without *)
(* the mutex, each read in a step of its own.                              *)
(***************************************************************************)
EXTENDS Integers, Sequences, FiniteSets

CONSTANTS
    Consumers,  \* goroutines that call Pop and TryPop
    Observers,  \* goroutines that call Wait
    MaxPush     \* how many values are pushed (a model bound)

ASSUME QueueAssumption == IsFiniteSet(Consumers) /\ MaxPush \in Nat

VARIABLES
    buffer,     \* Queue.buffer
    closed,     \* Queue.closed
    sleepers,   \* the notify list of popable: first come, first signalled
    woken,      \* consumers signalled that do not have the mutex back yet
    pushes,     \* how often Push was called; its n-th call pushes the value n
    accepted,   \* the values Push has put into the buffer, in order
    delivered,  \* the values Pop and TryPop have returned, in order
    ended,      \* some TryPop has returned (nil, true): closed and drained
    opc,        \* where each observer is in Wait
    seen        \* how many values had been accepted when it called Wait

vars == <<buffer, closed, sleepers, woken, pushes, accepted, delivered, ended, opc, seen>>
ovars == <<opc, seen>>
history == <<pushes, accepted>>

OPCs == {"out", "closed", "length", "empty", "shut"}

Init == /\ buffer = <<>> /\ closed = FALSE
        /\ sleepers = <<>> /\ woken = {}
        /\ pushes = 0 /\ accepted = <<>> /\ delivered = <<>> /\ ended = FALSE
        /\ opc = [o \in Observers |-> "out"]
        /\ seen = [o \in Observers |-> 0]

----------------------------------------------------------------------------
Asleep(c) == \E i \in 1..Len(sleepers) : sleepers[i] = c

\* A Signal that wakes nobody, and one that leaves the woken consumer on the list.
SignalNobody == UNCHANGED <<sleepers, woken>>

\* popable.Signal: wakes the consumer that has slept longest, if there is one.
Signal == IF sleepers = <<>>
          THEN UNCHANGED <<sleepers, woken>>
          ELSE /\ woken' = woken \cup {Head(sleepers)}
               /\ sleepers' = Tail(sleepers)

\* A Push that signals only when the queue was empty.
PushSignalIfEmpty ==
    /\ pushes < MaxPush
    /\ pushes' = pushes + 1
    /\ IF closed
       THEN UNCHANGED <<buffer, accepted, sleepers, woken>>
       ELSE /\ buffer' = Append(buffer, pushes + 1)
            /\ accepted' = Append(accepted, pushes + 1)
            /\ IF buffer = <<>> THEN Signal ELSE UNCHANGED <<sleepers, woken>>
    /\ UNCHANGED <<closed, delivered, ended, ovars>>

\* Push: dropped without a word once the queue is closed.
Push ==
    /\ pushes < MaxPush
    /\ pushes' = pushes + 1
    /\ IF closed
       THEN UNCHANGED <<buffer, accepted, sleepers, woken>>
       ELSE /\ buffer' = Append(buffer, pushes + 1)
            /\ accepted' = Append(accepted, pushes + 1)
            /\ Signal
    /\ UNCHANGED <<closed, delivered, ended, ovars>>

\* A Close that wakes one consumer instead of all.
CloseSignal ==
    /\ ~closed
    /\ closed' = TRUE
    /\ Signal
    /\ UNCHANGED <<buffer, history, delivered, ended, ovars>>

\* Close: the second call changes nothing; the first wakes every sleeper.
Close ==
    /\ ~closed
    /\ closed' = TRUE
    /\ woken' = woken \cup {c \in Consumers : Asleep(c)}
    /\ sleepers' = <<>>
    /\ UNCHANGED <<buffer, history, delivered, ended, ovars>>

\* A take that forgets buffer.Remove.
PeekOnly == /\ delivered' = Append(delivered, Head(buffer))
            /\ UNCHANGED buffer

\* buffer.Peek and buffer.Remove: the oldest value goes to the caller.
TakeHead == /\ delivered' = Append(delivered, Head(buffer))
            /\ buffer' = Tail(buffer)

\* A Pop whose loop waits for a value only, closed or not.
PopSectionWaitsForValue(c) ==
    \/ /\ buffer = <<>>
       /\ sleepers' = Append(sleepers, c)
       /\ UNCHANGED <<buffer, delivered>>
    \/ /\ closed /\ buffer # <<>>
       /\ UNCHANGED <<buffer, delivered, sleepers>>
    \/ /\ buffer # <<>> /\ ~closed
       /\ TakeHead
       /\ UNCHANGED sleepers

(***************************************************************************)
(* What Pop does whenever it holds the mutex, on arrival or after c.Wait:  *)
(* sleep while the queue is empty and open; return nil once it is closed,  *)
(* whatever the buffer holds; otherwise take a value.                      *)
(***************************************************************************)
PopSection(c) ==
    \/ /\ buffer = <<>> /\ ~closed
       /\ sleepers' = Append(sleepers, c)
       /\ UNCHANGED <<buffer, delivered>>
    \/ /\ closed
       /\ UNCHANGED <<buffer, delivered, sleepers>>
    \/ /\ buffer # <<>> /\ ~closed
       /\ TakeHead
       /\ UNCHANGED sleepers

PopArrive(c) ==
    /\ ~Asleep(c) /\ c \notin woken
    /\ PopSection(c)
    /\ UNCHANGED <<closed, woken, history, ended, ovars>>

PopResume(c) ==
    /\ c \in woken
    /\ woken' = woken \ {c}
    /\ PopSection(c)
    /\ UNCHANGED <<closed, history, ended, ovars>>

\* A TryPop that reports the end of a closed queue before it looks at the buffer.
TryPopEndFirst(c) ==
    /\ ~Asleep(c) /\ c \notin woken
    /\ IF closed
       THEN ended' = TRUE /\ UNCHANGED <<buffer, delivered>>
       ELSE /\ IF buffer # <<>> THEN TakeHead ELSE UNCHANGED <<buffer, delivered>>
            /\ UNCHANGED ended
    /\ UNCHANGED <<closed, sleepers, woken, history, ovars>>

\* TryPop never sleeps; it drains a closed queue and then reports the end.
TryPop(c) ==
    /\ ~Asleep(c) /\ c \notin woken
    /\ IF buffer # <<>>
       THEN TakeHead /\ UNCHANGED ended
       ELSE ended' = (ended \/ closed) /\ UNCHANGED <<buffer, delivered>>
    /\ UNCHANGED <<closed, sleepers, woken, history, ovars>>

----------------------------------------------------------------------------
WaitCall(o) ==
    /\ opc[o] = "out"
    /\ opc' = [opc EXCEPT ![o] = "closed"]
    /\ seen' = [seen EXCEPT ![o] = Len(accepted)]
    /\ UNCHANGED <<buffer, closed, sleepers, woken, history, delivered, ended>>

\* Wait's loop: e.closed || e.buffer.Length() == 0, read one after the other
\* without the mutex; "shut" and "empty" say which of them ended the loop.
WaitReadClosed(o) ==
    /\ opc[o] = "closed"
    /\ opc' = [opc EXCEPT ![o] = IF closed THEN "shut" ELSE "length"]
    /\ UNCHANGED <<buffer, closed, sleepers, woken, history, delivered, ended, seen>>

WaitReadLength(o) ==
    /\ opc[o] = "length"
    /\ opc' = [opc EXCEPT ![o] = IF Len(buffer) = 0 THEN "empty" ELSE "closed"]
    /\ UNCHANGED <<buffer, closed, sleepers, woken, history, delivered, ended, seen>>

\* A caller may call Wait again.
WaitReturn(o) ==
    /\ opc[o] \in {"empty", "shut"}
    /\ opc' = [opc EXCEPT ![o] = "out"]
    /\ seen' = [seen EXCEPT ![o] = 0]
    /\ UNCHANGED <<buffer, closed, sleepers, woken, history, delivered, ended>>

----------------------------------------------------------------------------
Next == \/ Push
        \/ Close
        \/ \E c \in Consumers : PopArrive(c) \/ PopResume(c) \/ TryPop(c)
        \/ \E o \in Observers :
              WaitCall(o) \/ WaitReadClosed(o) \/ WaitReadLength(o) \/ WaitReturn(o)

Spec == Init /\ [][Next]_vars

(***************************************************************************)
(* A woken consumer gets the mutex back: nothing holds it for long and a   *)
(* waiter of a sync.Mutex is not starved.  Consumers that take work in a   *)
(* loop call Pop again.  The pusher and the closer owe nothing.            *)
(***************************************************************************)
FairSpec == Spec /\ \A c \in Consumers : WF_vars(PopResume(c)) /\ WF_vars(PopArrive(c))

----------------------------------------------------------------------------
TypeOK == /\ buffer \in Seq(1..MaxPush)
          /\ closed \in BOOLEAN
          /\ sleepers \in Seq(Consumers)
          /\ woken \in SUBSET Consumers
          /\ pushes \in 0..MaxPush
          /\ accepted \in Seq(1..MaxPush)
          /\ delivered \in Seq(1..MaxPush)
          /\ ended \in BOOLEAN
          /\ opc \in [Observers -> OPCs]
          /\ seen \in [Observers -> Nat]
          /\ \A c \in woken : ~Asleep(c)
          /\ \A i, j \in 1..Len(sleepers) : sleepers[i] = sleepers[j] => i = j

\* Every accepted value is delivered at most once and in the order of the pushes, and
\* what is not delivered is still in the buffer (queue.go Push, Pop, TryPop).
ExactlyOnceInOrder == accepted = delivered \o buffer

\* No wakeup is lost (queue.go Push's Signal, Pop's loop): while a consumer sleeps,
\* every buffered value has a consumer that is awake and on its way to it, even when
\* consumers that have just arrived take values from under those that were signalled.
NoLostWakeup == sleepers # <<>> => Len(buffer) <= Cardinality(woken)

\* Nobody sleeps on a closed queue (queue.go Close's Broadcast, Pop's loop).
NobodySleepsOnClosed == closed => sleepers = <<>>

\* A TryPop that reports the end of the queue is right for ever: every value accepted
\* has been delivered and none will follow (queue.go TryPop, Push).
EndIsFinal == ended => delivered = accepted

\* A consumer asleep or signalled when the queue is closed returns from Pop, if the
\* scheduler is fair to it (queue.go Close).
CloseReleasesEveryPop == closed ~> (sleepers = <<>> /\ woken = {})

\* Consumers that keep calling Pop get every accepted value, unless the queue is closed
\* under them (queue.go Pop).
AcceptedIsDelivered ==
    \A n \in 1..MaxPush : Len(accepted) >= n ~> (Len(delivered) >= n \/ closed)

\* queue.go:88 says Wait waits until the queue has been consumed: when it returns,
\* every value accepted before the call has been taken.
WaitMeansConsumed ==
    \A o \in Observers : opc[o] \in {"empty", "shut"} => Len(delivered) >= seen[o]
============================================================================
