---------------------------- MODULE Dispatcher -----------------------------
(***************************************************************************)
(* pkg/pool/dispatcher.go: goroutines send jobs on an unbuffered channel;   *)
(* one dispatching goroutine receives them and submits each to a pool of    *)
(* goroutines (ants), which blocks while all of them are busy.  A job may   *)
(* send a job itself, from inside the pool.                                *)
(*                                                                         *)
(* Go keeps blocked senders in a queue.  A panic in a job ends that job     *)
(* only (ants recovers it).                                                *)
(***************************************************************************)
EXTENDS Naturals, Sequences, FiniteSets, SequencesExt

CONSTANTS
    Jobs,
    Parent,     \* [job -> the job that sends it, or itself: sent from outside]
    PoolSize    \* workerCount

ASSUME PoolAssumption ==
    IsFiniteSet(Jobs) /\ Parent \in [Jobs -> Jobs] /\ PoolSize \in Nat \ {0}

\* The jobs that send jobs.
Senders == {Parent[j] : j \in {k \in Jobs : Parent[k] # k}}

VARIABLES
    sending,    \* jobs whose senders are blocked, in order
    inHand,     \* the job that loopPop holds, a sequence of at most one
    running,    \* jobs in the pool
    finished,   \* jobs that returned or panicked
    sent        \* jobs that somebody sent

poolVars == <<sending, inHand, running, finished, sent>>

PoolInit ==
    /\ sending = <<>>
    /\ inHand = <<>>
    /\ running = {}
    /\ finished = {}
    /\ sent = {}

Blocked(j) == \E k \in Jobs \ {j} : Parent[k] = j /\ k \in ToSet(sending)

\* c.Work <- job
SendJob(j) ==
    /\ j \notin sent
    /\ Parent[j] # j => Parent[j] \in running /\ ~Blocked(Parent[j])
    /\ sent' = sent \cup {j}
    /\ sending' = Append(sending, j)
    /\ UNCHANGED <<inHand, running, finished>>

\* for job := range c.Work
Pop ==
    /\ inHand = <<>>
    /\ sending # <<>>
    /\ inHand' = <<Head(sending)>>
    /\ sending' = Tail(sending)
    /\ UNCHANGED <<running, finished, sent>>

\* pool.Submit, which waits for a free worker.
Free == Cardinality(running) < PoolSize
SubmitOrDrop ==
    /\ inHand # <<>>
    /\ inHand' = <<>>
    /\ running' = IF Free THEN running \cup {Head(inHand)} ELSE running
    /\ UNCHANGED <<sending, finished, sent>>
Submit ==
    /\ inHand # <<>>
    /\ Free
    /\ running' = running \cup {Head(inHand)}
    /\ inHand' = <<>>
    /\ UNCHANGED <<sending, finished, sent>>

\* A job returns once the jobs it sends have been received.
Finish(j) ==
    /\ j \in running
    /\ \A k \in Jobs \ {j} : Parent[k] = j => k \in sent
    /\ ~Blocked(j)
    /\ running' = running \ {j}
    /\ finished' = finished \cup {j}
    /\ UNCHANGED <<sending, inHand, sent>>

PoolNext ==
    \/ Pop
    \/ Submit
    \/ \E j \in Jobs : SendJob(j) \/ Finish(j)

PoolSpec == PoolInit /\ [][PoolNext]_poolVars

\* Whoever is in the pool goes on; nobody has to send a job from outside.
PoolFairness ==
    /\ WF_poolVars(Pop)
    /\ WF_poolVars(Submit)
    /\ \A j \in Jobs :
         /\ WF_poolVars(Finish(j))
         /\ Parent[j] # j => WF_poolVars(SendJob(j))

\* Everyone waits for everyone: every worker's job waits for the dispatching
\* goroutine to receive a job from it, and that goroutine, with a job in hand, for
\* a worker.
Jammed ==
    /\ inHand # <<>>
    /\ ~Free
    /\ \A j \in running : Blocked(j)

\* Being jammed is the one way in which the dispatching goroutine and the workers
\* can all be stuck: as long as a job that was sent has not finished, the channel
\* hands one over, a worker is free for the one in hand, or a job in the pool can
\* send its next job or return (loopPop, Submit, the unbuffered channel).  And it
\* takes as many jobs that send as there are workers.
StuckOnlyWhenJammed ==
    /\ \/ sent \subseteq finished
       \/ inHand = <<>> /\ sending # <<>>
       \/ inHand # <<>> /\ Free
       \/ \E j \in running :
            /\ ~Blocked(j)
            /\ \/ \E k \in Jobs \ {j} : Parent[k] = j /\ k \notin sent
               \/ \A k \in Jobs \ {j} : Parent[k] = j => k \in sent
       \/ Jammed
    /\ Jammed => PoolSize <= Cardinality(Senders)

\* Nothing clears a jam: Submit and the channel have no time limit.
JamsLast == [][Jammed => Jammed']_poolVars

\* A job is in one place at a time, and so runs once; no more jobs run than there
\* are workers; and a job that a sender waits with is a running job's
\* (loopPop, Submit).
JobsRunOnce ==
    /\ sent = ToSet(sending) \cup ToSet(inHand) \cup running \cup finished
    /\ \A i, j \in DOMAIN sending : sending[i] = sending[j] => i = j
    /\ ToSet(sending) \cap (ToSet(inHand) \cup running \cup finished) = {}
    /\ ToSet(inHand) \cap (running \cup finished) = {}
    /\ running \cap finished = {}
    /\ Cardinality(running) <= PoolSize
    /\ \A j \in ToSet(sending) : Parent[j] # j => Parent[j] \in running

\* With fewer jobs that send than workers, every job that was sent runs to its end,
\* the jobs it sends included: Submit waits for a worker and drops nothing, and the
\* workers that wait for the dispatching goroutine are never all of them.  Nothing
\* in dispatcher.go keeps the senders that few; with more the pool may jam.
JobsFinish == Cardinality(Senders) < PoolSize => <>[](sent \subseteq finished)
============================================================================
