------------------------------ MODULE KeyLock -------------------------------
(***************************************************************************)
(* pkg/keylock/keylock.go: a mutex per key, kept in a map that is filled   *)
(* on demand and swept of idle entries by a cleaning loop.                 *)
(*                                                                         *)
(* The map is guarded by an RWMutex.  A section under its read lock reads  *)
(* the map, which no reader changes, and makes one atomic change of a      *)
(* counter; a section under its write lock excludes every other section.   *)
(* Each section is therefore one step.  The inner mutex is taken and       *)
(* released outside both, in steps of its own: between Unlock's done() and *)
(* its inner Unlock(), and between Lock's add() and its inner Lock(),      *)
(* other goroutines and the cleaning loop run.                             *)
(***************************************************************************)
EXTENDS Integers, FiniteSets

CONSTANTS
    Goroutines,  \* the callers of Lock and Unlock
    Keys,        \* the keys they lock
    Locks,       \* addresses of innerLock objects; one is reused after collection
    NoLock,      \* no entry in the map, and the nil pointer
    NoKey,       \* no call in progress
    MaxLoops     \* how many cleaning loops are started at most (a model bound)

ASSUME KeyLockAssumption ==
    /\ IsFiniteSet(Goroutines)
    /\ NoLock \notin Locks
    /\ NoKey \notin Keys
    /\ MaxLoops \in Nat

VARIABLES
    locks,     \* KeyLock.locks: key -> innerLock
    count,     \* innerLock.count
    held,      \* innerLock.Mutex is locked
    pc,        \* where each goroutine is in Lock / Unlock
    key,       \* its argument
    ref,       \* its local variable keyLock
    loops,     \* cleanLoop goroutines that have been started and not returned
    stopChan   \* stopChan has been closed

vars == <<locks, count, held, pc, key, ref, loops, stopChan>>

gvars == <<pc, key, ref>>
loopvars == <<loops, stopChan>>

(***************************************************************************)
(* "miss": Lock found no entry and goes for the write lock; "acquire":     *)
(* counted, blocked on or about to take the inner mutex; "in": Lock has    *)
(* returned; "release": Unlock has called done() and not yet unlocked.     *)
(***************************************************************************)
PCs == {"idle", "miss", "acquire", "in", "release"}

Init == /\ locks = [k \in Keys |-> NoLock]
        /\ count = [l \in Locks |-> 0]
        /\ held = [l \in Locks |-> FALSE]
        /\ pc = [g \in Goroutines |-> "idle"]
        /\ key = [g \in Goroutines |-> NoKey]
        /\ ref = [g \in Goroutines |-> NoLock]
        /\ loops = 0 /\ stopChan = FALSE

----------------------------------------------------------------------------
\* An address new() can return: no pointer to it is left.
Fresh(l) == /\ \A k \in Keys : locks[k] # l
            /\ \A g \in Goroutines : ref[g] # l

\* Lock, under the read lock: look the key up and count the caller.
LockRead(g, k) ==
    /\ pc[g] = "idle"
    /\ key' = [key EXCEPT ![g] = k]
    /\ \/ /\ locks[k] # NoLock
          /\ count' = [count EXCEPT ![locks[k]] = @ + 1]
          /\ ref' = [ref EXCEPT ![g] = locks[k]]
          /\ pc' = [pc EXCEPT ![g] = "acquire"]
       \/ /\ locks[k] = NoLock
          /\ pc' = [pc EXCEPT ![g] = "miss"]
          /\ UNCHANGED <<count, ref>>
    /\ UNCHANGED <<locks, held, loopvars>>

\* A Lock that does not look again under the write lock.
LockWriteBlind(g) ==
    /\ pc[g] = "miss"
    /\ \E l \in Locks :
          /\ Fresh(l)
          /\ locks' = [locks EXCEPT ![key[g]] = l]
          /\ count' = [count EXCEPT ![l] = 1]
          /\ held' = [held EXCEPT ![l] = FALSE]
          /\ ref' = [ref EXCEPT ![g] = l]
    /\ pc' = [pc EXCEPT ![g] = "acquire"]
    /\ UNCHANGED <<key, loopvars>>

\* Lock, under the write lock: look again, create the entry if it is still
\* missing, count the caller.
LockWrite(g) ==
    /\ pc[g] = "miss"
    /\ \/ /\ locks[key[g]] # NoLock
          /\ count' = [count EXCEPT ![locks[key[g]]] = @ + 1]
          /\ ref' = [ref EXCEPT ![g] = locks[key[g]]]
          /\ UNCHANGED <<locks, held>>
       \/ /\ locks[key[g]] = NoLock
          /\ \E l \in Locks :
                /\ Fresh(l)
                /\ locks' = [locks EXCEPT ![key[g]] = l]
                /\ count' = [count EXCEPT ![l] = 1]
                /\ held' = [held EXCEPT ![l] = FALSE]
                /\ ref' = [ref EXCEPT ![g] = l]
    /\ pc' = [pc EXCEPT ![g] = "acquire"]
    /\ UNCHANGED <<key, loopvars>>

\* Lock's last line, keyLock.Lock(): blocks while the inner mutex is held.
LockInner(g) ==
    /\ pc[g] = "acquire"
    /\ ~held[ref[g]]
    /\ held' = [held EXCEPT ![ref[g]] = TRUE]
    /\ pc' = [pc EXCEPT ![g] = "in"]
    /\ UNCHANGED <<locks, count, key, ref, loopvars>>

\* An Unlock that releases the inner mutex only when it was the last user.
UnlockReadLastOnly(g) ==
    LET l == locks[key[g]] IN
    /\ pc[g] = "in"
    /\ IF l # NoLock /\ count[l] = 1
       THEN ref' = [ref EXCEPT ![g] = l] /\ pc' = [pc EXCEPT ![g] = "release"] /\ UNCHANGED key
       ELSE /\ ref' = [ref EXCEPT ![g] = NoLock]
            /\ pc' = [pc EXCEPT ![g] = "idle"]
            /\ key' = [key EXCEPT ![g] = NoKey]
    /\ count' = [count EXCEPT ![l] = @ - 1]
    /\ UNCHANGED <<locks, held, loopvars>>

\* Unlock, under the read lock: look the key up afresh and drop the count; a key
\* that is not in the map makes Unlock return without unlocking anything.
UnlockRead(g) ==
    LET l == locks[key[g]] IN
    /\ pc[g] = "in"
    /\ IF l # NoLock
       THEN /\ count' = [count EXCEPT ![l] = @ - 1]
            /\ ref' = [ref EXCEPT ![g] = l]
            /\ pc' = [pc EXCEPT ![g] = "release"]
            /\ UNCHANGED key
       ELSE /\ ref' = [ref EXCEPT ![g] = NoLock]
            /\ pc' = [pc EXCEPT ![g] = "idle"]
            /\ key' = [key EXCEPT ![g] = NoKey]
            /\ UNCHANGED count
    /\ UNCHANGED <<locks, held, loopvars>>

\* Unlock's last line, keyLock.Unlock().
UnlockInner(g) ==
    /\ pc[g] = "release"
    /\ held' = [held EXCEPT ![ref[g]] = FALSE]
    /\ pc' = [pc EXCEPT ![g] = "idle"]
    /\ key' = [key EXCEPT ![g] = NoKey]
    /\ ref' = [ref EXCEPT ![g] = NoLock]
    /\ UNCHANGED <<locks, count, loopvars>>

----------------------------------------------------------------------------
\* A Clean that looks at the inner mutex instead of the count, so that it
\* removes the entry of a goroutine that is counted and has not locked yet.
CleanUnlocked ==
    /\ locks' = [k \in Keys |-> IF locks[k] # NoLock /\ ~held[locks[k]] THEN NoLock
                                ELSE locks[k]]
    /\ UNCHANGED <<count, held, gvars, loopvars>>

\* Clean, under the write lock: drop every entry whose count is zero.  The
\* loop calls it at each tick; it is exported, so anybody may.
Clean ==
    /\ locks' = [k \in Keys |-> IF locks[k] # NoLock /\ count[locks[k]] = 0 THEN NoLock
                                ELSE locks[k]]
    /\ UNCHANGED <<count, held, gvars, loopvars>>

\* Callers start loops before they stop them: a loop started later would return
\* at its first select.
StartCleanLoop ==
    /\ loops < MaxLoops
    /\ ~stopChan
    /\ loops' = loops + 1
    /\ UNCHANGED <<locks, count, held, gvars, stopChan>>

\* The second close of a channel panics: callers stop once.
StopCleanLoop ==
    /\ ~stopChan
    /\ stopChan' = TRUE
    /\ UNCHANGED <<locks, count, held, gvars, loops>>

\* A stop signal that is sent rather than closed reaches one loop only.
LoopReturnOnce ==
    /\ loops > 0
    /\ stopChan
    /\ loops' = loops - 1
    /\ stopChan' = FALSE
    /\ UNCHANGED <<locks, count, held, gvars>>

\* cleanLoop's case <-l.stopChan.
LoopReturn ==
    /\ loops > 0
    /\ stopChan
    /\ loops' = loops - 1
    /\ UNCHANGED <<locks, count, held, gvars, stopChan>>

----------------------------------------------------------------------------
Next == \/ \E g \in Goroutines :
              \/ \E k \in Keys : LockRead(g, k)
              \/ LockWrite(g)
              \/ LockInner(g)
              \/ UnlockRead(g)
              \/ UnlockInner(g)
        \/ Clean
        \/ StartCleanLoop
        \/ StopCleanLoop
        \/ LoopReturn

Spec == Init /\ [][Next]_vars

(***************************************************************************)
(* A goroutine inside Lock or Unlock runs on; the caller of Lock           *)
(* eventually calls Unlock; sync.Mutex hands a mutex that is released      *)
(* again and again to the waiter that has waited 1ms (its starvation       *)
(* mode), which is strong fairness of LockInner; a loop that finds both    *)
(* select cases ready takes each with positive probability.                *)
(***************************************************************************)
Fairness == /\ \A g \in Goroutines : /\ WF_vars(LockWrite(g))
                                     /\ SF_vars(LockInner(g))
                                     /\ WF_vars(UnlockRead(g))
                                     /\ WF_vars(UnlockInner(g))
            /\ WF_vars(LoopReturn)

FairSpec == Spec /\ Fairness

----------------------------------------------------------------------------
TypeOK == /\ locks \in [Keys -> Locks \cup {NoLock}]
          /\ count \in [Locks -> Nat]
          /\ held \in [Locks -> BOOLEAN]
          /\ pc \in [Goroutines -> PCs]
          /\ key \in [Goroutines -> Keys \cup {NoKey}]
          /\ ref \in [Goroutines -> Locks \cup {NoLock}]
          /\ loops \in Nat
          /\ stopChan \in BOOLEAN

\* The goroutines that are counted on lock l.
Users(l) == {g \in Goroutines : ref[g] = l /\ pc[g] \in {"acquire", "in"}}

\* Mutual exclusion per key (keylock.go Lock/Unlock): no two goroutines are between
\* Lock(k) and Unlock(k), whatever the cleaning loop does in between.
MutualExclusion ==
    \A g, h \in Goroutines :
        pc[g] = "in" /\ pc[h] = "in" /\ key[g] = key[h] => g = h

\* The lock a goroutine waits for or holds is the one the map has for its key: the
\* cleaning loop never sweeps it (keylock.go Clean), so Unlock finds it again.
InUseStaysMapped ==
    \A g \in Goroutines : pc[g] \in {"acquire", "in"} => locks[key[g]] = ref[g]

\* The count of a lock is the number of goroutines that use it, through every
\* interleaving of add and done (keylock.go add/done): a sweep can trust it.
CountIsUsers == \A l \in Locks : count[l] = Cardinality(Users(l))

\* Unlock's last line never unlocks an unlocked sync.Mutex, a fatal error in Go, even
\* when the entry was swept after done().
NoFatalUnlock == \A g \in Goroutines : pc[g] = "release" => held[ref[g]]

\* Every Lock call returns, provided its callers call Unlock: no entry is swept from
\* under a waiter and no Unlock is lost.
LockReturns == \A g \in Goroutines : pc[g] = "acquire" ~> pc[g] = "in"

\* After StopCleanLoop every cleaning goroutine returns, however often the loop was
\* started (keylock.go StopCleanLoop closes the channel, it does not send on it).
StopEndsLoops == stopChan ~> loops = 0

(***************************************************************************)
(* The map, the counts and the sweep are invisible to callers: the code    *)
(* implements one mutex per key.  Unlock leaves the key at done(), before  *)
(* it releases the inner mutex.                                            *)
(***************************************************************************)
Promise == INSTANCE KeyedMutex WITH
               want <- [g \in Goroutines |-> IF pc[g] = "release" THEN NoKey ELSE key[g]],
               inside <- {g \in Goroutines : pc[g] = "in"}

\* keylock.go (Lock, Unlock, Clean) implements KeyedMutex.
ImplementsKeyedMutex == Promise!ASpec
=============================================================================
