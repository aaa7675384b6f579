--------------------------- MODULE KeyLockProofs ----------------------------
(***************************************************************************)
(* Proofs about KeyLock for any finite set of goroutines and any keys.     *)
(*                                                                         *)
(* Mutual exclusion is not inductive.  Two goroutines inside one key could *)
(* hold two different locks if the sweep removed a lock in use; it does    *)
(* not because the count of a lock in use is not zero; and the count is    *)
(* right because it is, at every step, the number of the goroutines that   *)
(* point to the lock and have not called done().  IInv says all of this.   *)
(***************************************************************************)
EXTENDS KeyLock, FiniteSetTheorems, TLAPS

\* A goroutine has an argument and a lock exactly while it runs Lock or Unlock or
\* is in between (keylock.go Lock/Unlock, their local variables).
CallState == \A g \in Goroutines :
                /\ pc[g] = "idle" <=> key[g] = NoKey
                /\ pc[g] \in {"acquire", "in", "release"} <=> ref[g] # NoLock

\* The inner mutex of a goroutine past its inner Lock() is locked.
OwnerHolds == \A g \in Goroutines : pc[g] \in {"in", "release"} => held[ref[g]]

\* No two goroutines are past the inner Lock() of the same lock.
OneOwner == \A g, h \in Goroutines :
               /\ pc[g] \in {"in", "release"}
               /\ pc[h] \in {"in", "release"}
               /\ ref[g] = ref[h]
               => g = h

\* The inductive invariant of keylock.go's Lock, Unlock and Clean.
IInv == /\ TypeOK
        /\ CallState
        /\ CountIsUsers
        /\ InUseStaysMapped
        /\ OwnerHolds
        /\ OneOwner

----------------------------------------------------------------------------
\* A lock in use has a positive count, and its users are a finite set.
LEMMA UsersFinite ==
    ASSUME NEW l
    PROVE  /\ IsFiniteSet(Users(l))
           /\ Cardinality(Users(l)) \in Nat
           /\ \A g \in Users(l) : Cardinality(Users(l)) > 0
<1>1. IsFiniteSet(Users(l))
  <2>1. Users(l) \in SUBSET Goroutines
    BY DEF Users
  <2>. QED BY <2>1, FS_Subset, KeyLockAssumption
<1>2. Cardinality(Users(l)) \in Nat
  BY <1>1, FS_CardinalityType
<1>3. ASSUME NEW g \in Users(l) PROVE Cardinality(Users(l)) > 0
  <2>1. Users(l) # {}
    BY <1>3
  <2>2. Cardinality(Users(l)) # 0
    BY <2>1, <1>1, FS_EmptySet
  <2>. QED BY <2>2, <1>2
<1>. QED BY <1>1, <1>2, <1>3

\* Lock's add() and the assignment of its local variable go together: counting a
\* goroutine on l adds it to the users of l and to no others.
LEMMA AddUser ==
    ASSUME IInv, NEW g \in Goroutines, NEW l \in Locks,
           pc[g] \in {"idle", "miss"},
           ref' = [ref EXCEPT ![g] = l],
           pc' = [pc EXCEPT ![g] = "acquire"]
    PROVE  /\ Cardinality(Users(l)') = Cardinality(Users(l)) + 1
           /\ \A m \in Locks : m # l => Users(m)' = Users(m)
<1>1. /\ ref \in [Goroutines -> Locks \cup {NoLock}]
      /\ pc \in [Goroutines -> PCs]
      /\ g \notin Users(l)
  BY DEF IInv, TypeOK, Users
<1>2. Users(l)' = Users(l) \cup {g}
  BY <1>1 DEF Users
<1>3. Cardinality(Users(l)') = Cardinality(Users(l)) + 1
  BY <1>1, <1>2, UsersFinite, FS_AddElement
<1>4. ASSUME NEW m \in Locks, m # l PROVE Users(m)' = Users(m)
  BY <1>1, <1>4, KeyLockAssumption DEF Users, IInv, CallState
<1>. QED BY <1>3, <1>4

----------------------------------------------------------------------------
\* NewKeyLock: an empty map, nobody calling.
LEMMA InitIInv == Init => IInv
<1> SUFFICES ASSUME Init PROVE IInv
  OBVIOUS
<1>1. TypeOK
  BY DEF Init, TypeOK, PCs
<1>2. CallState
  BY DEF Init, CallState
<1>3. CountIsUsers
  <2>1. \A l \in Locks : Users(l) = {}
    BY DEF Init, Users
  <2>. QED BY <2>1, FS_EmptySet DEF Init, CountIsUsers
<1>4. InUseStaysMapped /\ OwnerHolds /\ OneOwner
  BY DEF Init, InUseStaysMapped, OwnerHolds, OneOwner
<1>. QED BY <1>1, <1>2, <1>3, <1>4 DEF IInv

\* Lock's section under the read lock.
LEMMA LockReadIInv ==
    ASSUME IInv, NEW g \in Goroutines, NEW k \in Keys, LockRead(g, k)
    PROVE  IInv'
<1>. USE KeyLockAssumption
<1>1. /\ TypeOK /\ pc[g] = "idle"
      /\ key' = [key EXCEPT ![g] = k]
      /\ UNCHANGED <<locks, held, loops, stopChan>>
  BY DEF IInv, LockRead, loopvars
<1>2. CASE locks[k] # NoLock
  <2>1. /\ locks[k] \in Locks
        /\ count' = [count EXCEPT ![locks[k]] = @ + 1]
        /\ ref' = [ref EXCEPT ![g] = locks[k]]
        /\ pc' = [pc EXCEPT ![g] = "acquire"]
    BY <1>1, <1>2 DEF LockRead, TypeOK
  <2>2. TypeOK'
    BY <1>1, <2>1 DEF TypeOK, PCs
  <2>3. CallState'
    BY <1>1, <2>1 DEF IInv, CallState, TypeOK
  <2>4. CountIsUsers'
    BY <1>1, <2>1, AddUser DEF IInv, CountIsUsers, TypeOK
  <2>5. InUseStaysMapped' /\ OwnerHolds' /\ OneOwner'
    BY <1>1, <2>1 DEF IInv, InUseStaysMapped, OwnerHolds, OneOwner, TypeOK
  <2>. QED BY <2>2, <2>3, <2>4, <2>5 DEF IInv
<1>3. CASE locks[k] = NoLock
  <2>1. /\ pc' = [pc EXCEPT ![g] = "miss"]
        /\ UNCHANGED <<count, ref>>
    BY <1>3 DEF LockRead
  <2>2. TypeOK'
    BY <1>1, <2>1 DEF TypeOK, PCs
  <2>3. CallState'
    BY <1>1, <2>1 DEF IInv, CallState, TypeOK
  <2>4. CountIsUsers'
    <3>1. \A l \in Locks : Users(l)' = Users(l)
      BY <1>1, <2>1 DEF Users, TypeOK
    <3>. QED BY <2>1, <3>1 DEF IInv, CountIsUsers
  <2>5. InUseStaysMapped' /\ OwnerHolds' /\ OneOwner'
    BY <1>1, <2>1 DEF IInv, InUseStaysMapped, OwnerHolds, OneOwner, TypeOK
  <2>. QED BY <2>2, <2>3, <2>4, <2>5 DEF IInv
<1>. QED BY <1>2, <1>3

\* Lock's section under the write lock, which finds the entry or creates it.
LEMMA LockWriteIInv ==
    ASSUME IInv, NEW g \in Goroutines, LockWrite(g)
    PROVE  IInv'
<1>. USE KeyLockAssumption
<1>1. /\ TypeOK /\ pc[g] = "miss" /\ key[g] \in Keys
      /\ pc' = [pc EXCEPT ![g] = "acquire"]
      /\ UNCHANGED <<key, loops, stopChan>>
  BY DEF IInv, LockWrite, loopvars, TypeOK, CallState
<1>2. CASE locks[key[g]] # NoLock
  <2>1. /\ locks[key[g]] \in Locks
        /\ count' = [count EXCEPT ![locks[key[g]]] = @ + 1]
        /\ ref' = [ref EXCEPT ![g] = locks[key[g]]]
        /\ UNCHANGED <<locks, held>>
    BY <1>1, <1>2 DEF LockWrite, TypeOK
  <2>2. TypeOK'
    BY <1>1, <2>1 DEF TypeOK, PCs
  <2>3. CallState'
    BY <1>1, <2>1 DEF IInv, CallState, TypeOK
  <2>4. CountIsUsers'
    BY <1>1, <2>1, AddUser DEF IInv, CountIsUsers, TypeOK
  <2>5. InUseStaysMapped' /\ OwnerHolds' /\ OneOwner'
    BY <1>1, <2>1 DEF IInv, InUseStaysMapped, OwnerHolds, OneOwner, TypeOK
  <2>. QED BY <2>2, <2>3, <2>4, <2>5 DEF IInv
<1>3. CASE locks[key[g]] = NoLock
  <2>1. PICK l \in Locks :
           /\ Fresh(l)
           /\ locks' = [locks EXCEPT ![key[g]] = l]
           /\ count' = [count EXCEPT ![l] = 1]
           /\ held' = [held EXCEPT ![l] = FALSE]
           /\ ref' = [ref EXCEPT ![g] = l]
    BY <1>3 DEF LockWrite
  <2>2. TypeOK'
    BY <1>1, <2>1 DEF TypeOK, PCs
  <2>3. CallState'
    BY <1>1, <2>1 DEF IInv, CallState, TypeOK
  <2>4. CountIsUsers'
    <3>1. Users(l) = {}
      BY <2>1 DEF Fresh, Users
    <3>2. Cardinality(Users(l)) = 0
      BY <3>1, FS_EmptySet
    <3>3. Cardinality(Users(l)') = Cardinality(Users(l)) + 1
      BY <1>1, <2>1, AddUser
    <3>4. \A m \in Locks : m # l => Users(m)' = Users(m)
      BY <1>1, <2>1, AddUser
    <3>. QED BY <2>1, <3>2, <3>3, <3>4 DEF IInv, CountIsUsers, TypeOK
  <2>5. InUseStaysMapped'
    <3>1. \A h \in Goroutines : pc[h] \in {"acquire", "in"} => key[h] # key[g]
      BY <1>3 DEF IInv, InUseStaysMapped, CallState
    <3>. QED BY <1>1, <2>1, <3>1 DEF IInv, InUseStaysMapped, TypeOK
  <2>6. OwnerHolds' /\ OneOwner'
    BY <1>1, <2>1 DEF IInv, OwnerHolds, OneOwner, TypeOK, Fresh
  <2>. QED BY <2>2, <2>3, <2>4, <2>5, <2>6 DEF IInv
<1>. QED BY <1>2, <1>3

\* keyLock.Lock(): the waiter that finds the inner mutex free takes it.
LEMMA LockInnerIInv ==
    ASSUME IInv, NEW g \in Goroutines, LockInner(g)
    PROVE  IInv'
<1>. USE KeyLockAssumption
<1>1. /\ TypeOK /\ pc[g] = "acquire" /\ ref[g] \in Locks /\ ~held[ref[g]]
      /\ held' = [held EXCEPT ![ref[g]] = TRUE]
      /\ pc' = [pc EXCEPT ![g] = "in"]
      /\ UNCHANGED <<locks, count, key, ref, loops, stopChan>>
  BY DEF IInv, LockInner, loopvars, TypeOK, CallState
<1>2. TypeOK'
  BY <1>1 DEF TypeOK, PCs
<1>3. CallState'
  BY <1>1 DEF IInv, CallState, TypeOK
<1>4. CountIsUsers'
  <2>1. \A l \in Locks : Users(l)' = Users(l)
    BY <1>1 DEF Users, TypeOK
  <2>. QED BY <1>1, <2>1 DEF IInv, CountIsUsers
<1>5. InUseStaysMapped' /\ OwnerHolds'
  BY <1>1 DEF IInv, InUseStaysMapped, OwnerHolds, TypeOK
<1>6. OneOwner'
  BY <1>1 DEF IInv, OneOwner, OwnerHolds, TypeOK
<1>. QED BY <1>2, <1>3, <1>4, <1>5, <1>6 DEF IInv

\* Unlock's section under the read lock finds the lock its caller holds.
LEMMA UnlockReadIInv ==
    ASSUME IInv, NEW g \in Goroutines, UnlockRead(g)
    PROVE  IInv'
<1>. USE KeyLockAssumption
<1> DEFINE l == ref[g]
<1>1. TypeOK /\ pc[g] = "in" /\ l \in Locks /\ locks[key[g]] = l
  BY DEF IInv, UnlockRead, TypeOK, CallState, InUseStaysMapped
<1>2. /\ count' = [count EXCEPT ![l] = @ - 1]
      /\ ref' = [ref EXCEPT ![g] = l]
      /\ pc' = [pc EXCEPT ![g] = "release"]
      /\ UNCHANGED <<locks, held, key, loops, stopChan>>
  BY <1>1 DEF UnlockRead, loopvars
<1>3. ref' = ref
  BY <1>1, <1>2 DEF TypeOK
<1>4. CountIsUsers' /\ count' \in [Locks -> Nat]
  <2>1. g \in Users(l) /\ Users(l)' = Users(l) \ {g}
    BY <1>1, <1>2, <1>3 DEF Users, TypeOK
  <2>2. /\ Cardinality(Users(l)') = Cardinality(Users(l)) - 1
        /\ Cardinality(Users(l)) \in Nat
        /\ Cardinality(Users(l)) > 0
    BY <2>1, UsersFinite, FS_RemoveElement
  <2>3. \A m \in Locks : m # l => Users(m)' = Users(m)
    BY <1>1, <1>2, <1>3 DEF Users, TypeOK
  <2>. QED BY <1>1, <1>2, <2>2, <2>3 DEF IInv, CountIsUsers, TypeOK
<1>5. TypeOK'
  BY <1>1, <1>2, <1>3, <1>4 DEF TypeOK, PCs
<1>6. CallState'
  BY <1>1, <1>2, <1>3 DEF IInv, CallState, TypeOK
<1>7. InUseStaysMapped' /\ OwnerHolds' /\ OneOwner'
  BY <1>1, <1>2, <1>3 DEF IInv, InUseStaysMapped, OwnerHolds, OneOwner, TypeOK
<1>. QED BY <1>4, <1>5, <1>6, <1>7 DEF IInv

\* keyLock.Unlock().
LEMMA UnlockInnerIInv ==
    ASSUME IInv, NEW g \in Goroutines, UnlockInner(g)
    PROVE  IInv'
<1>. USE KeyLockAssumption
<1>1. /\ TypeOK /\ pc[g] = "release" /\ ref[g] \in Locks
      /\ held' = [held EXCEPT ![ref[g]] = FALSE]
      /\ pc' = [pc EXCEPT ![g] = "idle"]
      /\ key' = [key EXCEPT ![g] = NoKey]
      /\ ref' = [ref EXCEPT ![g] = NoLock]
      /\ UNCHANGED <<locks, count, loops, stopChan>>
  BY DEF IInv, UnlockInner, loopvars, TypeOK, CallState
<1>2. TypeOK'
  BY <1>1 DEF TypeOK, PCs
<1>3. CallState'
  BY <1>1 DEF IInv, CallState, TypeOK
<1>4. CountIsUsers'
  <2>1. \A l \in Locks : Users(l)' = Users(l)
    BY <1>1 DEF Users, TypeOK
  <2>. QED BY <1>1, <2>1 DEF IInv, CountIsUsers
<1>5. InUseStaysMapped' /\ OneOwner'
  BY <1>1 DEF IInv, InUseStaysMapped, OneOwner, TypeOK
<1>6. OwnerHolds'
  BY <1>1 DEF IInv, OneOwner, OwnerHolds, TypeOK
<1>. QED BY <1>2, <1>3, <1>4, <1>5, <1>6 DEF IInv

\* The sweep removes no lock in use: its count is not zero.
LEMMA CleanIInv ==
    ASSUME IInv, Clean
    PROVE  IInv'
<1>. USE KeyLockAssumption
<1>1. /\ TypeOK
      /\ locks' = [k \in Keys |-> IF locks[k] # NoLock /\ count[locks[k]] = 0 THEN NoLock
                                  ELSE locks[k]]
      /\ UNCHANGED <<count, held, pc, key, ref, loops, stopChan>>
  BY DEF IInv, Clean, gvars, loopvars
<1>2. TypeOK'
  BY <1>1 DEF TypeOK
<1>3. CountIsUsers'
  <2>1. \A l \in Locks : Users(l)' = Users(l)
    BY <1>1 DEF Users
  <2>. QED BY <1>1, <2>1 DEF IInv, CountIsUsers
<1>4. InUseStaysMapped'
  <2>1. SUFFICES ASSUME NEW g \in Goroutines, pc[g] \in {"acquire", "in"}
                 PROVE  locks'[key[g]] = ref[g]
    BY <1>1 DEF InUseStaysMapped
  <2>2. key[g] \in Keys /\ ref[g] \in Locks /\ locks[key[g]] = ref[g]
    BY <2>1 DEF IInv, InUseStaysMapped, CallState, TypeOK
  <2>3. g \in Users(ref[g])
    BY <2>1 DEF Users
  <2>4. count[ref[g]] > 0
    BY <2>2, <2>3, UsersFinite DEF IInv, CountIsUsers
  <2>. QED BY <1>1, <2>2, <2>4
<1>5. CallState' /\ OwnerHolds' /\ OneOwner'
  BY <1>1 DEF IInv, CallState, OwnerHolds, OneOwner
<1>. QED BY <1>2, <1>3, <1>4, <1>5 DEF IInv

\* Starting and stopping the loops, and steps that change nothing.
LEMMA LoopIInv ==
    ASSUME IInv, StartCleanLoop \/ StopCleanLoop \/ LoopReturn \/ UNCHANGED vars
    PROVE  IInv'
<1>1. /\ UNCHANGED <<locks, count, held, pc, key, ref>>
      /\ loops' \in Nat /\ stopChan' \in BOOLEAN
  <2>1. loops \in Nat /\ stopChan \in BOOLEAN
    BY DEF IInv, TypeOK
  <2>2. CASE StartCleanLoop
    BY <2>1, <2>2 DEF StartCleanLoop, gvars
  <2>3. CASE StopCleanLoop
    BY <2>1, <2>3 DEF StopCleanLoop, gvars
  <2>4. CASE LoopReturn
    BY <2>1, <2>4 DEF LoopReturn, gvars
  <2>5. CASE UNCHANGED vars
    BY <2>1, <2>5 DEF vars
  <2>. QED BY <2>2, <2>3, <2>4, <2>5
<1>2. \A l \in Locks : Users(l)' = Users(l)
  BY <1>1 DEF Users
<1>. QED
  BY <1>1, <1>2 DEF IInv, TypeOK, CallState, CountIsUsers, InUseStaysMapped, OwnerHolds, OneOwner

----------------------------------------------------------------------------
\* IInv holds in every state of every behaviour of keylock.go.
THEOREM Inductive == Spec => []IInv
<1>1. IInv /\ [Next]_vars => IInv'
  BY LockReadIInv, LockWriteIInv, LockInnerIInv, UnlockReadIInv, UnlockInnerIInv,
     CleanIInv, LoopIInv DEF Next
<1>. QED BY <1>1, InitIInv, PTL DEF Spec

\* Every variable keeps its type; the counts of the locks never go below zero.
THEOREM TypeCorrect == Spec => []TypeOK
BY Inductive, PTL DEF IInv

\* No two goroutines are inside one key, whatever Clean does meanwhile.
THEOREM KeyLockMutualExclusion == Spec => []MutualExclusion
<1>1. IInv => MutualExclusion
  BY DEF IInv, MutualExclusion, InUseStaysMapped, OneOwner
<1>. QED BY <1>1, Inductive, PTL

\* Unlock always finds the lock its caller holds: Clean removes none that is in use.
THEOREM UnlockIsSound == Spec => []InUseStaysMapped
<1>1. IInv => InUseStaysMapped
  BY DEF IInv
<1>. QED BY <1>1, Inductive, PTL

\* Unlock never unlocks a mutex that is not locked, which is a fatal error of the
\* runtime (keylock.go Unlock): the goroutine's lock is held until it releases it.
THEOREM UnlockNeverFatal == Spec => []NoFatalUnlock
<1>1. IInv => NoFatalUnlock
  BY DEF IInv, NoFatalUnlock, OwnerHolds
<1>. QED BY <1>1, Inductive, PTL

\* The count that Clean trusts is the number of goroutines that use the lock.
THEOREM CountsAreExact == Spec => []CountIsUsers
BY Inductive, PTL DEF IInv

----------------------------------------------------------------------------
\* A step of keylock.go is, for a caller that sees only which goroutines asked for
\* and are inside which key, a step of KeyedMutex or no step.
LEMMA StepIsPromised ==
    ASSUME IInv, IInv', [Next]_vars
    PROVE  [Promise!ANext]_(Promise!avars)
<1> USE KeyLockAssumption
<1> DEFINE w == [g \in Goroutines |-> IF pc[g] = "release" THEN NoKey ELSE key[g]]
           i == {g \in Goroutines : pc[g] = "in"}
<1>1. TypeOK /\ TypeOK' /\ CallState
  BY DEF IInv
<1>2. ASSUME NEW g \in Goroutines, NEW k \in Keys, LockRead(g, k)
      PROVE  Promise!Ask(g, k)
  <2>1. /\ pc[g] = "idle" /\ key[g] = NoKey
        /\ key' = [key EXCEPT ![g] = k]
        /\ pc' = [pc EXCEPT ![g] = "acquire"] \/ pc' = [pc EXCEPT ![g] = "miss"]
    BY <1>1, <1>2 DEF LockRead, CallState
  <2>2. w' = [w EXCEPT ![g] = k] /\ w[g] = NoKey /\ i' = i
    BY <1>1, <2>1 DEF TypeOK
  <2>. QED BY <2>2 DEF Promise!Ask
<1>3. ASSUME NEW g \in Goroutines, LockWrite(g) \/ UnlockInner(g)
      PROVE  w' = w /\ i' = i
  <2>1. CASE LockWrite(g)
    BY <1>1, <2>1 DEF LockWrite, TypeOK
  <2>2. CASE UnlockInner(g)
    BY <1>1, <2>2 DEF UnlockInner, TypeOK
  <2>. QED BY <1>3, <2>1, <2>2
<1>4. ASSUME NEW g \in Goroutines, LockInner(g)
      PROVE  Promise!Enter(g)
  <2>1. /\ pc[g] = "acquire" /\ key[g] \in Keys
        /\ pc' = [pc EXCEPT ![g] = "in"]
        /\ key' = key
    BY <1>1, <1>4 DEF LockInner, CallState, TypeOK
  <2>2. w' = w /\ w[g] # NoKey /\ g \notin i /\ i' = i \cup {g}
    BY <1>1, <2>1 DEF TypeOK
  <2>3. \A h \in i : w[h] # w[g]
    <3>1. SUFFICES ASSUME NEW h \in Goroutines, pc[h] = "in", key[h] = key[g] PROVE FALSE
      BY <2>1
    <3>2. ref[h] = ref[g] /\ held[ref[h]]
      BY <2>1, <3>1 DEF IInv, InUseStaysMapped, OwnerHolds
    <3>. QED BY <1>4, <3>2 DEF LockInner
  <2>. QED BY <2>2, <2>3 DEF Promise!Enter
<1>5. ASSUME NEW g \in Goroutines, UnlockRead(g)
      PROVE  Promise!Leave(g)
  <2>1. /\ pc[g] = "in"
        /\ pc' = [pc EXCEPT ![g] = "release"]
        /\ key' = key
    <3>1. locks[key[g]] # NoLock
      BY <1>5 DEF IInv, InUseStaysMapped, CallState, UnlockRead
    <3>. QED BY <1>5, <3>1 DEF UnlockRead
  <2>2. w' = [w EXCEPT ![g] = NoKey] /\ g \in i /\ i' = i \ {g}
    BY <1>1, <2>1 DEF TypeOK
  <2>. QED BY <2>2 DEF Promise!Leave
<1>6. ASSUME Clean \/ StartCleanLoop \/ StopCleanLoop \/ LoopReturn \/ UNCHANGED vars
      PROVE  w' = w /\ i' = i
  <2>1. pc' = pc /\ key' = key
    BY <1>6 DEF Clean, StartCleanLoop, StopCleanLoop, LoopReturn, vars, gvars
  <2>. QED BY <2>1
<1>. QED
  BY <1>2, <1>3, <1>4, <1>5, <1>6 DEF Next, Promise!ANext, Promise!avars

\* keylock.go implements one mutex per key: the map, the counts and the sweep show in
\* no behaviour of its callers.
THEOREM KeyLockRefinesKeyedMutex == Spec => ImplementsKeyedMutex
<1>1. Init => Promise!AInit
  BY DEF Init, Promise!AInit
<1>. QED
  BY <1>1, StepIsPromised, Inductive, PTL DEF Spec, ImplementsKeyedMutex, Promise!ASpec
=============================================================================
