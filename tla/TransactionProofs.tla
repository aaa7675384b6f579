------------------------- MODULE TransactionProofs -------------------------
(***************************************************************************)
(* Proofs about Transaction for any goroutines, databases, depth of calls  *)
(* and size of the pools.                                                  *)
(*                                                                         *)
(* A loop of Commit or Rollback visits databases of the entry, which are   *)
(* among those a transaction was begun on.  A call without another inside  *)
(* it ends when its loop does, so that what is committed, what is undone   *)
(* and what is left to visit make up what was begun.  An early return can  *)
(* leave a transaction unvisited only if there were two.  And who has mu   *)
(* has no connection of the database he waits for.                         *)
(***************************************************************************)
EXTENDS Transaction, FiniteSetTheorems, TLAPS

InFn == {"fn", "lock", "bind"}
Active == InFn \cup {"commit", "rollback"}
Results == {"ok", "err", "panic"}

TypeOK ==
    /\ conns \in Nat /\ mu \in Txs \cup {None}
    /\ pc \in [Txs -> Active \cup {"idle", "end"}]
    /\ target \in [Txs -> DBs \cup {None}]
    /\ depth \in [Txs -> Nat]
    /\ entry \in [Txs -> SUBSET DBs] /\ used \in [Txs -> SUBSET DBs]
    /\ sticky \in [Txs -> SUBSET DBs] /\ todo \in [Txs -> SUBSET DBs]
    /\ committed \in [Txs -> SUBSET DBs] /\ rolledback \in [Txs -> SUBSET DBs]
    /\ result \in [Txs -> Results \cup {"none"}]
    /\ nested \in [Txs -> BOOLEAN] /\ broke \in [Txs -> BOOLEAN]
    /\ leaked \in [DBs -> Nat]

\* A goroutine's stack and its databases (zdb.go Transaction, tx_manager.go).
Stack(t) ==
    /\ todo[t] \subseteq entry[t] /\ entry[t] \subseteq used[t]
    /\ pc[t] = "idle" => /\ depth[t] = 0 /\ used[t] = {}
                         /\ committed[t] = {} /\ rolledback[t] = {}
    /\ pc[t] \in Active => depth[t] >= 1
    /\ pc[t] \in {"lock", "bind"} => target[t] \in DBs
    /\ pc[t] = "commit" => result[t] = "ok"
    /\ pc[t] = "rollback" => result[t] \in {"err", "panic"}

\* A call without another inside it: committed, undone and unvisited databases are the
\* ones begun (zdb.go Transaction).
Plain(t) ==
    nested[t] = FALSE =>
        /\ pc[t] \in Active => depth[t] = 1
        /\ pc[t] \in InFn => entry[t] = used[t] /\ committed[t] = {} /\ rolledback[t] = {}
        /\ pc[t] = "commit" => committed[t] = used[t] \ todo[t] /\ rolledback[t] = {}
        /\ pc[t] = "rollback" => committed[t] = {} /\ rolledback[t] = used[t] \ todo[t]
        /\ pc[t] = "end" /\ result[t] = "ok" => committed[t] = used[t] /\ rolledback[t] = {}
        /\ pc[t] = "end" /\ result[t] # "ok" /\ broke[t] = FALSE =>
              committed[t] = {} /\ rolledback[t] = used[t]

\* Who has mu begins a transaction that he has not (zdb.go NewOrm).
HasMu(t) == mu = t => pc[t] = "bind" /\ target[t] \notin entry[t]

\* The inductive invariant of zdb.go and tx_manager.go.
Local == \A t \in Txs : Stack(t) /\ Plain(t) /\ HasMu(t)
IInv == TypeOK /\ Local /\ OneDatabaseNeverLeaks

----------------------------------------------------------------------------
LEMMA InitIInv == Init => IInv
<1>. SUFFICES ASSUME Init PROVE IInv
  OBVIOUS
<1>1. TypeOK
  BY TransactionAssumption DEF Init, TypeOK
<1>2. Local
  BY TransactionAssumption DEF Init, Local, Stack, Plain, HasMu, Active, InFn
<1>3. OneDatabaseNeverLeaks
  BY DEF Init, OneDatabaseNeverLeaks
<1>. QED BY <1>1, <1>2, <1>3 DEF IInv

\* One more database is not less than one.
LEMMA FewDatabases ==
    ASSUME NEW S \in SUBSET DBs, Cardinality(S) <= 1, NEW T \in SUBSET S
    PROVE  Cardinality(T) <= 1 /\ \A d \in T : T \ {d} = {}
<1>1. IsFiniteSet(DBs)
  BY TransactionAssumption
<1>2. IsFiniteSet(S)
  BY <1>1, FS_Subset
<1>3. IsFiniteSet(T) /\ Cardinality(T) <= Cardinality(S) /\ Cardinality(T) \in Nat
      /\ Cardinality(S) \in Nat
  BY <1>2, FS_Subset, FS_CardinalityType
<1>4. Cardinality(T) <= 1
  BY <1>3
<1>5. ASSUME NEW d \in T PROVE T \ {d} = {}
  <2>1. IsFiniteSet(T \ {d}) /\ Cardinality(T \ {d}) = Cardinality(T) - 1
    BY <1>3, FS_RemoveElement
  <2>2. Cardinality(T \ {d}) \in Nat
    BY <2>1, FS_CardinalityType
  <2>3. Cardinality(T \ {d}) = 0
    BY <1>3, <1>4, <2>1, <2>2
  <2>. QED BY <2>1, <2>3, FS_EmptySet
<1>. QED BY <1>4, <1>5

\* Steps of t leave the other goroutines alone.
Same(u) ==
    /\ pc'[u] = pc[u] /\ target'[u] = target[u] /\ depth'[u] = depth[u]
    /\ entry'[u] = entry[u] /\ used'[u] = used[u] /\ todo'[u] = todo[u]
    /\ committed'[u] = committed[u] /\ rolledback'[u] = rolledback[u]
    /\ result'[u] = result[u] /\ nested'[u] = nested[u] /\ broke'[u] = broke[u]

LEMMA StepIInv ==
    ASSUME IInv, NEW t \in Txs, TypeOK', \A u \in Txs \ {t} : Same(u),
           Stack(t)', Plain(t)', used[t] \subseteq used'[t],
           \/ mu' = mu /\ pc[t] # "bind"
           \/ mu' = None
           \/ mu' = t /\ pc'[t] = "bind" /\ target'[t] \notin entry'[t],
           Cardinality(used'[t]) <= 1 => \A d \in DBs : leaked'[d] = leaked[d]
    PROVE  IInv'
<1>1. Local'
  <2>. SUFFICES ASSUME NEW u \in Txs PROVE (Stack(u) /\ Plain(u) /\ HasMu(u))'
    BY DEF Local
  <2>1. CASE u = t
    <3>1. HasMu(t)'
      BY TransactionAssumption DEF HasMu, IInv, Local
    <3>. QED BY <2>1, <3>1
  <2>2. CASE u # t
    <3>1. Same(u) /\ Stack(u) /\ Plain(u) /\ HasMu(u)
      BY <2>2 DEF IInv, Local
    <3>2. Stack(u)' /\ Plain(u)'
      BY <3>1 DEF Same, Stack, Plain
    <3>3. HasMu(u)'
      BY <2>2, <3>1, TransactionAssumption DEF HasMu, Same
    <3>. QED BY <3>2, <3>3
  <2>. QED BY <2>1, <2>2
<1>2. OneDatabaseNeverLeaks'
  <2>. SUFFICES ASSUME \A u \in Txs : Cardinality(used'[u]) <= 1, NEW d \in DBs
                PROVE  leaked'[d] = 0
    BY DEF OneDatabaseNeverLeaks
  <2>1. \A u \in Txs : Cardinality(used[u]) <= 1
    <3>. SUFFICES ASSUME NEW u \in Txs PROVE Cardinality(used[u]) <= 1
      OBVIOUS
    <3>1. used'[u] \in SUBSET DBs /\ used[u] \in SUBSET used'[u]
      BY DEF TypeOK, Same
    <3>. QED BY <3>1, FewDatabases
  <2>. QED BY <2>1 DEF IInv, OneDatabaseNeverLeaks
<1>. QED BY <1>1, <1>2 DEF IInv

LEMMA CallIInv ==
    ASSUME IInv, NEW t \in Txs, Call(t)
    PROVE  IInv'
<1>1. /\ pc[t] \in {"idle", "fn"} /\ mu' = mu /\ leaked' = leaked
      /\ pc' = [pc EXCEPT ![t] = "fn"] /\ depth' = [depth EXCEPT ![t] = @ + 1]
      /\ pc[t] = "idle" => nested' = nested
      /\ pc[t] = "fn" => nested' = [nested EXCEPT ![t] = TRUE]
      /\ UNCHANGED <<conns, target, result, todo, entry, used, sticky, committed,
                     rolledback, broke>>
  BY DEF Call, Go, work
<1>2. \A u \in Txs \ {t} : Same(u)
  BY <1>1 DEF IInv, TypeOK, Same
<1>3. TypeOK'
  <2>1. pc' \in [Txs -> Active \cup {"idle", "end"}] /\ depth' \in [Txs -> Nat]
    BY <1>1 DEF IInv, TypeOK, Active, InFn
  <2>2. nested' \in [Txs -> BOOLEAN]
    BY <1>1 DEF IInv, TypeOK
  <2>. QED BY <1>1, <2>1, <2>2 DEF IInv, TypeOK
<1>4. Stack(t) /\ Plain(t) /\ depth[t] \in Nat
  BY DEF IInv, TypeOK, Local
<1>5. pc'[t] = "fn" /\ depth'[t] = depth[t] + 1 /\ (nested'[t] = FALSE => pc[t] = "idle")
  BY <1>1 DEF IInv, TypeOK
<1>6. Stack(t)'
  BY <1>1, <1>4, <1>5 DEF Stack, Active, InFn
<1>7. Plain(t)'
  <2>. SUFFICES ASSUME nested'[t] = FALSE PROVE Plain(t)'
    BY DEF Plain
  <2>1. /\ depth'[t] = 1 /\ entry'[t] = used'[t]
        /\ committed'[t] = {} /\ rolledback'[t] = {}
    BY <1>1, <1>4, <1>5 DEF Stack
  <2>. QED BY <1>5, <2>1 DEF Plain
<1>. QED BY <1>1, <1>2, <1>3, <1>6, <1>7, StepIInv

LEMMA NewOrmIInv ==
    ASSUME IInv, NEW t \in Txs, NEW d \in DBs, NewOrm(t, d) \/ StatementFails(t, d)
    PROVE  IInv'
<1>1. /\ pc[t] = "fn" /\ mu' = mu /\ leaked' = leaked
      /\ UNCHANGED <<conns, depth, todo, result, entry, used, committed, rolledback, nested,
                     broke>>
  BY DEF NewOrm, StatementFails, work, flags
<1>2. /\ pc' \in {pc, [pc EXCEPT ![t] = "lock"]}
      /\ pc' # pc => target' = [target EXCEPT ![t] = d]
      /\ target' \in {target, [target EXCEPT ![t] = d]}
      /\ sticky' \in {sticky, [sticky EXCEPT ![t] = @ \cup {d}]}
  BY DEF NewOrm, StatementFails, Go, work
<1>3. \A u \in Txs \ {t} : Same(u)
  BY <1>1, <1>2 DEF IInv, TypeOK, Same
<1>4. TypeOK'
  <2>1. /\ pc' \in [Txs -> Active \cup {"idle", "end"}]
        /\ target' \in [Txs -> DBs \cup {None}] /\ sticky' \in [Txs -> SUBSET DBs]
    BY <1>2 DEF IInv, TypeOK, Active, InFn
  <2>. QED BY <1>1, <2>1 DEF IInv, TypeOK
<1>5. Stack(t) /\ Plain(t)
  BY DEF IInv, Local
<1>6. pc'[t] \in {"fn", "lock"} /\ (pc'[t] = "lock" => target'[t] \in DBs)
  BY <1>1, <1>2 DEF IInv, TypeOK
<1>7. Stack(t)' /\ Plain(t)'
  BY <1>1, <1>5, <1>6 DEF Stack, Plain, Active, InFn
<1>. QED BY <1>1, <1>3, <1>4, <1>7, StepIInv

LEMMA NewOrmLocksIInv ==
    ASSUME IInv, NEW t \in Txs, NewOrmBound(t) \/ NewOrmUnbound(t)
    PROVE  IInv'
<1>1. /\ pc[t] = "lock" /\ mu = None /\ leaked' = leaked
      /\ UNCHANGED <<conns, depth, todo, result, entry, used, committed, rolledback, nested,
                     broke>>
  BY DEF NewOrmBound, NewOrmUnbound, work, flags
<1>2. \/ /\ pc' = [pc EXCEPT ![t] = "fn"] /\ mu' = mu
         /\ target' = [target EXCEPT ![t] = None]
         /\ sticky' = [sticky EXCEPT ![t] = @ \ {target[t]}]
      \/ /\ pc' = [pc EXCEPT ![t] = "bind"] /\ mu' = t
         /\ target[t] \notin entry[t]
         /\ target' = target /\ sticky' = sticky
  BY DEF NewOrmBound, NewOrmUnbound, Go, work
<1>3. \A u \in Txs \ {t} : Same(u)
  BY <1>1, <1>2 DEF IInv, TypeOK, Same
<1>4. TypeOK'
  <2>1. /\ pc' \in [Txs -> Active \cup {"idle", "end"}] /\ mu' \in Txs \cup {None}
        /\ target' \in [Txs -> DBs \cup {None}] /\ sticky' \in [Txs -> SUBSET DBs]
    BY <1>1, <1>2 DEF IInv, TypeOK, Active, InFn
  <2>. QED BY <1>1, <2>1 DEF IInv, TypeOK
<1>5. Stack(t) /\ Plain(t)
  BY DEF IInv, Local
<1>6. \/ pc'[t] = "fn" /\ mu' = mu
      \/ pc'[t] = "bind" /\ mu' = t /\ target'[t] = target[t] /\ target[t] \notin entry[t]
  BY <1>2 DEF IInv, TypeOK
<1>7. Stack(t)' /\ Plain(t)'
  BY <1>1, <1>5, <1>6 DEF Stack, Plain, Active, InFn
<1>. QED BY <1>1, <1>3, <1>4, <1>6, <1>7, StepIInv

LEMMA BeginIInv ==
    ASSUME IInv, NEW t \in Txs, Begin(t)
    PROVE  IInv'
<1>1. /\ pc[t] = "bind" /\ mu' = None /\ leaked' = leaked
      /\ entry' = [entry EXCEPT ![t] = @ \cup {target[t]}]
      /\ used' = [used EXCEPT ![t] = @ \cup {target[t]}]
      /\ target' = [target EXCEPT ![t] = None] /\ pc' = [pc EXCEPT ![t] = "fn"]
      /\ UNCHANGED <<conns, depth, todo, result, sticky, committed, rolledback, nested, broke>>
  BY DEF Begin, Go, flags
<1>2. Stack(t) /\ Plain(t) /\ target[t] \in DBs
  BY <1>1 DEF IInv, Local, Stack
<1>3. \A u \in Txs \ {t} : Same(u)
  BY <1>1 DEF IInv, TypeOK, Same
<1>4. TypeOK'
  <2>1. entry' \in [Txs -> SUBSET DBs] /\ used' \in [Txs -> SUBSET DBs]
    BY <1>1, <1>2 DEF IInv, TypeOK
  <2>2. pc' \in [Txs -> Active \cup {"idle", "end"}] /\ target' \in [Txs -> DBs \cup {None}]
    BY <1>1 DEF IInv, TypeOK, Active, InFn
  <2>. QED BY <1>1, <2>1, <2>2 DEF IInv, TypeOK
<1>5. /\ pc'[t] = "fn" /\ entry'[t] = entry[t] \cup {target[t]}
      /\ used'[t] = used[t] \cup {target[t]}
  BY <1>1 DEF IInv, TypeOK
<1>6. Stack(t)' /\ Plain(t)'
  BY <1>1, <1>2, <1>5 DEF Stack, Plain, Active, InFn
<1>. QED BY <1>1, <1>3, <1>4, <1>5, <1>6, StepIInv

\* fn ends, or is unwound: the loop is about to visit what the entry has.
LEMMA LoopBegins ==
    ASSUME IInv, NEW t \in Txs, pc[t] \in {"fn", "bind"}, NEW r \in Results,
           NEW to \in {"commit", "rollback"}, to = "commit" <=> r = "ok", Go(t, to),
           result' = [result EXCEPT ![t] = r], todo' = [todo EXCEPT ![t] = entry[t]],
           \/ mu' = mu /\ pc[t] = "fn" /\ target' = target
           \/ mu' = None /\ target' = [target EXCEPT ![t] = None],
           UNCHANGED <<conns, depth, entry, used, sticky, committed, rolledback, nested, broke,
                       leaked>>
    PROVE  IInv'
<1>1. \A u \in Txs \ {t} : Same(u)
  BY DEF IInv, TypeOK, Same, Go
<1>2. TypeOK'
  <2>1. /\ pc' \in [Txs -> Active \cup {"idle", "end"}] /\ todo' \in [Txs -> SUBSET DBs]
        /\ result' \in [Txs -> Results \cup {"none"}] /\ target' \in [Txs -> DBs \cup {None}]
    BY DEF IInv, TypeOK, Active, Go
  <2>. QED BY <2>1 DEF IInv, TypeOK
<1>3. Stack(t) /\ Plain(t)
  BY DEF IInv, Local
<1>4. pc'[t] = to /\ todo'[t] = entry[t] /\ result'[t] = r
  BY DEF IInv, TypeOK, Go
<1>5. Stack(t)' /\ Plain(t)'
  BY <1>3, <1>4 DEF Stack, Plain, Active, InFn, Results
<1>. QED BY <1>1, <1>2, <1>5, StepIInv

LEMMA ReturnIInv ==
    ASSUME IInv, NEW t \in Txs, NEW r \in Results, Return(t, r)
    PROVE  IInv'
<1>1. (IF r = "ok" THEN "commit" ELSE "rollback") \in {"commit", "rollback"}
  OBVIOUS
<1>. QED BY <1>1, LoopBegins DEF Return, work, flags

LEMMA BeginFailsIInv ==
    ASSUME IInv, NEW t \in Txs, BeginFails(t)
    PROVE  IInv'
BY LoopBegins DEF BeginFails, work, flags, Results

\* The end of a loop, early or not.
Ended(t, r, unvisited) ==
    /\ TypeOK' /\ Stack(t)' /\ \A u \in Txs \ {t} : Same(u)
    /\ \A d \in DBs : d \notin unvisited => leaked'[d] = leaked[d]
    /\ result'[t] = r /\ (nested[t] = FALSE => pc'[t] = "end")
    /\ broke'[t] = FALSE => unvisited = {} /\ ~(pc[t] = "commit" /\ r = "err")
LEMMA DoneIs ==
    ASSUME IInv, NEW t \in Txs, pc[t] \in {"commit", "rollback"}, NEW r \in Results,
           NEW unvisited \in SUBSET DBs, Done(t, r, unvisited),
           r = "ok" => pc[t] = "commit", UNCHANGED <<conns, mu, target, used, nested>>,
           committed' \in [Txs -> SUBSET DBs], rolledback' \in [Txs -> SUBSET DBs],
           \A u \in Txs \ {t} : committed'[u] = committed[u] /\ rolledback'[u] = rolledback[u]
    PROVE  Ended(t, r, unvisited)
<1> DEFINE to == IF depth[t] = 1 THEN "end" ELSE IF r = "panic" THEN "rollback" ELSE "fn"
           b == broke[t] \/ unvisited # {} \/ (pc[t] = "commit" /\ r = "err")
<1>1. /\ pc' = [pc EXCEPT ![t] = to] /\ result' = [result EXCEPT ![t] = r]
      /\ entry' = [entry EXCEPT ![t] = {}] /\ todo' = [todo EXCEPT ![t] = {}]
      /\ sticky' = [sticky EXCEPT ![t] = {}] /\ depth' = [depth EXCEPT ![t] = @ - 1]
      /\ leaked' = [d \in DBs |-> leaked[d] + IF d \in unvisited THEN 1 ELSE 0]
  BY DEF Done, Go
<1>2. broke' = [broke EXCEPT ![t] = b]
  BY DEF Done
<1>3. /\ depth[t] \in Nat /\ depth[t] >= 1 /\ Plain(t) /\ Stack(t)
      /\ to \in {"end", "rollback", "fn"} /\ (to = "rollback" => r = "panic")
      /\ to # "end" => depth[t] - 1 >= 1
  BY DEF IInv, TypeOK, Local, Stack, Active
<1>4. TypeOK'
  <2>1. /\ pc' \in [Txs -> Active \cup {"idle", "end"}]
        /\ result' \in [Txs -> Results \cup {"none"}]
    BY <1>1, <1>3 DEF IInv, TypeOK, Active, InFn
  <2>2. depth' \in [Txs -> Nat]
    <3>1. depth[t] - 1 \in Nat
      BY <1>3
    <3>. QED BY <1>1, <3>1 DEF IInv, TypeOK
  <2>3. /\ entry' \in [Txs -> SUBSET DBs] /\ todo' \in [Txs -> SUBSET DBs]
        /\ sticky' \in [Txs -> SUBSET DBs]
    BY <1>1 DEF IInv, TypeOK
  <2>4. leaked' \in [DBs -> Nat]
    BY <1>1 DEF IInv, TypeOK
  <2>5. broke' \in [Txs -> BOOLEAN]
    <3>1. b \in BOOLEAN
      BY DEF IInv, TypeOK
    <3>. QED BY <1>2, <3>1 DEF IInv, TypeOK
  <2>. QED BY <2>1, <2>2, <2>3, <2>4, <2>5 DEF IInv, TypeOK
<1>5. /\ pc'[t] = to /\ result'[t] = r /\ entry'[t] = {} /\ todo'[t] = {}
      /\ depth'[t] = depth[t] - 1
  BY <1>1 DEF IInv, TypeOK
<1>6. Stack(t)'
  BY <1>3, <1>5 DEF Stack, Active, InFn
<1>7. \A u \in Txs \ {t} : Same(u)
  BY <1>1, <1>2 DEF IInv, TypeOK, Same
<1>8. \A d \in DBs : d \notin unvisited => leaked'[d] = leaked[d]
  BY <1>1 DEF IInv, TypeOK
<1>9. nested[t] = FALSE => pc'[t] = "end"
  BY <1>3, <1>5 DEF Plain, Active
<1>10. broke'[t] = b
  BY <1>2 DEF IInv, TypeOK
<1>11. broke'[t] = FALSE => unvisited = {} /\ ~(pc[t] = "commit" /\ r = "err")
  BY <1>10
<1>. QED BY <1>4, <1>5, <1>6, <1>7, <1>8, <1>9, <1>11 DEF Ended

\* A transaction is left unvisited only if there are two databases.
LEMMA Unvisited ==
    ASSUME IInv, NEW t \in Txs, NEW d \in todo[t], Cardinality(used[t]) <= 1
    PROVE  todo[t] \ {d} = {}
<1>1. used[t] \in SUBSET DBs /\ todo[t] \in SUBSET used[t]
  BY DEF IInv, TypeOK, Local, Stack
<1>. QED BY <1>1, FewDatabases

\* The loop visits database d and goes on.
LEMMA VisitedIInv ==
    ASSUME IInv, NEW t \in Txs, pc[t] \in {"commit", "rollback"}, NEW d \in todo[t],
           Visited(t, d), UNCHANGED <<conns, mu, target, used, nested>>,
           \/ /\ pc[t] = "commit" /\ rolledback' = rolledback
              /\ committed' = [committed EXCEPT ![t] = @ \cup {d}]
           \/ /\ pc[t] = "rollback" /\ committed' = committed
              /\ rolledback' = [rolledback EXCEPT ![t] = @ \cup {d}]
    PROVE  IInv'
<1>1. /\ todo' = [todo EXCEPT ![t] = @ \ {d}]
      /\ UNCHANGED <<pc, depth, result, entry, sticky, leaked, broke>>
  BY DEF Visited
<1>2. Stack(t) /\ Plain(t) /\ d \in DBs
  BY DEF IInv, TypeOK, Local
<1>3. \A u \in Txs \ {t} : Same(u)
  BY <1>1 DEF IInv, TypeOK, Same
<1>4. TypeOK'
  <2>1. /\ todo' \in [Txs -> SUBSET DBs] /\ committed' \in [Txs -> SUBSET DBs]
        /\ rolledback' \in [Txs -> SUBSET DBs]
    BY <1>1, <1>2 DEF IInv, TypeOK
  <2>. QED BY <1>1, <2>1 DEF IInv, TypeOK
<1>5. /\ todo'[t] = todo[t] \ {d}
      /\ pc[t] = "commit" => committed'[t] = committed[t] \cup {d} /\ rolledback'[t] = rolledback[t]
      /\ pc[t] = "rollback" => rolledback'[t] = rolledback[t] \cup {d} /\ committed'[t] = committed[t]
  BY <1>1 DEF IInv, TypeOK
<1>6. Stack(t)'
  BY <1>1, <1>2, <1>5 DEF Stack, Active
<1>7. Plain(t)'
  <2>1. d \in used[t]
    BY <1>2 DEF Stack
  <2>. QED BY <1>1, <1>2, <1>5, <2>1 DEF Plain, Active, InFn
<1>. QED BY <1>1, <1>3, <1>4, <1>6, <1>7, StepIInv

LEMMA CommitOneIInv ==
    ASSUME IInv, NEW t \in Txs, NEW d \in DBs, CommitOne(t, d)
    PROVE  IInv'
<1>1. /\ pc[t] = "commit" /\ d \in todo[t] /\ UNCHANGED <<conns, mu, target, used, nested>>
      /\ Stack(t) /\ Plain(t)
  BY DEF CommitOne, IInv, Local
<1>2. CASE Visited(t, d) /\ committed' = [committed EXCEPT ![t] = @ \cup {d}]
           /\ rolledback' = rolledback
  BY <1>1, <1>2, VisitedIInv
<1>3. CASE /\ Done(t, "err", todo[t] \ {d})
           /\ \/ committed' = [committed EXCEPT ![t] = @ \cup {d}] /\ rolledback' = rolledback
              \/ rolledback' = [rolledback EXCEPT ![t] = @ \cup {d}] /\ committed' = committed
  <2>1. /\ committed' \in [Txs -> SUBSET DBs] /\ rolledback' \in [Txs -> SUBSET DBs]
        /\ \A u \in Txs \ {t} : /\ committed'[u] = committed[u]
                                /\ rolledback'[u] = rolledback[u]
    BY <1>3 DEF IInv, TypeOK
  <2>2. todo[t] \ {d} \in SUBSET DBs /\ "err" \in Results
    BY DEF IInv, TypeOK, Results
  <2>3. /\ TypeOK' /\ Stack(t)' /\ \A u \in Txs \ {t} : Same(u)
        /\ \A e \in DBs : e \notin todo[t] \ {d} => leaked'[e] = leaked[e]
        /\ result'[t] = "err" /\ (nested[t] = FALSE => pc'[t] = "end")
        /\ broke'[t] = FALSE => ~(pc[t] = "commit" /\ "err" = "err")
    <3>1. Ended(t, "err", todo[t] \ {d})
      BY <1>1, <1>3, <2>1, <2>2, DoneIs
    <3>. QED BY <3>1 DEF Ended
  <2>4. Plain(t)'
    BY <1>1, <2>3 DEF Plain, Active, InFn
  <2>5. Cardinality(used'[t]) <= 1 => \A e \in DBs : leaked'[e] = leaked[e]
    BY <1>1, <2>3, Unvisited
  <2>. QED BY <1>1, <2>3, <2>4, <2>5, StepIInv
<1>. QED BY <1>2, <1>3 DEF CommitOne

LEMMA RollbackOneIInv ==
    ASSUME IInv, NEW t \in Txs, NEW d \in DBs, RollbackOne(t, d)
    PROVE  IInv'
<1>1. /\ pc[t] = "rollback" /\ d \in todo[t] /\ UNCHANGED <<conns, mu, target, used, nested>>
      /\ rolledback' = [rolledback EXCEPT ![t] = @ \cup {d}] /\ committed' = committed
      /\ Stack(t) /\ Plain(t)
  BY DEF RollbackOne, IInv, Local
<1>2. CASE Visited(t, d)
  BY <1>1, <1>2, VisitedIInv
<1>3. CASE Done(t, result[t], todo[t] \ {d})
  <2>1. /\ committed' \in [Txs -> SUBSET DBs] /\ rolledback' \in [Txs -> SUBSET DBs]
        /\ \A u \in Txs \ {t} : /\ committed'[u] = committed[u]
                                /\ rolledback'[u] = rolledback[u]
        /\ rolledback'[t] = rolledback[t] \cup {d} /\ committed'[t] = committed[t]
    BY <1>1 DEF IInv, TypeOK
  <2>2. /\ todo[t] \ {d} \in SUBSET DBs /\ result[t] \in Results /\ result[t] # "ok"
        /\ d \in used[t] /\ pc[t] \in {"commit", "rollback"}
        /\ result[t] = "ok" => pc[t] = "commit"
    BY <1>1 DEF IInv, TypeOK, Results, Stack
  <2>3. /\ TypeOK' /\ Stack(t)' /\ \A u \in Txs \ {t} : Same(u)
        /\ \A e \in DBs : e \notin todo[t] \ {d} => leaked'[e] = leaked[e]
        /\ result'[t] = result[t] /\ (nested[t] = FALSE => pc'[t] = "end")
        /\ broke'[t] = FALSE => /\ todo[t] \ {d} = {}
                               /\ ~(pc[t] = "commit" /\ result[t] = "err")
    <3>1. Ended(t, result[t], todo[t] \ {d})
      BY <1>1, <1>3, <2>1, <2>2, DoneIs
    <3>. QED BY <3>1 DEF Ended
  <2>4. Plain(t)'
    <3>. SUFFICES ASSUME nested[t] = FALSE PROVE Plain(t)'
      BY <1>1 DEF Plain
    <3>1. committed'[t] = {} /\ rolledback'[t] = (used[t] \ todo[t]) \cup {d}
      BY <1>1, <2>1 DEF Plain
    <3>2. broke'[t] = FALSE => rolledback'[t] = used'[t]
      BY <1>1, <2>2, <2>3, <3>1
    <3>. QED BY <2>2, <2>3, <3>1, <3>2 DEF Plain, Active, InFn
  <2>5. Cardinality(used'[t]) <= 1 => \A e \in DBs : leaked'[e] = leaked[e]
    BY <1>1, <2>3, Unvisited
  <2>. QED BY <1>1, <2>3, <2>4, <2>5, StepIInv
<1>. QED BY <1>2, <1>3 DEF RollbackOne

LEMMA LoopEndsIInv ==
    ASSUME IInv, NEW t \in Txs, Committed(t) \/ RolledBack(t)
    PROVE  IInv'
<1>0. PICK r : r = IF pc[t] = "commit" THEN "ok" ELSE result[t]
  OBVIOUS
<1>1. /\ pc[t] \in {"commit", "rollback"} /\ todo[t] = {} /\ Done(t, r, {})
      /\ UNCHANGED <<conns, mu, target, used, committed, rolledback, nested>>
      /\ Stack(t) /\ Plain(t)
  BY <1>0 DEF Committed, RolledBack, IInv, Local
<1>2. /\ r \in Results /\ (r = "ok" => pc[t] = "commit") /\ {} \in SUBSET DBs
      /\ committed' \in [Txs -> SUBSET DBs] /\ rolledback' \in [Txs -> SUBSET DBs]
      /\ \A u \in Txs \ {t} : committed'[u] = committed[u] /\ rolledback'[u] = rolledback[u]
      /\ pc[t] = "commit" => r = "ok"
  BY <1>0, <1>1 DEF IInv, TypeOK, Stack, Results
<1>3. /\ TypeOK' /\ Stack(t)' /\ \A u \in Txs \ {t} : Same(u)
      /\ \A d \in DBs : d \notin {} => leaked'[d] = leaked[d]
      /\ result'[t] = r /\ (nested[t] = FALSE => pc'[t] = "end")
  <2>1. Ended(t, r, {})
    BY <1>1, <1>2, DoneIs
  <2>. QED BY <2>1 DEF Ended
<1>4. Plain(t)'
  <2>. SUFFICES ASSUME nested[t] = FALSE PROVE Plain(t)'
    BY <1>1 DEF Plain
  <2>1. /\ r = "ok" => committed'[t] = used'[t] /\ rolledback'[t] = {}
        /\ r # "ok" => committed'[t] = {} /\ rolledback'[t] = used'[t]
    BY <1>1, <1>2 DEF Plain
  <2>. QED BY <1>3, <2>1 DEF Plain, Active, InFn
<1>. QED BY <1>1, <1>3, <1>4, StepIInv

----------------------------------------------------------------------------
\* IInv holds in every state of every behaviour of transactions.
THEOREM TransactionInductive == Spec => []IInv
<1>1. IInv /\ [Next]_vars => IInv'
  <2>1. CASE UNCHANGED vars
    BY <2>1 DEF vars, IInv, TypeOK, Local, Stack, Plain, HasMu, OneDatabaseNeverLeaks
  <2>2. ASSUME NEW t \in Txs, NEW r \in {"ok", "err", "panic"}, IInv, Return(t, r) PROVE IInv'
    BY <2>2, ReturnIInv DEF Results
  <2>. QED BY <2>1, <2>2, CallIInv, NewOrmIInv, NewOrmLocksIInv, BeginIInv, BeginFailsIInv,
              CommitOneIInv, RollbackOneIInv, LoopEndsIInv
           DEF Next, Finished
<1>. QED BY <1>1, InitIInv, PTL DEF Spec

\* A Transaction call that returns no error has committed all its work (zdb.go
\* Transaction).
THEOREM OkIsCommitted == Spec => []OkMeansCommitted
<1>1. IInv => OkMeansCommitted
  BY DEF IInv, TypeOK, Local, Plain, OkMeansCommitted
<1>. QED BY <1>1, TransactionInductive, PTL

\* A Transaction call that fails has undone all its work, unless a loop stopped at an
\* error (zdb.go Transaction, tx_manager.go).
THEOREM FailureIsUndone == Spec => []FailureMeansUndone
<1>1. IInv => FailureMeansUndone
  BY DEF IInv, TypeOK, Local, Plain, FailureMeansUndone
<1>. QED BY <1>1, TransactionInductive, PTL

\* However calls nest and fail, who uses one database loses no connection
\* (tx_manager.go).
THEOREM OneDatabaseIsSafe == Spec => []OneDatabaseNeverLeaks
<1>1. IInv => OneDatabaseNeverLeaks
  BY DEF IInv
<1>. QED BY <1>1, TransactionInductive, PTL

\* In a pool with a connection for everybody, who holds mu does not wait for the others
\* (zdb.go NewOrm).
THEOREM MuIsNotHeldForLong == Spec => []MuHolderFindsConnection
<1>1. IInv => MuHolderFindsConnection
  <2>. SUFFICES ASSUME IInv, NEW t \in Txs, mu = t, conns >= Cardinality(Txs),
                       \A d \in DBs : leaked[d] = 0
                PROVE  Idle(target[t]) > 0
    BY DEF MuHolderFindsConnection
  <2> DEFINE holders == {u \in Txs : target[t] \in Held(u)}
  <2>1. pc[t] = "bind" /\ target[t] \in DBs /\ target[t] \notin entry[t]
    BY DEF IInv, Local, HasMu, Stack
  <2>2. holders \subseteq Txs \ {t}
    BY <2>1 DEF Held
  <2>3. IsFiniteSet(Txs) /\ Cardinality(Txs) \in Nat
    BY TransactionAssumption, FS_CardinalityType
  <2>4. IsFiniteSet(Txs \ {t}) /\ Cardinality(Txs \ {t}) = Cardinality(Txs) - 1
    BY <2>3, FS_RemoveElement
  <2>5. IsFiniteSet(holders) /\ Cardinality(holders) <= Cardinality(Txs \ {t})
    BY <2>2, <2>4, FS_Subset
  <2>6. Cardinality(holders) \in Nat
    BY <2>5, FS_CardinalityType
  <2>7. conns \in Nat /\ leaked[target[t]] = 0
    BY <2>1 DEF IInv, TypeOK
  <2>8. conns - 0 - Cardinality(holders) > 0
    BY <2>3, <2>4, <2>5, <2>6, <2>7
  <2>. QED BY <2>7, <2>8 DEF Idle
<1>. QED BY <1>1, TransactionInductive, PTL
============================================================================
