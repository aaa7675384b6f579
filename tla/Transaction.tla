---------------------------- MODULE Transaction ----------------------------
(***************************************************************************)
(* pkg/zdb: Transaction runs a function with a transaction context; NewOrm *)
(* binds a database to the context by beginning a transaction on it the    *)
(* first time; when the function returns, every bound database is          *)
(* committed or rolled back.  A function may call Transaction again with   *)
(* its context, and may use several databases.                             *)
(*                                                                         *)
(* NewOrm holds the package's mutex mu while it begins a transaction, and  *)
(* so while it waits for a connection of a pool of MaxOpenConns.  The map  *)
(* of the transaction manager has a lock of its own, held by nobody who    *)
(* waits for anything but the database's answer: entries of different      *)
(* contexts do not meet, and the loops over one entry are steps per        *)
(* database.                                                               *)
(*                                                                         *)
(* What a gorm handle does is taken from its use here: an error sticks to  *)
(* the handle until NewOrm resets it (zdb.go:66), so that Commit().Error() *)
(* and Rollback().Error() report it although the database has answered.    *)
(***************************************************************************)
EXTENDS Integers, FiniteSets

CONSTANTS
    Txs,        \* outermost Transaction calls, each on a goroutine of its own
    DBs,        \* the configured databases
    None,       \* nobody holds mu; no target
    MaxDepth,   \* how deep Transaction calls nest (a model bound)
    MaxCalls,   \* how often a function calls NewOrm (a model bound)
    MaxConns    \* the greatest MaxOpenConns considered

ASSUME TransactionAssumption ==
    /\ IsFiniteSet(Txs) /\ IsFiniteSet(DBs)
    /\ None \notin Txs \cup DBs
    /\ MaxDepth \in Nat \ {0} /\ MaxCalls \in Nat /\ MaxConns \in Nat \ {0}

VARIABLES
    conns,      \* MaxOpenConns of the databases
    mu,         \* who holds the mutex mu
    pc,         \* where each goroutine is
    target,     \* the database NewOrm is called with
    depth,      \* how many Transaction calls are on its stack
    calls,      \* how often it has called NewOrm
    entry,      \* tm.m[txId]: the databases bound to the context
    used,       \* the databases a transaction of this context was begun on
    sticky,     \* the bound databases whose handle keeps an error
    todo,       \* the databases the loop of Commit or Rollback still has to visit
    result,     \* how the call in progress, or the last one, ends
    committed, rolledback,  \* databases on which work was committed, undone
    nested,     \* Transaction was called with this context
    broke,      \* a loop of Commit or Rollback stopped at an error
    leaked      \* connections of each database that no entry leads to any more

vars == <<conns, mu, pc, target, depth, calls, entry, used, sticky, todo, result,
          committed, rolledback, nested, broke, leaked>>
work == <<entry, used, sticky, committed, rolledback, leaked>>
flags == <<nested, broke>>

Init == /\ conns \in 1..MaxConns
        /\ mu = None
        /\ pc = [t \in Txs |-> "idle"]
        /\ target = [t \in Txs |-> None]
        /\ depth = [t \in Txs |-> 0]
        /\ calls = [t \in Txs |-> 0]
        /\ entry = [t \in Txs |-> {}]
        /\ used = [t \in Txs |-> {}]
        /\ sticky = [t \in Txs |-> {}]
        /\ todo = [t \in Txs |-> {}]
        /\ result = [t \in Txs |-> "none"]
        /\ committed = [t \in Txs |-> {}]
        /\ rolledback = [t \in Txs |-> {}]
        /\ nested = [t \in Txs |-> FALSE]
        /\ broke = [t \in Txs |-> FALSE]
        /\ leaked = [d \in DBs |-> 0]

Go(t, to) == pc' = [pc EXCEPT ![t] = to]

----------------------------------------------------------------------------
\* Transaction(ctx, fn): a new context, or the one that ctx already is.
Call(t) ==
    /\ \/ pc[t] = "idle" /\ UNCHANGED nested
       \/ /\ pc[t] = "fn" /\ depth[t] < MaxDepth
          /\ nested' = [nested EXCEPT ![t] = TRUE]
    /\ depth' = [depth EXCEPT ![t] = @ + 1]
    /\ Go(t, "fn")
    /\ UNCHANGED <<conns, mu, target, calls, todo, result, work, broke>>

\* NewOrm(tc, d): goes for mu ...
NewOrm(t, d) ==
    /\ pc[t] = "fn"
    /\ calls[t] < MaxCalls
    /\ calls' = [calls EXCEPT ![t] = @ + 1]
    /\ target' = [target EXCEPT ![t] = d]
    /\ Go(t, "lock")
    /\ UNCHANGED <<conns, mu, depth, todo, result, work, flags>>

\* ... gets it, and finds the database bound: the handle is reset and returned.
NewOrmBound(t) ==
    /\ pc[t] = "lock" /\ mu = None
    /\ target[t] \in entry[t]
    /\ sticky' = [sticky EXCEPT ![t] = @ \ {target[t]}]
    /\ target' = [target EXCEPT ![t] = None]
    /\ Go(t, "fn")
    /\ UNCHANGED <<conns, mu, depth, calls, todo, result, entry, used, committed,
                   rolledback, leaked, flags>>

\* A NewOrm that begins a transaction without looking whether there is one.
NewOrmAlwaysBegins(t) ==
    /\ pc[t] = "lock" /\ mu = None
    /\ mu' = t
    /\ Go(t, "bind")
    /\ UNCHANGED <<conns, target, depth, calls, todo, result, work, flags>>

\* ... or finds it unbound, and begins a transaction with mu in its hands.
NewOrmUnbound(t) ==
    /\ pc[t] = "lock" /\ mu = None
    /\ target[t] \notin entry[t]
    /\ mu' = t
    /\ Go(t, "bind")
    /\ UNCHANGED <<conns, target, depth, calls, todo, result, work, flags>>

\* The databases on which goroutine t has a transaction, and so a connection.
Held(t) == IF pc[t] \in {"commit", "rollback"} THEN todo[t] ELSE entry[t]

\* Connections of database d that a Begin can have at once.
Idle(d) == conns - leaked[d] - Cardinality({t \in Txs : d \in Held(t)})

\* db.Begin has a connection: the database is bound and mu released.
Begin(t) ==
    LET d == target[t] IN
    /\ pc[t] = "bind"
    /\ Idle(d) > 0
    /\ entry' = [entry EXCEPT ![t] = @ \cup {d}]
    /\ used' = [used EXCEPT ![t] = @ \cup {d}]
    /\ mu' = None
    /\ target' = [target EXCEPT ![t] = None]
    /\ Go(t, "fn")
    /\ UNCHANGED <<conns, depth, calls, todo, result, sticky, committed, rolledback, leaked,
                   flags>>

\* db.Begin fails on the connection it got: NewOrm panics, its deferred Unlock runs, fn is unwound and
\* Transaction rolls back.
BeginFails(t) ==
    /\ pc[t] = "bind"
    /\ Idle(target[t]) > 0
    /\ mu' = None
    /\ target' = [target EXCEPT ![t] = None]
    /\ result' = [result EXCEPT ![t] = "panic"]
    /\ todo' = [todo EXCEPT ![t] = entry[t]]
    /\ Go(t, "rollback")
    /\ UNCHANGED <<conns, depth, calls, work, flags>>

\* A statement on a bound database fails, and the function goes on.
StatementFails(t, d) ==
    /\ pc[t] = "fn"
    /\ d \in entry[t]
    /\ sticky' = [sticky EXCEPT ![t] = @ \cup {d}]
    /\ UNCHANGED <<conns, mu, pc, target, depth, calls, todo, result, entry, used,
                   committed, rolledback, leaked, flags>>

\* A Transaction whose deferred function looks at err only: a panic skips the rollback.
ReturnIgnoresPanic(t, r) ==
    /\ pc[t] = "fn"
    /\ result' = [result EXCEPT ![t] = r]
    /\ IF r = "panic"
       THEN Go(t, "end") /\ depth' = [depth EXCEPT ![t] = 0] /\ UNCHANGED todo
       ELSE /\ todo' = [todo EXCEPT ![t] = entry[t]]
            /\ Go(t, IF r = "ok" THEN "commit" ELSE "rollback")
            /\ UNCHANGED depth
    /\ UNCHANGED <<conns, mu, target, calls, work, flags>>

\* fn returns (nil error or not) or panics; Transaction commits or rolls back.
Return(t, r) ==
    /\ pc[t] = "fn"
    /\ result' = [result EXCEPT ![t] = r]
    /\ todo' = [todo EXCEPT ![t] = entry[t]]
    /\ Go(t, IF r = "ok" THEN "commit" ELSE "rollback")
    /\ UNCHANGED <<conns, mu, target, depth, calls, work, flags>>

\* The end of a Transaction call: the entry is deleted, and with it every way to the
\* transactions the loop has not visited.  The fn of the call around it goes on, is
\* unwound by the panic as well, or there is none.
Done(t, r, unvisited) ==
    /\ result' = [result EXCEPT ![t] = r]
    /\ entry' = [entry EXCEPT ![t] = {}]
    /\ leaked' = [d \in DBs |-> leaked[d] + IF d \in unvisited THEN 1 ELSE 0]
    /\ sticky' = [sticky EXCEPT ![t] = {}]
    /\ depth' = [depth EXCEPT ![t] = @ - 1]
    /\ todo' = [todo EXCEPT ![t] = {}]
    /\ broke' = [broke EXCEPT ![t] = @ \/ unvisited # {} \/ (pc[t] = "commit" /\ r = "err")]
    /\ Go(t, IF depth[t] = 1 THEN "end" ELSE IF r = "panic" THEN "rollback" ELSE "fn")

\* The loop goes on to the next database.
Visited(t, d) ==
    /\ todo' = [todo EXCEPT ![t] = @ \ {d}]
    /\ UNCHANGED <<pc, depth, result, entry, sticky, leaked, broke>>

\* A Commit that ignores the database's answers.
CommitOneBlind(t, d) ==
    /\ pc[t] = "commit" /\ d \in todo[t]
    /\ \/ committed' = [committed EXCEPT ![t] = @ \cup {d}] /\ UNCHANGED rolledback
       \/ rolledback' = [rolledback EXCEPT ![t] = @ \cup {d}] /\ UNCHANGED committed
    /\ Visited(t, d)
    /\ UNCHANGED <<conns, mu, target, calls, used, nested>>

\* The loop of tm.Commit visits database d.  The work is committed or lost; an error
\* that sticks to the handle, or an answer that does not arrive, makes committed work
\* an error too.  At the first error Commit returns and its deferred delete runs, so
\* that the Rollback that Transaction then calls finds no entry.
CommitOne(t, d) ==
    /\ pc[t] = "commit" /\ d \in todo[t]
    /\ \/ /\ committed' = [committed EXCEPT ![t] = @ \cup {d}]
          /\ UNCHANGED rolledback
          /\ \/ d \notin sticky[t] /\ Visited(t, d)
             \/ Done(t, "err", todo[t] \ {d})
       \/ /\ rolledback' = [rolledback EXCEPT ![t] = @ \cup {d}]
          /\ UNCHANGED committed
          /\ Done(t, "err", todo[t] \ {d})
    /\ UNCHANGED <<conns, mu, target, calls, used, nested>>

\* tm.Commit has visited every database.
Committed(t) ==
    /\ pc[t] = "commit" /\ todo[t] = {}
    /\ Done(t, "ok", {})
    /\ UNCHANGED <<conns, mu, target, calls, used, committed, rolledback, nested>>

\* A Rollback that deletes the entry before it visits a database.
RollbackOneLate(t, d) ==
    /\ pc[t] = "rollback" /\ d \in todo[t]
    /\ Done(t, result[t], todo[t])
    /\ UNCHANGED <<conns, mu, target, calls, used, committed, rolledback, nested>>

\* The loop of tm.Rollback visits database d, and stops at an error; what the database
\* cannot undo it drops with the connection.
RollbackOne(t, d) ==
    /\ pc[t] = "rollback" /\ d \in todo[t]
    /\ rolledback' = [rolledback EXCEPT ![t] = @ \cup {d}]
    /\ \/ d \notin sticky[t] /\ Visited(t, d)
       \/ Done(t, result[t], todo[t] \ {d})
    /\ UNCHANGED <<conns, mu, target, calls, used, committed, nested>>

\* tm.Rollback has visited every database of the entry, if there was one.
RolledBack(t) ==
    /\ pc[t] = "rollback" /\ todo[t] = {}
    /\ Done(t, result[t], {})
    /\ UNCHANGED <<conns, mu, target, calls, used, committed, rolledback, nested>>

Finished == /\ \A t \in Txs : pc[t] = "end"
            /\ UNCHANGED vars

Next == \/ \E t \in Txs :
              \/ Call(t)
              \/ \E d \in DBs : NewOrm(t, d) \/ StatementFails(t, d)
              \/ NewOrmBound(t) \/ NewOrmUnbound(t) \/ Begin(t) \/ BeginFails(t)
              \/ \E r \in {"ok", "err", "panic"} : Return(t, r)
              \/ \E d \in DBs : CommitOne(t, d) \/ RollbackOne(t, d)
              \/ Committed(t) \/ RolledBack(t)
        \/ Finished

Spec == Init /\ [][Next]_vars

----------------------------------------------------------------------------
\* A Transaction call without another inside it that returns no error has committed its
\* work on every database, however often its statements failed (zdb.go Transaction).
OkMeansCommitted ==
    \A t \in Txs : pc[t] = "end" /\ result[t] = "ok" /\ ~nested[t]
                      => committed[t] = used[t] /\ rolledback[t] = {}

\* A Transaction call without another inside it that fails, by an error of fn, a panic
\* of fn or of NewOrm in fn, has committed nothing, unless the loop of tm.Commit or
\* tm.Rollback stopped at an error (tx_manager.go:65, 84).
FailureMeansUndone ==
    \A t \in Txs : pc[t] = "end" /\ result[t] # "ok" /\ ~nested[t] /\ ~broke[t]
                      => committed[t] = {} /\ rolledback[t] = used[t]

\* A connection leaks only when a context uses several databases (tx_manager.go, the
\* early returns under a deferred delete): with one, nested calls, panics, failed
\* statements and failed commits all give it back.
OneDatabaseNeverLeaks ==
    (\A t \in Txs : Cardinality(used[t]) <= 1) => \A d \in DBs : leaked[d] = 0

\* A NewOrm that waits for a connection with mu in its hands gets one, if each pool has
\* one for every transaction and none has leaked (zdb.go:60, 79).  In a smaller pool
\* the holders of the connections wait for mu in their next NewOrm: nobody goes on.
MuHolderFindsConnection ==
    \A t \in Txs : /\ mu = t
                   /\ conns >= Cardinality(Txs)
                   /\ \A d \in DBs : leaked[d] = 0
                   => Idle(target[t]) > 0

\* zdb.go:91 says that nested calls are taken care of, zdb.go:100 that the transaction
\* of the current context is rolled back: a call that fails leaves nothing committed.
FailureRollsBackContext ==
    \A t \in Txs : pc[t] = "end" /\ result[t] # "ok" /\ ~broke[t] => committed[t] = {}
============================================================================
