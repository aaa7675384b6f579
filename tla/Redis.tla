------------------------------- MODULE Redis -------------------------------
(***************************************************************************)
(* pkg/redis: the commands that locks, counters and queues are built from, *)
(* over a client that sends a command again when its answer does not come  *)
(* (MaxRetries in New).                                                    *)
(*                                                                         *)
(* The server executes one command at a time.  A command whose connection  *)
(* broke has been executed, or is executed later, when it still lies in    *)
(* the server's socket buffer while the client sends it again, or never: a *)
(* command that is lost stays in "flight" for ever.  A goroutine waits for *)
(* the answer of its last attempt only.                                    *)
(*                                                                         *)
(* One key is used in one way: as a lock with an owner (SetNX and          *)
(* CompareAndDelete), as a lock without one (Lock and UnLock), as a        *)
(* counter (Incr or Decr), or as a queue (LPUSH, Lpop and BLPop).          *)
(***************************************************************************)
EXTENDS Integers, Sequences, FiniteSets

CONSTANTS
    Goroutines, \* the callers of the package, in whatever processes
    None,       \* no call in progress
    Nil,        \* redis.Nil: the key has no value
    MaxRetries, \* Options.MaxRetries
    MaxCalls    \* how many calls a goroutine makes (a model bound)

ASSUME RedisAssumption ==
    /\ IsFiniteSet(Goroutines)
    /\ MaxRetries \in Nat /\ MaxCalls \in Nat
    /\ None # Nil
    /\ Nil \notin Goroutines \X Nat

VARIABLES
    use,        \* what the key is used as
    lock,       \* the value of the key as a lock
    number,     \* ... as a counter
    list,       \* ... as a list, its head first
    call,       \* the last attempt of each goroutine's call, or None
    flight,     \* the attempts the server has not executed
    wire,       \* <<"ok", answer>> or <<"err">> on its way to each goroutine, or <<>>
    calls,      \* how many calls each goroutine has made
    token,      \* the value it last asked for the lock with
    done,       \* an attempt of its call in progress, or of its last, had its effect
    ret,        \* how its last call returned
    holds,      \* the goroutines that rely on the lock
    expired,    \* the values under which the lock has expired
    answers,    \* the numbers Incr or Decr has returned
    renumbered, \* one of them was returned twice
    popped,     \* the values Lpop and BLPop have returned
    repopped,   \* those of them that were returned twice
    resent      \* the values whose LPUSH was sent again

vars == <<use, lock, number, list, call, flight, wire, calls, token, done, ret, holds,
          expired, answers, renumbered, popped, repopped, resent>>
client == <<call, calls, token, ret, holds>>
returned == <<answers, renumbered, popped, repopped>>

OpsOf == [owned |-> {"setnx", "cad"},
          plain |-> {"lock", "get"},          \* UnLock sends "get", then "del"
          up    |-> {"incr"},
          down  |-> {"decr"},
          queue |-> {"lpush", "lpop", "blpop"}]

Tokens == Goroutines \X (1..MaxCalls)

Init == /\ use \in DOMAIN OpsOf
        /\ lock = Nil /\ number = 0 /\ list = <<>>
        /\ call = [g \in Goroutines |-> None]
        /\ flight = {}
        /\ wire = [g \in Goroutines |-> <<>>]
        /\ calls = [g \in Goroutines |-> 0]
        /\ token = [g \in Goroutines |-> Nil]
        /\ done = [g \in Goroutines |-> FALSE]
        /\ ret = [g \in Goroutines |-> "none"]
        /\ holds = {} /\ expired = {}
        /\ answers = {} /\ renumbered = FALSE
        /\ popped = {} /\ repopped = {} /\ resent = {}

----------------------------------------------------------------------------
Send(g, m) == /\ call' = [call EXCEPT ![g] = m]
              /\ flight' = flight \cup {m}
              /\ wire' = [wire EXCEPT ![g] = <<>>]

(***************************************************************************)
(* A goroutine calls the package: a lock is asked for with a fresh value   *)
(* and released with the value it was last asked for with, whatever the    *)
(* answer was.  Who releases a lock does not rely on it any more.          *)
(***************************************************************************)
Call(g, op) ==
    LET n == calls[g] + 1
        fresh == op \in {"setnx", "lock"}
        val == IF op = "cad" THEN token[g] ELSE <<g, n>> IN
    /\ call[g] = None
    /\ n <= MaxCalls
    /\ op \in OpsOf[use]
    /\ fresh => g \notin holds
    /\ op = "cad" => token[g] # Nil
    /\ Send(g, [g |-> g, n |-> n, op |-> op, val |-> val, try |-> 1])
    /\ calls' = [calls EXCEPT ![g] = n]
    /\ token' = IF fresh THEN [token EXCEPT ![g] = val] ELSE token
    /\ done' = [done EXCEPT ![g] = FALSE]
    /\ ret' = [ret EXCEPT ![g] = "none"]
    /\ holds' = holds \ {g}
    /\ UNCHANGED <<use, lock, number, list, expired, returned, resent>>

\* No answer came, and the client sends the command again.
Retry(g) ==
    /\ call[g] # None
    /\ call[g].try <= MaxRetries
    /\ Send(g, [call[g] EXCEPT !.try = @ + 1])
    /\ resent' = IF call[g].op = "lpush" THEN resent \cup {call[g].val} ELSE resent
    /\ UNCHANGED <<use, lock, number, list, calls, token, done, ret, holds, expired, returned>>

----------------------------------------------------------------------------
\* The server has taken attempt m and answers r; the answer is read if the goroutine
\* still waits for this attempt.  "effect": the command did what it is called for.
Execute(m, op, r, effect) ==
    /\ m \in flight /\ m.op = op
    /\ flight' = flight \ {m}
    /\ wire' = IF call[m.g] = m THEN [wire EXCEPT ![m.g] = r] ELSE wire
    /\ done' = IF effect /\ call[m.g] # None /\ m.n = calls[m.g]
               THEN [done EXCEPT ![m.g] = TRUE] ELSE done
    /\ UNCHANGED <<use, client, expired, returned, resent>>

\* The server refuses a command (it is out of memory, or a replica); that of an attempt
\* nobody waits for is as good as lost.
Refuse(m) ==
    /\ call[m.g] = m
    /\ Execute(m, m.op, <<"err">>, FALSE)
    /\ UNCHANGED <<lock, number, list>>

\* SET key value NX, of SetNX and of Lock.
SetNX(m) ==
    \E op \in {"setnx", "lock"} :
       /\ \/ lock = Nil /\ lock' = m.val /\ Execute(m, op, <<"ok", TRUE>>, TRUE)
          \/ lock # Nil /\ Execute(m, op, <<"ok", FALSE>>, FALSE) /\ UNCHANGED lock
       /\ UNCHANGED <<number, list>>

\* A release that does not compare.
DeleteAlways(m) ==
    /\ lock' = Nil
    /\ Execute(m, "cad", <<"ok", lock # Nil>>, lock # Nil)
    /\ UNCHANGED <<number, list>>

\* The script of CompareAndDelete.
CompareAndDelete(m) ==
    /\ \/ lock = m.val /\ lock' = Nil /\ Execute(m, "cad", <<"ok", TRUE>>, TRUE)
       \/ lock # m.val /\ Execute(m, "cad", <<"ok", FALSE>>, FALSE) /\ UNCHANGED lock
    /\ UNCHANGED <<number, list>>

\* UnLock's GET and its DEL, which deletes whatever value is there by then.
Get(m) ==
    /\ Execute(m, "get", <<"ok", lock # Nil>>, FALSE)
    /\ UNCHANGED <<lock, number, list>>

Del(m) ==
    /\ lock' = Nil
    /\ Execute(m, "del", <<"ok", TRUE>>, TRUE)
    /\ UNCHANGED <<number, list>>

\* An Incr that reads the number and says what it would be.
IncrReads(m) ==
    \E op \in {"incr", "decr"} :
       /\ Execute(m, op, <<"ok", number + (IF op = "incr" THEN 1 ELSE -1)>>, TRUE)
       /\ UNCHANGED <<lock, number, list>>

\* INCR and DECR.
Incr(m) ==
    \E op \in {"incr", "decr"} :
       /\ number' = number + (IF op = "incr" THEN 1 ELSE -1)
       /\ Execute(m, op, <<"ok", number'>>, TRUE)
       /\ UNCHANGED <<lock, list>>

Push(m) ==
    /\ list' = <<m.val>> \o list
    /\ Execute(m, "lpush", <<"ok", Nil>>, TRUE)
    /\ UNCHANGED <<lock, number>>

\* An Lpop that leaves the value where it is.
PopReads(m) ==
    \E op \in {"lpop", "blpop"} :
       /\ Execute(m, op, <<"ok", IF list = <<>> THEN Nil ELSE Head(list)>>, list # <<>>)
       /\ UNCHANGED <<lock, number, list>>

\* LPOP and BLPOP; on an empty list the one answers nil at once, the other when its
\* timeout is over.
Pop(m) ==
    \E op \in {"lpop", "blpop"} :
       /\ \/ /\ list # <<>>
             /\ list' = Tail(list)
             /\ Execute(m, op, <<"ok", Head(list)>>, TRUE)
          \/ /\ list = <<>>
             /\ Execute(m, op, <<"ok", Nil>>, FALSE)
             /\ UNCHANGED list
       /\ UNCHANGED <<lock, number>>

\* The expiration given to SetNX or Lock is over.
Expire ==
    /\ lock # Nil
    /\ lock' = Nil
    /\ expired' = expired \cup {lock}
    /\ UNCHANGED <<use, number, list, client, flight, wire, done, returned, resent>>

----------------------------------------------------------------------------
\* The call of g returns r; it relies on the lock if "relies".
Return(g, r, relies) ==
    /\ call' = [call EXCEPT ![g] = None]
    /\ wire' = [wire EXCEPT ![g] = <<>>]
    /\ ret' = [ret EXCEPT ![g] = r]
    /\ holds' = IF relies THEN holds \cup {g} ELSE holds
    /\ UNCHANGED <<use, lock, number, list, flight, calls, token, done, expired, resent>>

Answered(g, ops) == /\ call[g] # None
                    /\ call[g].op \in ops
                    /\ Len(wire[g]) = 2

\* Every attempt failed; a BLPop that times out is not sent again.
GiveUp(g) ==
    /\ call[g] # None
    /\ call[g].try > MaxRetries \/ call[g].op = "blpop"
    /\ Return(g, "err", FALSE)
    /\ UNCHANGED returned

\* The server's refusal is returned as it is.
ReturnRefusal(g) ==
    /\ call[g] # None
    /\ wire[g] = <<"err">>
    /\ Return(g, "err", FALSE)
    /\ UNCHANGED returned

\* A SetNX that does not look at the answer.
ReturnSetNXBlind(g) ==
    /\ Answered(g, {"setnx"})
    /\ Return(g, "true", TRUE)
    /\ UNCHANGED returned

\* SetNX tells whether the key was set.
ReturnSetNX(g) ==
    /\ Answered(g, {"setnx"})
    /\ Return(g, IF wire[g][2] THEN "true" ELSE "false", wire[g][2])
    /\ UNCHANGED returned

\* Lock does not: it returns nil whether the key was set or not.
ReturnLock(g) ==
    /\ Answered(g, {"lock"})
    /\ Return(g, "nil", TRUE)
    /\ UNCHANGED returned

ReturnCompareAndDelete(g) ==
    /\ Answered(g, {"cad"})
    /\ Return(g, IF wire[g][2] THEN "true" ELSE "mismatch", FALSE)
    /\ UNCHANGED returned

\* UnLock, after its GET: redis.Nil is returned as an error; else comes the DEL.
UnLockGot(g) ==
    /\ Answered(g, {"get"})
    /\ \/ /\ ~wire[g][2]
          /\ Return(g, "err", FALSE)
       \/ /\ wire[g][2]
          /\ Send(g, [call[g] EXCEPT !.op = "del", !.try = 1])
          /\ UNCHANGED <<use, lock, number, list, calls, token, done, ret, holds, expired, resent>>
    /\ UNCHANGED returned

ReturnUnLock(g) ==
    /\ Answered(g, {"del"})
    /\ Return(g, "nil", FALSE)
    /\ UNCHANGED returned

ReturnIncr(g) ==
    /\ Answered(g, {"incr", "decr"})
    /\ answers' = answers \cup {wire[g][2]}
    /\ renumbered' = (renumbered \/ wire[g][2] \in answers)
    /\ Return(g, "nil", FALSE)
    /\ UNCHANGED <<popped, repopped>>

ReturnPush(g) ==
    /\ Answered(g, {"lpush"})
    /\ Return(g, "nil", FALSE)
    /\ UNCHANGED returned

\* Lpop turns redis.Nil into "" and no error, BLPop returns it as an error.
ReturnPop(g) ==
    /\ Answered(g, {"lpop", "blpop"})
    /\ LET got == {wire[g][2]} \ {Nil} IN
          /\ popped' = popped \cup got
          /\ repopped' = repopped \cup (got \cap popped)
          /\ Return(g, IF got = {} /\ call[g].op = "blpop" THEN "err" ELSE "nil", FALSE)
    /\ UNCHANGED <<answers, renumbered>>

\* Nothing is left to do once every call is made (a model bound).
Finished == /\ \A g \in Goroutines : call[g] = None /\ calls[g] = MaxCalls
            /\ UNCHANGED vars

Next == \/ \E g \in Goroutines :
              \/ \E op \in OpsOf[use] : Call(g, op)
              \/ Retry(g) \/ GiveUp(g) \/ ReturnRefusal(g)
              \/ ReturnSetNX(g) \/ ReturnLock(g) \/ ReturnCompareAndDelete(g)
              \/ UnLockGot(g) \/ ReturnUnLock(g) \/ ReturnIncr(g)
              \/ ReturnPush(g) \/ ReturnPop(g)
        \/ \E m \in flight :
              \/ Refuse(m) \/ SetNX(m) \/ CompareAndDelete(m)
              \/ Get(m) \/ Del(m) \/ Incr(m) \/ Push(m) \/ Pop(m)
        \/ Expire
        \/ Finished

Spec == Init /\ [][Next]_vars

(***************************************************************************)
(* Retries and attempts executed late are invisible to the owners of a     *)
(* lock: a request is its value, and a release is on its way as long as an *)
(* attempt with its value is.                                              *)
(***************************************************************************)
Owned(what, otherwise) == IF use = "owned" THEN what ELSE otherwise
Promise == INSTANCE Lease WITH
               Owners <- Goroutines, NoOne <- Nil, Numbers <- 1..MaxCalls,
               asked <- [g \in Goroutines |-> Owned(IF token[g] = Nil THEN 0 ELSE token[g][2], 0)],
               lease <- Owned(lock, Nil),
               releases <- {m.val : m \in {x \in flight : x.op = "cad"}},
               holders <- Owned(holds, {}),
               lapsed <- Owned(expired, {})

\* SetNX and CompareAndDelete (redis.go:458 and :467) implement Lease.
ImplementsLease == Promise!LeaseSpec

----------------------------------------------------------------------------
\* Whoever SetNX told "true" has the lock, alone, until it expires or he releases it,
\* although commands of earlier calls, his own among them, are executed late or twice
\* (redis.go SetNX, CompareAndDelete; the comment at 466 promises no TOCTOU race).
HolderKeepsLock ==
    use = "owned" => \A g \in holds : token[g] \notin expired => lock = token[g]

\* What a call says it has done was done by one of its own attempts, not by another
\* goroutine's and not by nobody (redis.go SetNX, CompareAndDelete, Incr, Decr).
SuccessIsReal ==
    \A g \in Goroutines :
        ret[g] = "true" \/ (ret[g] = "nil" /\ use \in {"up", "down"}) => done[g]

\* Incr alone, or Decr alone, returns no number twice, however often its command was
\* sent (redis.go Incr, Decr): a retry skips numbers.
NumbersAreUnique == use \in {"up", "down"} => ~renumbered

\* A value is popped twice only if its LPUSH was sent again (redis.go Lpop, BLPop): the
\* retries of a pop lose values, they never copy them.
OnlyPushesDuplicate == repopped \subseteq resent

\* redis.go:465: false of CompareAndDelete means that the value was another and that the
\* key was not deleted.
FalseMeansNotDeleted == \A g \in Goroutines : ret[g] = "mismatch" => ~done[g]
============================================================================
