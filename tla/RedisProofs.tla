---------------------------- MODULE RedisProofs ----------------------------
(***************************************************************************)
(* Proofs about Redis for any goroutines, retries and calls.               *)
(*                                                                         *)
(* Attempts of old calls are executed late, or twice.  What makes locks    *)
(* safe is the fresh value of each request: a late SetNX changes nothing   *)
(* while somebody has the lock, and a late CompareAndDelete carries the    *)
(* value of an earlier request than the one its goroutine relies on.  What *)
(* makes numbers unique is that the counter moves in one direction, so     *)
(* that each answer lies beyond all earlier ones.  What makes a pop safe   *)
(* is that a value is in one place: on its way to the list, in it, on its  *)
(* way to who popped it, or popped.                                        *)
(***************************************************************************)
EXTENDS Redis, Lease, SequenceTheorems, TLAPS

Values == Goroutines \X Nat
Ops == {"setnx", "cad", "lock", "get", "del", "incr", "decr", "lpush", "lpop", "blpop"}
Attempt == [g: Goroutines, n: Nat, op: Ops, val: Values, try: Nat]

TypeOK ==
    /\ use \in {"owned", "plain", "up", "down", "queue"}
    /\ lock \in Values \cup {Nil} /\ number \in Int
    /\ call \in [Goroutines -> Attempt \cup {None}]
    /\ flight \subseteq Attempt
    /\ DOMAIN wire = Goroutines
    /\ calls \in [Goroutines -> Nat]
    /\ token \in [Goroutines -> Values \cup {Nil}]
    /\ done \in [Goroutines -> BOOLEAN]
    /\ ret \in [Goroutines -> {"none", "true", "false", "nil", "err", "mismatch"}]
    /\ holds \subseteq Goroutines

\* What was sent, for which of its goroutine's calls (redis.go).
Sent(m) ==
    /\ m.n \in 1..calls[m.g]
    /\ m.op \in OpsOf[use] \/ (use = "plain" /\ m.op = "del")
    /\ m.op = "cad" => \E k \in 0..(m.n - 1) : m.val = <<m.g, k>>
    /\ m.op \in {"setnx", "lock", "lpush"} => m.val = <<m.g, m.n>>

\* A goroutine waits for its last call, and relies on the lock between two calls only.
Caller(g) ==
    /\ token[g] = Nil \/ \E k \in 0..calls[g] : token[g] = <<g, k>>
    /\ call[g] # None => /\ Sent(call[g])
                         /\ call[g].g = g /\ call[g].n = calls[g]
                         /\ call[g].op \in {"setnx", "lock"} => token[g] = <<g, calls[g]>>
    /\ g \in holds => call[g] = None /\ token[g] = <<g, calls[g]>>
Callers == /\ \A m \in flight : Sent(m)
           /\ \A g \in Goroutines : Caller(g)

\* An answer is on its way to g.
Waits(g) == call[g] # None /\ Len(wire[g]) = 2

\* Who relies on the lock, or is about to, has it until it expires (redis.go SetNX).
Relying(g) == g \in holds \/ (Waits(g) /\ call[g].op = "setnx" /\ wire[g][2] = TRUE)
LockIsTheirs ==
    use = "owned" =>
        \A g \in Goroutines : Relying(g) /\ token[g] \notin expired => lock = token[g]

\* What is answered was done, and stays so until the next call.
AnswersAreReal ==
    \A g \in Goroutines :
        /\ Waits(g) /\ (use \in {"up", "down"}
                          \/ (call[g].op \in {"setnx", "cad"} /\ wire[g][2] = TRUE))
              => done[g] = TRUE
        /\ ret[g] = "true" \/ (ret[g] = "nil" /\ use \in {"up", "down"}) => done[g] = TRUE

\* The numbers that were answered lie behind the counter, each given once (redis.go
\* Incr, Decr).
Past(v) == v \in Int /\ (use = "up" => v <= number) /\ (use = "down" => v >= number)
NumbersArePast ==
    use \in {"up", "down"} =>
        /\ renumbered = FALSE
        /\ \A v \in answers : Past(v)
        /\ \A g \in Goroutines : Waits(g) =>
              /\ Past(wire[g][2])
              /\ wire[g][2] \notin answers
              /\ \A h \in Goroutines \ {g} : Waits(h) => wire[h][2] # wire[g][2]

\* The inductive invariant of redis.go.
IInv == TypeOK /\ Callers /\ LockIsTheirs /\ AnswersAreReal /\ NumbersArePast

----------------------------------------------------------------------------
LEMMA InitIInv == Init => IInv
<1>. SUFFICES ASSUME Init PROVE IInv
  OBVIOUS
<1>1. TypeOK
  BY DEF Init, TypeOK, OpsOf
<1>2. Callers
  BY DEF Init, Callers, Caller
<1>3. LockIsTheirs /\ AnswersAreReal /\ NumbersArePast
  BY DEF Init, LockIsTheirs, Relying, Waits, AnswersAreReal, NumbersArePast
<1>. QED BY <1>1, <1>2, <1>3 DEF IInv

\* What the key is used for says which commands there are.
LEMMA OpsAre ==
    ASSUME TypeOK
    PROVE  /\ \A op \in OpsOf[use] : op \in Ops \ {"del"}
           /\ use = "owned" => OpsOf[use] = {"setnx", "cad"}
           /\ use = "up" => OpsOf[use] = {"incr"}
           /\ use = "down" => OpsOf[use] = {"decr"}
           /\ use = "queue" => OpsOf[use] = {"lpush", "lpop", "blpop"}
BY DEF TypeOK, OpsOf, Ops

\* Who relies on the lock was last asked for it, with his own value.
LEMMA RelyingIs ==
    ASSUME IInv, NEW g \in Goroutines, Relying(g)
    PROVE  token[g] = <<g, calls[g]>> /\ token[g] \in Values /\ token[g] # Nil
<1>1. token[g] = <<g, calls[g]>> /\ calls[g] \in Nat
  BY DEF IInv, TypeOK, Callers, Caller, Relying, Waits
<1>. QED BY <1>1, RedisAssumption DEF Values

\* The server executes attempt m.
LEMMA ExecuteIInv ==
    ASSUME IInv, NEW m \in flight, NEW op, NEW r, NEW effect \in BOOLEAN,
           Execute(m, op, r, effect),
           lock' \in Values \cup {Nil}, number' \in Int,
           call[m.g] = m /\ Len(r) = 2
             /\ (use \in {"up", "down"} \/ (m.op \in {"setnx", "cad"} /\ r[2] = TRUE))
               => effect = TRUE,
           use = "owned" =>
             /\ \A h \in Goroutines : Relying(h) /\ lock = token[h] => lock' = lock
             /\ Len(r) = 2 /\ m.op = "setnx" /\ r[2] = TRUE => lock' = m.val,
           use \in {"up", "down"} /\ Len(r) = 2 =>
             /\ r[2] = number'
             /\ number' = IF use = "up" THEN number + 1 ELSE number - 1,
           Len(r) # 2 => number' = number
    PROVE  IInv'
<1>1. /\ flight' \subseteq flight
      /\ wire' = IF call[m.g] = m THEN [wire EXCEPT ![m.g] = r] ELSE wire
      /\ done' = IF effect /\ call[m.g] # None /\ m.n = calls[m.g]
                 THEN [done EXCEPT ![m.g] = TRUE] ELSE done
      /\ UNCHANGED <<use, call, calls, token, ret, holds, expired, answers, renumbered>>
  BY DEF Execute, client, returned
<1>2. m \in Attempt /\ m.g \in Goroutines /\ Sent(m)
  BY DEF IInv, TypeOK, Callers, Attempt
<1>3. TypeOK'
  <2>1. DOMAIN wire' = Goroutines /\ done' \in [Goroutines -> BOOLEAN]
    BY <1>1, <1>2 DEF IInv, TypeOK
  <2>. QED BY <1>1, <2>1 DEF IInv, TypeOK
<1>4. Callers'
  BY <1>1 DEF IInv, Callers, Caller, Sent
<1>5. \A g \in Goroutines : \/ wire'[g] = wire[g]
                            \/ g = m.g /\ call[g] = m /\ wire'[g] = r
  BY <1>1, <1>2 DEF IInv, TypeOK
<1>6. \A g \in Goroutines : Waits(g)' => \/ Waits(g) /\ wire'[g] = wire[g]
                                         \/ /\ g = m.g /\ call[g] = m /\ m # None
                                            /\ wire'[g] = r /\ Len(r) = 2
  BY <1>1, <1>5 DEF Waits
<1>7. LockIsTheirs'
  <2>. SUFFICES ASSUME use = "owned", NEW g \in Goroutines, Relying(g)', token[g] \notin expired
                PROVE  lock' = token[g]
    BY <1>1 DEF LockIsTheirs
  <2>1. CASE Relying(g)
    BY <2>1 DEF IInv, LockIsTheirs
  <2>2. CASE ~Relying(g)
    <3>1. /\ g = m.g /\ call[g] = m /\ m # None /\ Len(r) = 2 /\ r[2] = TRUE
          /\ m.op = "setnx"
      BY <1>1, <1>6, <2>2 DEF Relying
    <3>2. token[g] = m.val
      BY <1>2, <3>1 DEF IInv, Callers, Caller, Sent
    <3>. QED BY <3>1, <3>2
  <2>. QED BY <2>1, <2>2
<1>8. AnswersAreReal'
  <2>. SUFFICES ASSUME NEW g \in Goroutines
                PROVE  /\ Waits(g)' /\ (use \in {"up", "down"}
                              \/ (call[g].op \in {"setnx", "cad"} /\ wire'[g][2] = TRUE))
                            => done'[g] = TRUE
                       /\ ret[g] = "true" \/ (ret[g] = "nil" /\ use \in {"up", "down"})
                            => done'[g] = TRUE
    BY <1>1 DEF AnswersAreReal
  <2>1. done[g] = TRUE => done'[g] = TRUE
    BY <1>1, <1>2 DEF IInv, TypeOK
  <2>2. ASSUME g = m.g, call[g] = m, m # None, effect = TRUE PROVE done'[g] = TRUE
    <3>1. m.n = calls[m.g]
      BY <2>2 DEF IInv, Callers, Caller
    <3>. QED BY <1>1, <1>2, <2>2, <3>1 DEF IInv, TypeOK
  <2>. QED BY <1>6, <2>1, <2>2 DEF IInv, AnswersAreReal
<1>9. NumbersArePast'
  <2>. SUFFICES ASSUME use \in {"up", "down"} PROVE NumbersArePast'
    BY <1>1 DEF NumbersArePast
  <2>1. CASE Len(r) = 2
    <3>1. number \in Int /\ number' = IF use = "up" THEN number + 1 ELSE number - 1
      BY <2>1 DEF IInv, TypeOK
    <3>2. ASSUME NEW v, Past(v) PROVE Past(v)' /\ v # number'
      BY <1>1, <3>1, <3>2 DEF Past
    <3>3. ASSUME NEW v, v = r[2] PROVE Past(v)'
      BY <1>1, <2>1, <3>1, <3>3 DEF Past
    <3>4. renumbered = FALSE /\ \A v \in answers : Past(v)' /\ v # r[2]
      BY <2>1, <3>2 DEF IInv, NumbersArePast
    <3>5. ASSUME NEW g \in Goroutines, Waits(g)'
          PROVE  /\ Past(wire[g][2])' /\ wire'[g][2] \notin answers
                 /\ \A h \in Goroutines \ {g} : Waits(h)' => wire'[h][2] # wire'[g][2]
      <4>1. CASE Waits(g) /\ wire'[g] = wire[g]
        <5>1. Past(wire[g][2]) /\ wire[g][2] # r[2] /\ wire[g][2] \notin answers
          BY <2>1, <3>2, <4>1 DEF IInv, NumbersArePast
        <5>2. Past(wire[g][2])'
          BY <3>2, <4>1, <5>1
        <5>. QED BY <1>6, <4>1, <5>1, <5>2 DEF IInv, NumbersArePast
      <4>2. CASE g = m.g /\ wire'[g] = r
        <5>1. \A h \in Goroutines \ {g} : Waits(h)' => Waits(h) /\ wire'[h] = wire[h]
          BY <1>6, <4>2
        <5>2. \A h \in Goroutines : Waits(h) => wire[h][2] # r[2]
          BY <2>1, <3>2 DEF IInv, NumbersArePast
        <5>3. Past(wire[g][2])'
          BY <3>3, <4>2
        <5>. QED BY <3>4, <4>2, <5>1, <5>2, <5>3
      <4>. QED BY <1>6, <3>5, <4>1, <4>2
    <3>. QED BY <1>1, <3>4, <3>5 DEF NumbersArePast
  <2>2. CASE Len(r) # 2
    <3>1. \A g \in Goroutines : Waits(g)' => Waits(g) /\ wire'[g] = wire[g]
      BY <1>6, <2>2
    <3>. QED BY <1>1, <2>2, <3>1 DEF IInv, NumbersArePast, Past
  <2>. QED BY <2>1, <2>2
<1>. QED BY <1>3, <1>4, <1>7, <1>8, <1>9 DEF IInv

\* Attempts and their goroutines.
LEMMA FlightIs ==
    ASSUME IInv, NEW m \in flight
    PROVE  /\ m \in Attempt /\ m.g \in Goroutines /\ Sent(m)
           /\ lock \in Values \cup {Nil} /\ number \in Int
BY DEF IInv, TypeOK, Callers, Attempt

\* A request of a lock changes nothing while somebody has it.
LEMMA SetNXIInv ==
    ASSUME IInv, NEW m \in flight, SetNX(m)
    PROVE  IInv'
<1>1. PICK op \in {"setnx", "lock"} :
         \/ lock = Nil /\ lock' = m.val /\ Execute(m, op, <<"ok", TRUE>>, TRUE)
         \/ lock # Nil /\ Execute(m, op, <<"ok", FALSE>>, FALSE) /\ UNCHANGED lock
  BY DEF SetNX
<1>2. m.op = op /\ number' = number
  BY <1>1 DEF SetNX, Execute
<1>3. use \notin {"up", "down"}
  BY <1>2, FlightIs, OpsAre DEF IInv, Sent
<1>4. CASE lock = Nil /\ lock' = m.val /\ Execute(m, op, <<"ok", TRUE>>, TRUE)
  <2>1. \A h \in Goroutines : Relying(h) => lock # token[h]
    BY <1>4, RelyingIs
  <2>2. lock' \in Values \cup {Nil}
    BY <1>4, FlightIs DEF Attempt
  <2>. QED BY <1>2, <1>3, <1>4, <2>1, <2>2, FlightIs, ExecuteIInv
<1>5. CASE lock # Nil /\ Execute(m, op, <<"ok", FALSE>>, FALSE) /\ UNCHANGED lock
  BY <1>2, <1>3, <1>5, FlightIs, ExecuteIInv
<1>. QED BY <1>1, <1>4, <1>5

\* A release carries the value of an earlier request than the one its goroutine relies on.
LEMMA CompareAndDeleteIInv ==
    ASSUME IInv, NEW m \in flight, CompareAndDelete(m)
    PROVE  IInv'
<1>1. m.op = "cad" /\ number' = number
  BY DEF CompareAndDelete, Execute
<1>2. use \notin {"up", "down"}
  BY <1>1, FlightIs, OpsAre DEF IInv, Sent
<1>3. CASE lock = m.val /\ lock' = Nil /\ Execute(m, "cad", <<"ok", TRUE>>, TRUE)
  <2>1. ASSUME NEW h \in Goroutines, Relying(h) PROVE m.val # token[h]
    <3>1. PICK k \in 0..(m.n - 1) : m.val = <<m.g, k>>
      BY <1>1, FlightIs DEF Sent
    <3>2. token[h] = <<h, calls[h]>>
      BY <2>1, RelyingIs
    <3>3. m.n \in 1..calls[m.g] /\ m.g \in Goroutines /\ calls[m.g] \in Nat
      BY FlightIs DEF Sent, IInv, TypeOK
    <3>4. k # calls[m.g]
      BY <3>1, <3>3
    <3>. QED BY <3>1, <3>2, <3>4
  <2>. QED BY <1>1, <1>2, <1>3, <2>1, FlightIs, ExecuteIInv
<1>4. CASE lock # m.val /\ Execute(m, "cad", <<"ok", FALSE>>, FALSE) /\ UNCHANGED lock
  BY <1>1, <1>2, <1>4, FlightIs, ExecuteIInv
<1>. QED BY <1>3, <1>4 DEF CompareAndDelete

LEMMA RefuseIInv ==
    ASSUME IInv, NEW m \in flight, Refuse(m)
    PROVE  IInv'
<1>1. PICK r : r = <<"err">>
  OBVIOUS
<1>2. Len(r) = 1 /\ Execute(m, m.op, r, FALSE) /\ lock' = lock /\ number' = number
  BY <1>1 DEF Refuse
<1>3. lock' \in Values \cup {Nil} /\ number' \in Int /\ Len(r) # 2
  BY <1>2, FlightIs
<1>4. PICK op : op = m.op
  OBVIOUS
<1>5. Execute(m, op, r, FALSE)
  BY <1>2, <1>4
<1>. QED BY <1>2, <1>3, <1>5, ExecuteIInv

\* The counter moves in one direction.
LEMMA IncrIInv ==
    ASSUME IInv, NEW m \in flight, Incr(m)
    PROVE  IInv'
<1>1. PICK op \in {"incr", "decr"} :
         /\ number' = number + (IF op = "incr" THEN 1 ELSE -1)
         /\ Execute(m, op, <<"ok", number'>>, TRUE) /\ lock' = lock
  BY DEF Incr
<1>2. m.op = op
  BY <1>1 DEF Execute
<1>3. (use = "up" => op = "incr") /\ (use = "down" => op = "decr") /\ use # "owned"
  BY <1>2, FlightIs, OpsAre DEF IInv, Sent
<1>4. number' \in Int /\ (use \in {"up", "down"} =>
        number' = IF use = "up" THEN number + 1 ELSE number - 1)
  BY <1>1, <1>3, FlightIs
<1>. QED BY <1>1, <1>3, <1>4, FlightIs, ExecuteIInv

\* UnLock's commands, and those of queues, are sent to other keys.
LEMMA OthersIInv ==
    ASSUME IInv, NEW m \in flight, Get(m) \/ Del(m) \/ Push(m) \/ Pop(m)
    PROVE  IInv'
<1>1. lock' \in {lock, Nil} /\ number' = number
  BY DEF Get, Del, Push, Pop
<1>2. ASSUME NEW op \in {"get", "del", "lpush", "lpop", "blpop"}, NEW r,
             NEW effect \in BOOLEAN, Execute(m, op, r, effect)
      PROVE  IInv'
  <2>1. m.op = op
    BY <1>2 DEF Execute
  <2>2. use \notin {"up", "down", "owned"}
    BY <2>1, FlightIs, OpsAre DEF IInv, Sent
  <2>. QED BY <1>1, <1>2, <2>1, <2>2, FlightIs, ExecuteIInv
<1>3. CASE Get(m)
  BY <1>2, <1>3 DEF Get
<1>4. CASE Del(m)
  BY <1>2, <1>4 DEF Del
<1>5. CASE Push(m)
  BY <1>2, <1>5 DEF Push
<1>6. CASE Pop(m)
  BY <1>2, <1>6 DEF Pop
<1>. QED BY <1>3, <1>4, <1>5, <1>6

LEMMA ExpireIInv ==
    ASSUME IInv, Expire
    PROVE  IInv'
<1>1. /\ lock # Nil /\ lock' = Nil /\ expired' = expired \cup {lock}
      /\ UNCHANGED <<use, number, call, calls, token, ret, holds, flight, wire, done, answers,
                     renumbered>>
  BY DEF Expire, client, returned
<1>2. TypeOK' /\ Callers' /\ AnswersAreReal' /\ NumbersArePast'
  BY <1>1 DEF IInv, TypeOK, Callers, Caller, Sent, AnswersAreReal, NumbersArePast, Waits, Past
<1>3. LockIsTheirs'
  BY <1>1 DEF IInv, LockIsTheirs, Relying, Waits
<1>. QED BY <1>2, <1>3 DEF IInv

----------------------------------------------------------------------------
\* A goroutine that sends anew waits for no earlier answer.
LEMMA SendIs ==
    ASSUME IInv, NEW g \in Goroutines, NEW m \in Attempt, Send(g, m)
    PROVE  /\ call' \in [Goroutines -> Attempt \cup {None}] /\ flight' \subseteq Attempt
           /\ DOMAIN wire' = Goroutines /\ call'[g] = m /\ wire'[g] = <<>> /\ ~Waits(g)'
           /\ \A h \in Goroutines \ {g} : call'[h] = call[h] /\ wire'[h] = wire[h]
           /\ \A h \in Goroutines \ {g} : Waits(h)' <=> Waits(h)
<1>1. /\ call' \in [Goroutines -> Attempt \cup {None}] /\ flight' \subseteq Attempt
      /\ DOMAIN wire' = Goroutines /\ call'[g] = m /\ wire'[g] = <<>>
      /\ \A h \in Goroutines \ {g} : call'[h] = call[h] /\ wire'[h] = wire[h]
  BY DEF Send, IInv, TypeOK
<1>2. Len(wire'[g]) # 2
  BY <1>1
<1>. QED BY <1>1, <1>2 DEF Waits

LEMMA CallIInv ==
    ASSUME IInv, NEW g \in Goroutines, NEW op \in OpsOf[use], Call(g, op)
    PROVE  IInv'
<1> DEFINE n == calls[g] + 1
           fresh == op \in {"setnx", "lock"}
           val == IF op = "cad" THEN token[g] ELSE <<g, n>>
<1>1. PICK m : m = [g |-> g, n |-> n, op |-> op, val |-> val, try |-> 1]
  OBVIOUS
<1>2. /\ call[g] = None /\ Send(g, m) /\ calls' = [calls EXCEPT ![g] = n]
      /\ token' = (IF fresh THEN [token EXCEPT ![g] = val] ELSE token)
      /\ done' = [done EXCEPT ![g] = FALSE] /\ ret' = [ret EXCEPT ![g] = "none"]
      /\ holds' = holds \ {g} /\ (op = "cad" => token[g] # Nil)
      /\ UNCHANGED <<use, lock, number, expired, answers, renumbered>>
  BY <1>1 DEF Call, returned
<1>3. /\ calls[g] \in Nat /\ n \in Nat /\ n \in 1..n /\ n > calls[g] /\ op \in Ops
      /\ token[g] \in Values \cup {Nil}
  BY OpsAre DEF IInv, TypeOK
<1>4. val \in Values /\ (op = "cad" => \E k \in 0..(n - 1) : val = <<g, k>>)
  <2>1. CASE op = "cad"
    <3>1. PICK k \in 0..calls[g] : token[g] = <<g, k>>
      BY <1>2, <2>1 DEF IInv, Callers, Caller
    <3>. QED BY <1>2, <1>3, <2>1, <3>1
  <2>2. CASE op # "cad"
    BY <1>3, <2>2 DEF Values
  <2>. QED BY <2>1, <2>2
<1>5. /\ m \in Attempt /\ m.g = g /\ m.n = n /\ m.op = op /\ m.val = val
  BY <1>1, <1>3, <1>4 DEF Attempt
<1>6. /\ call' \in [Goroutines -> Attempt \cup {None}] /\ flight' \subseteq Attempt
      /\ DOMAIN wire' = Goroutines /\ call'[g] = m /\ wire'[g] = <<>> /\ ~Waits(g)'
      /\ \A h \in Goroutines \ {g} : call'[h] = call[h] /\ wire'[h] = wire[h]
      /\ \A h \in Goroutines \ {g} : Waits(h)' <=> Waits(h)
  BY <1>2, <1>5, SendIs
<1>7. /\ calls'[g] = n /\ done'[g] = FALSE /\ ret'[g] = "none"
      /\ token'[g] = IF fresh THEN <<g, n>> ELSE token[g]
      /\ \A h \in Goroutines \ {g} : /\ calls'[h] = calls[h] /\ done'[h] = done[h]
                                     /\ ret'[h] = ret[h] /\ token'[h] = token[h]
  BY <1>2, <1>4 DEF IInv, TypeOK
<1>8. TypeOK'
  <2>1. /\ calls' \in [Goroutines -> Nat] /\ done' \in [Goroutines -> BOOLEAN]
        /\ token' \in [Goroutines -> Values \cup {Nil}]
        /\ ret' \in [Goroutines -> {"none", "true", "false", "nil", "err", "mismatch"}]
        /\ holds' \subseteq Goroutines
    BY <1>2, <1>3, <1>4 DEF IInv, TypeOK
  <2>. QED BY <1>2, <1>6, <2>1 DEF IInv, TypeOK
<1>9. Callers'
  <2>1. ASSUME NEW a \in Attempt, Sent(a) PROVE Sent(a)'
    <3>1. a.g \in Goroutines /\ calls[a.g] \in Nat /\ calls'[a.g] \in Nat
          /\ calls[a.g] <= calls'[a.g]
      BY <1>3, <1>7 DEF Attempt, IInv, TypeOK
    <3>2. a.n \in 1..calls'[a.g]
      BY <2>1, <3>1 DEF Sent
    <3>. QED BY <1>2, <2>1, <3>2 DEF Sent
  <2>2. Sent(m)'
    BY <1>2, <1>3, <1>4, <1>5, <1>7 DEF Sent
  <2>3. \A a \in flight' : Sent(a)'
    <3>1. flight' = flight \cup {m}
      BY <1>2 DEF Send
    <3>. QED BY <2>1, <2>2, <3>1 DEF IInv, TypeOK, Callers
  <2>4. Caller(g)'
    <3>1. token'[g] = Nil \/ \E k \in 0..calls'[g] : token'[g] = <<g, k>>
      <4>1. CASE fresh
        BY <1>3, <1>7, <4>1
      <4>2. CASE ~fresh
        <5>1. token[g] = Nil \/ \E k \in 0..calls[g] : token[g] = <<g, k>>
          BY DEF IInv, Callers, Caller
        <5>. QED BY <1>3, <1>7, <4>2, <5>1
      <4>. QED BY <4>1, <4>2
    <3>2. g \notin holds'
      BY <1>2
    <3>3. op \in {"setnx", "lock"} => token'[g] = <<g, calls'[g]>>
      BY <1>7
    <3>. QED BY <1>5, <1>6, <1>7, <2>2, <3>1, <3>2, <3>3 DEF Caller
  <2>5. ASSUME NEW h \in Goroutines \ {g} PROVE Caller(h)'
    <3>1. Caller(h) /\ (call[h] # None => call[h] \in Attempt)
      BY DEF IInv, Callers, TypeOK
    <3>2. h \in holds' <=> h \in holds
      BY <1>2
    <3>. QED BY <1>6, <1>7, <2>1, <3>1, <3>2 DEF Caller
  <2>. QED BY <2>3, <2>4, <2>5 DEF Callers
<1>10. LockIsTheirs'
  BY <1>2, <1>6, <1>7 DEF IInv, LockIsTheirs, Relying
<1>11. AnswersAreReal'
  BY <1>2, <1>6, <1>7 DEF IInv, AnswersAreReal
<1>12. NumbersArePast'
  BY <1>2, <1>6 DEF IInv, NumbersArePast, Past
<1>. QED BY <1>8, <1>9, <1>10, <1>11, <1>12 DEF IInv

\* A call goes on with another attempt, or with UnLock's second command.
LEMMA ResendIInv ==
    ASSUME IInv, NEW g \in Goroutines, call[g] # None, NEW m \in Attempt, Send(g, m),
           Sent(m), m.g = g, m.n = call[g].n,
           m.op \in {"setnx", "lock"} => m.op = call[g].op,
           UNCHANGED <<use, lock, number, calls, token, done, ret, holds, expired, answers,
                       renumbered>>
    PROVE  IInv'
<1>1. /\ call' \in [Goroutines -> Attempt \cup {None}] /\ flight' \subseteq Attempt
      /\ DOMAIN wire' = Goroutines /\ call'[g] = m /\ wire'[g] = <<>> /\ ~Waits(g)'
      /\ \A h \in Goroutines \ {g} : call'[h] = call[h] /\ wire'[h] = wire[h]
      /\ \A h \in Goroutines \ {g} : Waits(h)' <=> Waits(h)
  BY SendIs
<1>2. TypeOK'
  BY <1>1 DEF IInv, TypeOK
<1>3. Callers'
  <2>1. \A a : Sent(a) => Sent(a)'
    BY DEF Sent
  <2>2. \A a \in flight' : Sent(a)'
    BY <2>1 DEF Send, IInv, Callers
  <2>3. Caller(g)'
    BY <1>1, <2>1 DEF IInv, Callers, Caller
  <2>4. ASSUME NEW h \in Goroutines \ {g} PROVE Caller(h)'
    BY <1>1, <2>1 DEF IInv, Callers, Caller
  <2>. QED BY <2>2, <2>3, <2>4 DEF Callers
<1>4. LockIsTheirs'
  BY <1>1 DEF IInv, LockIsTheirs, Relying
<1>5. AnswersAreReal'
  BY <1>1 DEF IInv, AnswersAreReal
<1>6. NumbersArePast'
  BY <1>1 DEF IInv, NumbersArePast, Past
<1>. QED BY <1>2, <1>3, <1>4, <1>5, <1>6 DEF IInv

LEMMA RetryIInv ==
    ASSUME IInv, NEW g \in Goroutines, Retry(g)
    PROVE  IInv'
<1>1. PICK m : m = [call[g] EXCEPT !.try = @ + 1]
  OBVIOUS
<1>2. /\ call[g] # None /\ Send(g, m)
      /\ UNCHANGED <<use, lock, number, calls, token, done, ret, holds, expired, answers,
                     renumbered>>
  BY <1>1 DEF Retry, returned
<1>3. call[g] \in Attempt /\ Sent(call[g]) /\ call[g].g = g
  BY <1>2 DEF IInv, TypeOK, Callers, Caller
<1>4. /\ m \in Attempt /\ m.g = g /\ m.n = call[g].n /\ m.op = call[g].op
      /\ m.val = call[g].val
  BY <1>1, <1>3 DEF Attempt
<1>5. Sent(m)
  BY <1>3, <1>4 DEF Sent
<1>. QED BY <1>2, <1>4, <1>5, ResendIInv

LEMMA UnLockSendsIInv ==
    ASSUME IInv, NEW g \in Goroutines, call[g] # None, call[g].op = "get",
           Send(g, [call[g] EXCEPT !.op = "del", !.try = 1]),
           UNCHANGED <<use, lock, number, calls, token, done, ret, holds, expired, answers,
                       renumbered>>
    PROVE  IInv'
<1>1. PICK m : m = [call[g] EXCEPT !.op = "del", !.try = 1]
  OBVIOUS
<1>2. call[g] \in Attempt /\ Sent(call[g]) /\ call[g].g = g
  BY DEF IInv, TypeOK, Callers, Caller
<1>3. /\ m \in Attempt /\ m.g = g /\ m.n = call[g].n /\ m.op = "del"
  BY <1>1, <1>2 DEF Attempt, Ops
<1>4. use = "plain"
  BY <1>2 DEF IInv, TypeOK, Sent, OpsOf
<1>5. Sent(m)
  BY <1>2, <1>3, <1>4 DEF Sent
<1>. QED BY <1>1, <1>3, <1>5, ResendIInv

\* A call returns: who relies on the lock was told that he has it, and a number is
\* handed out with the answer it came in.
LEMMA ReturnIs ==
    ASSUME IInv, NEW g \in Goroutines, call[g] # None, NEW r, NEW relies \in BOOLEAN,
           r \in {"true", "false", "nil", "err", "mismatch"}, Return(g, r, relies),
           relies = TRUE => /\ Waits(g) /\ call[g].op \in {"setnx", "lock"}
                            /\ call[g].op = "setnx" => wire[g][2] = TRUE,
           r = "true" \/ (r = "nil" /\ use \in {"up", "down"}) => done[g] = TRUE,
           \/ UNCHANGED <<answers, renumbered>>
           \/ /\ Waits(g) /\ answers' = answers \cup {wire[g][2]}
              /\ renumbered' = (renumbered \/ wire[g][2] \in answers)
    PROVE  IInv'
<1>1. /\ call' = [call EXCEPT ![g] = None] /\ wire' = [wire EXCEPT ![g] = <<>>]
      /\ ret' = [ret EXCEPT ![g] = r]
      /\ holds' = IF relies THEN holds \cup {g} ELSE holds
      /\ UNCHANGED <<use, lock, number, flight, calls, token, done, expired>>
  BY DEF Return
<1>2. /\ call'[g] = None /\ ret'[g] = r /\ ~Waits(g)'
      /\ \A h \in Goroutines \ {g} : /\ call'[h] = call[h] /\ wire'[h] = wire[h]
                                     /\ ret'[h] = ret[h] /\ (Waits(h)' <=> Waits(h))
                                     /\ (h \in holds' <=> h \in holds)
  BY <1>1 DEF IInv, TypeOK, Waits
<1>3. TypeOK'
  BY <1>1 DEF IInv, TypeOK
<1>4. Callers'
  <2>1. \A a : Sent(a) => Sent(a)'
    BY <1>1 DEF Sent
  <2>2. Caller(g)'
    BY <1>1, <1>2 DEF IInv, Callers, Caller
  <2>3. ASSUME NEW h \in Goroutines \ {g} PROVE Caller(h)'
    BY <1>1, <1>2, <2>1 DEF IInv, Callers, Caller
  <2>. QED BY <1>1, <2>1, <2>2, <2>3 DEF IInv, Callers
<1>5. LockIsTheirs'
  <2>. SUFFICES ASSUME use = "owned", NEW h \in Goroutines, Relying(h)', token[h] \notin expired
                PROVE  lock = token[h]
    BY <1>1 DEF LockIsTheirs
  <2>1. Relying(h)
    <3>1. CASE h = g
      <4>1. g \in holds \/ relies = TRUE
        BY <1>1, <1>2, <3>1 DEF Relying
      <4>2. ASSUME relies = TRUE PROVE call[g].op = "setnx"
        BY <4>2, OpsAre DEF IInv, Callers, Caller, Sent
      <4>. QED BY <3>1, <4>1, <4>2 DEF Relying
    <3>2. CASE h # g
      BY <1>2, <3>2 DEF Relying
    <3>. QED BY <3>1, <3>2
  <2>. QED BY <2>1 DEF IInv, LockIsTheirs
<1>6. AnswersAreReal'
  BY <1>1, <1>2 DEF IInv, AnswersAreReal
<1>7. NumbersArePast'
  <2>. SUFFICES ASSUME use \in {"up", "down"} PROVE NumbersArePast'
    BY <1>1 DEF NumbersArePast
  <2>1. \A v : Past(v) => Past(v)'
    BY <1>1 DEF Past
  <2>2. CASE UNCHANGED <<answers, renumbered>>
    BY <1>1, <1>2, <2>1, <2>2 DEF IInv, NumbersArePast
  <2>3. CASE /\ Waits(g) /\ answers' = answers \cup {wire[g][2]}
             /\ renumbered' = (renumbered \/ wire[g][2] \in answers)
    <3>1. Past(wire[g][2]) /\ wire[g][2] \notin answers /\ renumbered = FALSE
      BY <2>3 DEF IInv, NumbersArePast
    <3>2. renumbered' = FALSE /\ \A v \in answers' : Past(v)'
      BY <2>1, <2>3, <3>1 DEF IInv, NumbersArePast
    <3>3. ASSUME NEW h \in Goroutines, Waits(h)'
          PROVE  /\ Past(wire[h][2])' /\ wire'[h][2] \notin answers'
                 /\ \A k \in Goroutines \ {h} : Waits(k)' => wire'[k][2] # wire'[h][2]
      <4>1. h # g /\ Waits(h) /\ wire'[h] = wire[h]
        BY <1>2, <3>3
      <4>2. /\ Past(wire[h][2]) /\ wire[h][2] \notin answers
            /\ \A k \in Goroutines \ {h} : Waits(k) => wire[k][2] # wire[h][2]
        BY <4>1 DEF IInv, NumbersArePast
      <4>3. Past(wire[h][2])'
        BY <2>1, <4>1, <4>2
      <4>. QED BY <1>2, <2>3, <4>1, <4>2, <4>3
    <3>. QED BY <3>2, <3>3 DEF NumbersArePast
  <2>. QED BY <2>2, <2>3
<1>. QED BY <1>3, <1>4, <1>5, <1>6, <1>7 DEF IInv

LEMMA GiveUpIInv ==
    ASSUME IInv, NEW g \in Goroutines, GiveUp(g) \/ ReturnRefusal(g)
    PROVE  IInv'
BY ReturnIs DEF GiveUp, ReturnRefusal, returned

LEMMA ReturnSetNXIInv ==
    ASSUME IInv, NEW g \in Goroutines, ReturnSetNX(g)
    PROVE  IInv'
<1>1. /\ call[g] # None /\ Waits(g) /\ call[g].op = "setnx"
      /\ UNCHANGED <<answers, renumbered>>
  BY DEF ReturnSetNX, Answered, Waits, returned
<1>2. use \notin {"up", "down"}
  BY <1>1, OpsAre DEF IInv, Callers, Caller, Sent
<1>3. CASE wire[g][2] = TRUE
  <2>1. Return(g, "true", TRUE)
    BY <1>3 DEF ReturnSetNX
  <2>2. done[g] = TRUE
    BY <1>1, <1>3 DEF IInv, AnswersAreReal
  <2>. QED BY <1>1, <1>3, <2>1, <2>2, ReturnIs
<1>4. CASE wire[g][2] # TRUE
  <2>1. Return(g, "false", FALSE)
    BY <1>4 DEF ReturnSetNX, Return
  <2>. QED BY <1>1, <1>2, <2>1, ReturnIs
<1>. QED BY <1>3, <1>4

LEMMA ReturnLockIInv ==
    ASSUME IInv, NEW g \in Goroutines, ReturnLock(g)
    PROVE  IInv'
<1>1. /\ call[g] # None /\ Waits(g) /\ call[g].op = "lock" /\ Return(g, "nil", TRUE)
      /\ UNCHANGED <<answers, renumbered>>
  BY DEF ReturnLock, Answered, Waits, returned
<1>2. use \notin {"up", "down"}
  BY <1>1, OpsAre DEF IInv, Callers, Caller, Sent
<1>. QED BY <1>1, <1>2, ReturnIs

LEMMA ReturnCompareAndDeleteIInv ==
    ASSUME IInv, NEW g \in Goroutines, ReturnCompareAndDelete(g)
    PROVE  IInv'
<1>1. /\ call[g] # None /\ Waits(g) /\ call[g].op = "cad"
      /\ UNCHANGED <<answers, renumbered>>
  BY DEF ReturnCompareAndDelete, Answered, Waits, returned
<1>2. CASE wire[g][2] = TRUE
  <2>1. Return(g, "true", FALSE) /\ done[g] = TRUE
    BY <1>1, <1>2 DEF ReturnCompareAndDelete, IInv, AnswersAreReal
  <2>. QED BY <1>1, <2>1, ReturnIs
<1>3. CASE wire[g][2] # TRUE
  <2>1. Return(g, "mismatch", FALSE)
    BY <1>3 DEF ReturnCompareAndDelete
  <2>. QED BY <1>1, <2>1, ReturnIs
<1>. QED BY <1>2, <1>3

LEMMA ReturnUnLockIInv ==
    ASSUME IInv, NEW g \in Goroutines, UnLockGot(g) \/ ReturnUnLock(g)
    PROVE  IInv'
<1>1. /\ call[g] # None /\ call[g].op \in {"get", "del"}
      /\ UNCHANGED <<answers, renumbered>>
  BY DEF UnLockGot, ReturnUnLock, Answered, returned
<1>2. use \notin {"up", "down"}
  BY <1>1, OpsAre DEF IInv, Callers, Caller, Sent
<1>3. CASE Return(g, "err", FALSE) \/ Return(g, "nil", FALSE)
  BY <1>1, <1>2, <1>3, ReturnIs
<1>4. CASE /\ call[g].op = "get" /\ Send(g, [call[g] EXCEPT !.op = "del", !.try = 1])
           /\ UNCHANGED <<use, lock, number, calls, token, done, ret, holds, expired>>
  BY <1>1, <1>4, UnLockSendsIInv
<1>. QED BY <1>3, <1>4 DEF UnLockGot, ReturnUnLock, Answered

LEMMA ReturnIncrIInv ==
    ASSUME IInv, NEW g \in Goroutines, ReturnIncr(g)
    PROVE  IInv'
<1>1. /\ call[g] # None /\ Waits(g) /\ call[g].op \in {"incr", "decr"}
      /\ Return(g, "nil", FALSE) /\ answers' = answers \cup {wire[g][2]}
      /\ renumbered' = (renumbered \/ wire[g][2] \in answers)
  BY DEF ReturnIncr, Answered, Waits
<1>2. use \in {"up", "down"} => done[g] = TRUE
  BY <1>1 DEF IInv, AnswersAreReal
<1>. QED BY <1>1, <1>2, ReturnIs

LEMMA ReturnQueueIInv ==
    ASSUME IInv, NEW g \in Goroutines, ReturnPush(g) \/ ReturnPop(g)
    PROVE  IInv'
<1>1. /\ call[g] # None /\ call[g].op \in {"lpush", "lpop", "blpop"}
      /\ Return(g, "nil", FALSE) \/ Return(g, "err", FALSE)
      /\ UNCHANGED <<answers, renumbered>>
  BY DEF ReturnPush, ReturnPop, Answered, returned
<1>2. use \notin {"up", "down"}
  BY <1>1, OpsAre DEF IInv, Callers, Caller, Sent
<1>. QED BY <1>1, <1>2, ReturnIs

----------------------------------------------------------------------------
(* Queues: a value whose LPUSH was sent once is in one place at a time, on *)
(* its way to the list, in it, on its way to whoever popped it, or popped. *)

Pushes(m, v) == m.op = "lpush" /\ m.val = v
Gets(g, v) == Waits(g) /\ wire[g][2] = v
InPush(v) == \E m \in flight : Pushes(m, v)
InList(v) == \E i \in 1..Len(list) : list[i] = v
OnWire(v) == \E g \in Goroutines : Gets(g, v)
Once(v) ==
    /\ \A m1, m2 \in flight : Pushes(m1, v) /\ Pushes(m2, v) => m1 = m2
    /\ \A i, j \in 1..Len(list) : list[i] = v /\ list[j] = v => i = j
    /\ \A g, h \in Goroutines : Gets(g, v) /\ Gets(h, v) => g = h
    /\ InPush(v) => ~InList(v) /\ ~OnWire(v) /\ v \notin popped
    /\ InList(v) => ~OnWire(v) /\ v \notin popped
    /\ OnWire(v) => v \notin popped

\* The value of no call before the call is made.
Fresh == \A g \in Goroutines : \A k \in Nat : k > calls[g] =>
            ~InList(<<g, k>>) /\ ~OnWire(<<g, k>>) /\ <<g, k>> \notin popped

Copies ==
    /\ use # "queue" => repopped = {}
    /\ use = "queue" => /\ list \in Seq(Values)
                        /\ \A g \in Goroutines : Waits(g) => wire[g][2] \in Values \cup {Nil}
                        /\ repopped \subseteq resent
                        /\ \A v \in Values \ resent : Once(v)
                        /\ Fresh

\* A step that puts nothing anywhere.
LEMMA StayCopies ==
    ASSUME IInv, Copies, use' = use, UNCHANGED <<list, popped, repopped>>,
           resent \subseteq resent',
           \A m \in flight' : m.op = "lpush" => m \in flight \/ m.val \in resent',
           \A g \in Goroutines : Waits(g)' => \/ Waits(g) /\ wire'[g] = wire[g]
                                              \/ wire'[g][2] = Nil,
           \A g \in Goroutines : calls'[g] \in Nat /\ calls'[g] >= calls[g]
    PROVE  Copies'
<1>. SUFFICES ASSUME use = "queue"
              PROVE  /\ \A g \in Goroutines : Waits(g)' => wire'[g][2] \in Values \cup {Nil}
                     /\ \A v \in Values \ resent' : Once(v)'
                     /\ Fresh'
  BY DEF Copies
<1>1. \A g \in Goroutines : Waits(g)' => wire'[g][2] \in Values \cup {Nil}
  BY DEF Copies
<1>2. ASSUME NEW v, v # Nil
      PROVE  /\ \A g \in Goroutines : Gets(g, v)' => Gets(g, v)
             /\ (InList(v)' <=> InList(v)) /\ (OnWire(v)' => OnWire(v))
  <2>1. \A g \in Goroutines : Gets(g, v)' => Gets(g, v)
    BY <1>2 DEF Gets
  <2>2. InList(v)' <=> InList(v)
    BY DEF InList
  <2>3. OnWire(v)' => OnWire(v)
    BY <2>1 DEF OnWire
  <2>. QED BY <2>1, <2>2, <2>3
<1>3. ASSUME NEW v \in Values \ resent' PROVE Once(v)'
  <2>1. v # Nil /\ Once(v)
    BY RedisAssumption DEF Copies, Values
  <2>2. \A m \in flight' : Pushes(m, v) => m \in flight
    BY DEF Pushes
  <2>3. InPush(v)' => InPush(v)
    BY <2>2 DEF InPush
  <2>4. \A m1, m2 \in flight' : Pushes(m1, v) /\ Pushes(m2, v) => m1 = m2
    BY <2>1, <2>2 DEF Once
  <2>5. \A g, h \in Goroutines : Gets(g, v)' /\ Gets(h, v)' => g = h
    BY <1>2, <2>1 DEF Once
  <2>6. \A i, j \in 1..Len(list') : list'[i] = v /\ list'[j] = v => i = j
    BY <2>1 DEF Once
  <2>7. /\ InPush(v)' => ~InList(v)' /\ ~OnWire(v)' /\ v \notin popped'
        /\ InList(v)' => ~OnWire(v)' /\ v \notin popped'
        /\ OnWire(v)' => v \notin popped'
    BY <1>2, <2>1, <2>3 DEF Once
  <2>. QED BY <2>4, <2>5, <2>6, <2>7 DEF Once
<1>4. Fresh'
  <2>. SUFFICES ASSUME NEW g \in Goroutines, NEW k \in Nat, k > calls'[g]
                PROVE  ~InList(<<g, k>>)' /\ ~OnWire(<<g, k>>)' /\ <<g, k>> \notin popped'
    BY DEF Fresh
  <2>1. k > calls[g] /\ calls[g] \in Nat
    BY DEF IInv, TypeOK
  <2>2. PICK v : v = <<g, k>>
    OBVIOUS
  <2>3. v # Nil /\ ~InList(v) /\ ~OnWire(v) /\ v \notin popped
    BY <2>1, <2>2, RedisAssumption DEF Copies, Fresh
  <2>. QED BY <1>2, <2>2, <2>3
<1>. QED BY <1>1, <1>3, <1>4

LEMMA InitCopies == Init => Copies
BY DEF Init, Copies, Once, InPush, InList, OnWire, Gets, Waits, Fresh

\* No goroutine's place in memory but g's changes, and nothing comes to g.
LEMMA QuietIs ==
    ASSUME TypeOK, NEW g \in Goroutines, NEW c,
           call' = [call EXCEPT ![g] = c], wire' = [wire EXCEPT ![g] = <<>>]
    PROVE  \A h \in Goroutines : Waits(h)' => Waits(h) /\ wire'[h] = wire[h]
BY DEF TypeOK, Waits

\* A push is sent with the value of its call, which nobody has sent before.
LEMMA CallCopies ==
    ASSUME IInv, Copies, NEW g \in Goroutines, NEW op \in OpsOf[use], Call(g, op)
    PROVE  Copies'
<1>1. PICK m : /\ call' = [call EXCEPT ![g] = m] /\ flight' = flight \cup {m}
               /\ m = [g |-> g, n |-> calls[g] + 1, op |-> op, try |-> 1,
                       val |-> IF op = "cad" THEN token[g] ELSE <<g, calls[g] + 1>>]
  BY DEF Call, Send
<1>2. /\ wire' = [wire EXCEPT ![g] = <<>>] /\ calls' = [calls EXCEPT ![g] = calls[g] + 1]
      /\ UNCHANGED <<use, list, popped, repopped, resent>>
  BY DEF Call, Send, returned
<1>3. \A h \in Goroutines : Waits(h)' => Waits(h) /\ wire'[h] = wire[h]
  BY <1>1, <1>2, QuietIs DEF IInv
<1>4. \A h \in Goroutines : calls'[h] \in Nat /\ calls'[h] >= calls[h]
  BY <1>2 DEF IInv, TypeOK
<1>5. CASE op # "lpush"
  BY <1>1, <1>2, <1>3, <1>4, <1>5, StayCopies
<1>6. CASE op = "lpush" /\ use # "queue"
  BY <1>2, <1>6 DEF Copies
<1>7. CASE op = "lpush" /\ use = "queue"
  <2>1. m.val = <<g, calls[g] + 1>> /\ calls[g] \in Nat
    BY <1>1, <1>7 DEF IInv, TypeOK
  <2>2. ~InList(m.val) /\ ~OnWire(m.val) /\ m.val \notin popped
    BY <1>7, <2>1 DEF Copies, Fresh
  <2>3. \A k \in flight : ~Pushes(k, m.val)
    BY <2>1 DEF Pushes, IInv, TypeOK, Callers, Sent, Attempt
  <2>4. \A v : (InList(v)' <=> InList(v)) /\ (OnWire(v)' => OnWire(v))
    BY <1>2, <1>3 DEF InList, OnWire, Gets
  <2>5. ASSUME NEW v \in Values \ resent PROVE Once(v)'
    <3>1. Once(v)
      BY <1>7 DEF Copies
    <3>2. \A k \in flight' : k = m \/ k \in flight
      BY <1>1
    <3>3. \A m1, m2 \in flight' : Pushes(m1, v) /\ Pushes(m2, v) => m1 = m2
      BY <2>3, <3>1, <3>2 DEF Once, Pushes
    <3>4. InPush(v)' => InPush(v) \/ v = m.val
      BY <3>2 DEF InPush, Pushes
    <3>5. \A h, i \in Goroutines : Gets(h, v)' /\ Gets(i, v)' => h = i
      BY <1>3, <3>1 DEF Once, Gets
    <3>6. \A i, j \in 1..Len(list') : list'[i] = v /\ list'[j] = v => i = j
      BY <1>2, <3>1 DEF Once
    <3>7. /\ InPush(v)' => ~InList(v)' /\ ~OnWire(v)' /\ v \notin popped'
          /\ InList(v)' => ~OnWire(v)' /\ v \notin popped'
          /\ OnWire(v)' => v \notin popped'
      BY <1>2, <2>2, <2>4, <3>1, <3>4 DEF Once
    <3>. QED BY <3>3, <3>5, <3>6, <3>7 DEF Once
  <2>6. Fresh'
    <3>. SUFFICES ASSUME NEW h \in Goroutines, NEW k \in Nat, k > calls'[h]
                  PROVE  ~InList(<<h, k>>)' /\ ~OnWire(<<h, k>>)' /\ <<h, k>> \notin popped'
      BY DEF Fresh
    <3>1. k > calls[h]
      BY <1>4 DEF IInv, TypeOK
    <3>2. ~InList(<<h, k>>) /\ ~OnWire(<<h, k>>) /\ <<h, k>> \notin popped
      BY <1>7, <3>1 DEF Copies, Fresh
    <3>. QED BY <1>2, <2>4, <3>2
  <2>7. \A h \in Goroutines : Waits(h)' => wire'[h][2] \in Values \cup {Nil}
    BY <1>3, <1>7 DEF Copies
  <2>. QED BY <1>2, <1>7, <2>5, <2>6, <2>7 DEF Copies
<1>. QED BY <1>5, <1>6, <1>7

LEMMA RetryCopies ==
    ASSUME IInv, Copies, NEW g \in Goroutines, Retry(g)
    PROVE  Copies'
<1>1. PICK m : /\ m = [call[g] EXCEPT !.try = @ + 1]
               /\ call' = [call EXCEPT ![g] = m] /\ flight' = flight \cup {m}
  BY DEF Retry, Send
<1>2. /\ wire' = [wire EXCEPT ![g] = <<>>] /\ call[g] # None
      /\ resent' = IF call[g].op = "lpush" THEN resent \cup {call[g].val} ELSE resent
      /\ UNCHANGED <<use, list, popped, repopped, calls>>
  BY DEF Retry, Send, returned
<1>3. m.op = call[g].op /\ m.val = call[g].val
  BY <1>1, <1>2 DEF IInv, TypeOK, Attempt
<1>4. \A h \in Goroutines : Waits(h)' => Waits(h) /\ wire'[h] = wire[h]
  BY <1>1, <1>2, QuietIs DEF IInv
<1>5. /\ resent \subseteq resent'
      /\ \A k \in flight' : k.op = "lpush" => k \in flight \/ k.val \in resent'
  BY <1>1, <1>2, <1>3
<1>6. \A h \in Goroutines : calls'[h] \in Nat /\ calls'[h] >= calls[h]
  BY <1>2 DEF IInv, TypeOK
<1>. QED BY <1>2, <1>4, <1>5, <1>6, StayCopies

\* A call returns nothing that was popped.
LEMMA ReturnCopies ==
    ASSUME IInv, Copies, NEW g \in Goroutines, NEW r, NEW relies, Return(g, r, relies),
           UNCHANGED <<popped, repopped>>
    PROVE  Copies'
<1>1. /\ call' = [call EXCEPT ![g] = None] /\ wire' = [wire EXCEPT ![g] = <<>>]
      /\ UNCHANGED <<use, list, flight, calls, resent>>
  BY DEF Return
<1>2. \A h \in Goroutines : Waits(h)' => Waits(h) /\ wire'[h] = wire[h]
  BY <1>1, QuietIs DEF IInv
<1>. QED BY <1>1, <1>2, StayCopies DEF IInv, TypeOK

\* UnLock sends its second command.
LEMMA UnLockGotCopies ==
    ASSUME IInv, Copies, NEW g \in Goroutines, UnLockGot(g)
    PROVE  Copies'
<1>1. call[g] # None /\ call[g].op = "get" /\ UNCHANGED <<popped, repopped>>
  BY DEF UnLockGot, Answered, returned
<1>2. use # "queue"
  BY <1>1, OpsAre DEF IInv, Callers, Caller, Sent
<1>. QED BY <1>1, <1>2 DEF UnLockGot, Return, Copies

\* An attempt whose execution moves no value.
LEMMA ExecuteCopies ==
    ASSUME IInv, Copies, NEW m \in flight, NEW op, NEW r, NEW effect,
           Execute(m, op, r, effect), list' = list,
           use = "queue" => Len(r) # 2 \/ r[2] = Nil
    PROVE  Copies'
<1>1. /\ flight' \subseteq flight
      /\ wire' = IF call[m.g] = m THEN [wire EXCEPT ![m.g] = r] ELSE wire
      /\ UNCHANGED <<use, call, calls, popped, repopped, resent>>
  BY DEF Execute, client, returned
<1>2. CASE use = "queue"
  <2>1. \A h \in Goroutines : wire'[h] = wire[h] \/ wire'[h] = r
    BY <1>1, FlightIs DEF IInv, TypeOK
  <2>2. \A h \in Goroutines : Waits(h)' => (Waits(h) /\ wire'[h] = wire[h]) \/ wire'[h][2] = Nil
    BY <1>1, <1>2, <2>1 DEF Waits
  <2>. QED BY <1>1, <2>2, StayCopies DEF IInv, TypeOK
<1>3. CASE use # "queue"
  BY <1>1, <1>3 DEF Copies
<1>. QED BY <1>2, <1>3

\* The value of m is in the list alone.
LEMMA PushCopies ==
    ASSUME IInv, Copies, NEW m \in flight, Push(m)
    PROVE  Copies'
<1>1. PICK r : r = <<"ok", Nil>> /\ Execute(m, "lpush", r, TRUE)
  BY DEF Push
<1>2. /\ list' = <<m.val>> \o list /\ flight' = flight \ {m} /\ m.op = "lpush"
      /\ wire' = IF call[m.g] = m THEN [wire EXCEPT ![m.g] = r] ELSE wire
      /\ UNCHANGED <<use, call, calls, popped, repopped, resent>> /\ r[2] = Nil
  BY <1>1 DEF Push, Execute, client, returned
<1>. SUFFICES ASSUME use = "queue" PROVE Copies'
  BY <1>2 DEF Copies
<1>3. m.val = <<m.g, m.n>> /\ m.val \in Values /\ m.n \in 1..calls[m.g] /\ Pushes(m, m.val)
  BY <1>2, FlightIs DEF Sent, Attempt, Pushes
<1>4. /\ list \in Seq(Values) /\ list' \in Seq(Values) /\ Len(list') = Len(list) + 1
      /\ list'[1] = m.val /\ \A i \in 1..Len(list) : list'[i + 1] = list[i]
      /\ \A i \in 1..Len(list') : i = 1 \/ (i - 1 \in 1..Len(list) /\ list'[i] = list[i - 1])
  BY <1>2, <1>3 DEF Copies
<1>5. \A h \in Goroutines : Waits(h)' => (Waits(h) /\ wire'[h] = wire[h]) \/ wire'[h][2] = Nil
  <2>1. \A h \in Goroutines : wire'[h] = wire[h] \/ wire'[h] = r
    BY <1>2, FlightIs DEF IInv, TypeOK
  <2>. QED BY <1>2, <2>1 DEF Waits
<1>6. ASSUME NEW v, v # Nil
      PROVE  /\ \A g \in Goroutines : Gets(g, v)' => Gets(g, v)
             /\ (InList(v)' => InList(v) \/ v = m.val) /\ (OnWire(v)' => OnWire(v))
             /\ (InPush(v)' => InPush(v))
  <2>1. \A g \in Goroutines : Gets(g, v)' => Gets(g, v)
    BY <1>5, <1>6 DEF Gets
  <2>2. InList(v)' => InList(v) \/ v = m.val
    BY <1>4 DEF InList
  <2>3. (OnWire(v)' => OnWire(v)) /\ (InPush(v)' => InPush(v))
    BY <1>2, <2>1 DEF OnWire, InPush
  <2>. QED BY <2>1, <2>2, <2>3
<1>7. ASSUME NEW v \in Values \ resent PROVE Once(v)'
  <2>1. v # Nil /\ Once(v)
    BY RedisAssumption DEF Copies, Values
  <2>2. \A m1, m2 \in flight' : Pushes(m1, v) /\ Pushes(m2, v) => m1 = m2
    BY <1>2, <2>1 DEF Once
  <2>3. \A g, h \in Goroutines : Gets(g, v)' /\ Gets(h, v)' => g = h
    BY <1>6, <2>1 DEF Once
  <2>4. v = m.val => InPush(v) /\ ~InPush(v)'
    BY <1>2, <1>3, <2>1 DEF InPush, Once
  <2>5. \A i, j \in 1..Len(list') : list'[i] = v /\ list'[j] = v => i = j
    <3>1. CASE v = m.val
      <4>1. ~InList(v)
        BY <2>1, <2>4, <3>1 DEF Once
      <4>. QED BY <1>4, <4>1 DEF InList
    <3>2. CASE v # m.val
      <4>1. \A i, j \in 1..Len(list) : list[i] = v /\ list[j] = v => i = j
        BY <2>1 DEF Once
      <4>2. SUFFICES ASSUME NEW i \in 1..Len(list'), NEW j \in 1..Len(list'),
                            list'[i] = v, list'[j] = v
                     PROVE  i = j
        OBVIOUS
      <4>3. /\ i - 1 \in 1..Len(list) /\ list[i - 1] = v
            /\ j - 1 \in 1..Len(list) /\ list[j - 1] = v
        BY <1>4, <3>2, <4>2
      <4>4. i - 1 = j - 1
        BY <4>1, <4>3
      <4>. QED BY <4>4
    <3>. QED BY <3>1, <3>2
  <2>6. /\ InPush(v)' => ~InList(v)' /\ ~OnWire(v)' /\ v \notin popped'
        /\ InList(v)' => ~OnWire(v)' /\ v \notin popped'
        /\ OnWire(v)' => v \notin popped'
    BY <1>2, <1>6, <2>1, <2>4 DEF Once
  <2>. QED BY <2>2, <2>3, <2>5, <2>6 DEF Once
<1>8. Fresh'
  <2>. SUFFICES ASSUME NEW h \in Goroutines, NEW k \in Nat, k > calls[h]
                PROVE  ~InList(<<h, k>>)' /\ ~OnWire(<<h, k>>)' /\ <<h, k>> \notin popped'
    BY <1>2 DEF Fresh
  <2>1. PICK v : v = <<h, k>>
    OBVIOUS
  <2>2. v # m.val
    BY <1>3, <2>1, FlightIs DEF IInv, TypeOK
  <2>3. v # Nil /\ ~InList(v) /\ ~OnWire(v) /\ v \notin popped
    BY <2>1, RedisAssumption DEF Copies, Fresh
  <2>. QED BY <1>2, <1>6, <2>1, <2>2, <2>3
<1>9. \A h \in Goroutines : Waits(h)' => wire'[h][2] \in Values \cup {Nil}
  BY <1>5 DEF Copies
<1>. QED BY <1>2, <1>4, <1>7, <1>8, <1>9 DEF Copies

\* The head of the list is on its way to g, or on its way to nobody.
LEMMA PopCopies ==
    ASSUME IInv, Copies, NEW m \in flight, Pop(m)
    PROVE  Copies'
<1>1. PICK op \in {"lpop", "blpop"} :
         \/ /\ list # <<>> /\ list' = Tail(list)
            /\ Execute(m, op, <<"ok", Head(list)>>, TRUE)
         \/ Execute(m, op, <<"ok", Nil>>, FALSE) /\ list' = list
  BY DEF Pop
<1>2. CASE Execute(m, op, <<"ok", Nil>>, FALSE) /\ list' = list
  <2>1. PICK r : r = <<"ok", Nil>>
    OBVIOUS
  <2>. QED BY <1>2, <2>1, ExecuteCopies
<1>3. CASE /\ list # <<>> /\ list' = Tail(list)
           /\ Execute(m, op, <<"ok", Head(list)>>, TRUE)
  <2>1. PICK r : r = <<"ok", Head(list)>>
    OBVIOUS
  <2>2. /\ list # <<>> /\ list' = Tail(list) /\ flight' = flight \ {m} /\ m.op = op
        /\ wire' = IF call[m.g] = m THEN [wire EXCEPT ![m.g] = r] ELSE wire
        /\ UNCHANGED <<use, call, calls, popped, repopped, resent>>
    BY <1>3, <2>1 DEF Execute, client, returned
  <2>3. use = "queue"
    BY <1>1, <2>2 DEF IInv, Callers, Sent, OpsOf, TypeOK
  <2>4. PICK x : x = list[1]
    OBVIOUS
  <2>5. /\ list \in Seq(Values) /\ list' \in Seq(Values) /\ Len(list') = Len(list) - 1
        /\ Len(list) \in Nat \ {0} /\ r[2] = x /\ x \in Values
        /\ \A i \in 1..Len(list') : i + 1 \in 1..Len(list) /\ list'[i] = list[i + 1]
    BY <2>1, <2>2, <2>3, <2>4 DEF Copies
  <2>6. InList(x)
    BY <2>4, <2>5 DEF InList
  <2>7. \A h \in Goroutines : Waits(h)' => \/ Waits(h) /\ wire'[h] = wire[h]
                                           \/ h = m.g /\ wire'[h] = r
    <3>1. \A h \in Goroutines : wire'[h] = wire[h] \/ (h = m.g /\ wire'[h] = r)
      <4>1. DOMAIN wire = Goroutines
        BY DEF IInv, TypeOK
      <4>. QED BY <2>2, <4>1
    <3>2. call' = call
      BY <2>2
    <3>3. ASSUME NEW h \in Goroutines, Waits(h)', wire'[h] = wire[h] PROVE Waits(h)
      BY <3>2, <3>3 DEF Waits
    <3>. QED BY <3>1, <3>3
  <2>8. ASSUME NEW v
        PROVE  /\ \A g \in Goroutines : Gets(g, v)' => Gets(g, v) \/ (g = m.g /\ v = x)
               /\ (InList(v)' => InList(v)) /\ (OnWire(v)' => OnWire(v) \/ v = x)
               /\ (InPush(v)' => InPush(v))
    <3>1. \A g \in Goroutines : Gets(g, v)' => Gets(g, v) \/ (g = m.g /\ v = x)
      BY <2>5, <2>7 DEF Gets
    <3>2. (InList(v)' => InList(v)) /\ (InPush(v)' => InPush(v))
      BY <2>2, <2>5 DEF InList, InPush
    <3>3. OnWire(v)' => OnWire(v) \/ v = x
      BY <3>1 DEF OnWire
    <3>. QED BY <3>1, <3>2, <3>3
  <2>9. ASSUME NEW v \in Values \ resent PROVE Once(v)'
    <3>1. Once(v)
      BY <2>3 DEF Copies
    <3>2. v = x => InList(v) /\ ~OnWire(v) /\ ~InPush(v) /\ v \notin popped
      BY <2>6, <3>1 DEF Once
    <3>3. \A m1, m2 \in flight' : Pushes(m1, v) /\ Pushes(m2, v) => m1 = m2
      BY <2>2, <3>1 DEF Once
    <3>4. \A g, h \in Goroutines : Gets(g, v)' /\ Gets(h, v)' => g = h
      <4>1. v = x => \A g \in Goroutines : ~Gets(g, v)
        BY <3>2 DEF OnWire
      <4>2. \A g, h \in Goroutines : Gets(g, v) /\ Gets(h, v) => g = h
        BY <3>1 DEF Once
      <4>. QED BY <2>8, <4>1, <4>2
    <3>5. \A i, j \in 1..Len(list') : list'[i] = v /\ list'[j] = v => i = j
      <4>1. \A i, j \in 1..Len(list) : list[i] = v /\ list[j] = v => i = j
        BY <3>1 DEF Once
      <4>2. SUFFICES ASSUME NEW i \in 1..Len(list'), NEW j \in 1..Len(list'),
                            list'[i] = v, list'[j] = v
                     PROVE  i = j
        OBVIOUS
      <4>3. i + 1 = j + 1
        BY <2>5, <4>1, <4>2
      <4>. QED BY <4>3
    <3>6. v = x => ~InList(v)'
      <4>1. \A i, j \in 1..Len(list) : list[i] = v /\ list[j] = v => i = j
        BY <3>1 DEF Once
      <4>2. ASSUME v = x, NEW i \in 1..Len(list'), list'[i] = v PROVE FALSE
        BY <2>4, <2>5, <4>1, <4>2
      <4>. QED BY <4>2 DEF InList
    <3>7. /\ InPush(v)' => ~InList(v)' /\ ~OnWire(v)' /\ v \notin popped'
          /\ InList(v)' => ~OnWire(v)' /\ v \notin popped'
          /\ OnWire(v)' => v \notin popped'
      BY <2>2, <2>8, <3>1, <3>2, <3>6 DEF Once
    <3>. QED BY <3>3, <3>4, <3>5, <3>7 DEF Once
  <2>10. Fresh'
    <3>. SUFFICES ASSUME NEW h \in Goroutines, NEW k \in Nat, k > calls[h]
                  PROVE  ~InList(<<h, k>>)' /\ ~OnWire(<<h, k>>)' /\ <<h, k>> \notin popped'
      BY <2>2 DEF Fresh
    <3>1. PICK v : v = <<h, k>>
      OBVIOUS
    <3>2. ~InList(v) /\ ~OnWire(v) /\ v \notin popped
      BY <2>3, <3>1 DEF Copies, Fresh
    <3>. QED BY <2>2, <2>6, <2>8, <3>1, <3>2
  <2>11. \A h \in Goroutines : Waits(h)' => wire'[h][2] \in Values \cup {Nil}
    BY <2>3, <2>5, <2>7 DEF Copies
  <2>. QED BY <2>2, <2>3, <2>5, <2>9, <2>10, <2>11 DEF Copies
<1>. QED BY <1>1, <1>2, <1>3

\* Who pops a value finds it popped already only if its push was sent again.
LEMMA ReturnPopCopies ==
    ASSUME IInv, Copies, NEW g \in Goroutines, ReturnPop(g)
    PROVE  Copies'
<1>1. PICK x : x = wire[g][2]
  OBVIOUS
<1>2. /\ call[g] # None /\ Waits(g) /\ call[g].op \in {"lpop", "blpop"}
      /\ popped' = popped \cup ({x} \ {Nil})
      /\ repopped' = repopped \cup (({x} \ {Nil}) \cap popped)
      /\ call' = [call EXCEPT ![g] = None] /\ wire' = [wire EXCEPT ![g] = <<>>]
      /\ UNCHANGED <<use, list, flight, calls, resent>>
  BY <1>1 DEF ReturnPop, Return, Answered, Waits
<1>3. use = "queue"
  BY <1>2 DEF IInv, Callers, Caller, Sent, TypeOK, OpsOf
<1>4. \A h \in Goroutines : Waits(h)' => Waits(h) /\ wire'[h] = wire[h] /\ h # g
  <2>1. \A h \in Goroutines : Waits(h)' => Waits(h) /\ wire'[h] = wire[h]
    BY <1>2, QuietIs DEF IInv
  <2>2. ~Waits(g)'
    BY <1>2 DEF Waits, IInv, TypeOK
  <2>. QED BY <2>1, <2>2
<1>5. x # Nil => OnWire(x) /\ Gets(g, x) /\ x \in Values
  BY <1>1, <1>2, <1>3 DEF OnWire, Gets, Copies
<1>6. ASSUME NEW v
      PROVE  /\ \A h \in Goroutines : Gets(h, v)' => Gets(h, v) /\ h # g
             /\ (InList(v)' => InList(v)) /\ (OnWire(v)' => OnWire(v))
             /\ (InPush(v)' => InPush(v))
  <2>1. \A h \in Goroutines : Gets(h, v)' => Gets(h, v) /\ h # g
    BY <1>4 DEF Gets
  <2>2. (InList(v)' => InList(v)) /\ (InPush(v)' => InPush(v)) /\ (OnWire(v)' => OnWire(v))
    BY <1>2, <2>1 DEF InList, InPush, OnWire
  <2>. QED BY <2>1, <2>2
<1>7. repopped' \subseteq resent
  <2>1. x # Nil /\ x \notin resent => x \notin popped
    BY <1>3, <1>5 DEF Copies, Once
  <2>. QED BY <1>2, <1>3, <2>1 DEF Copies
<1>8. ASSUME NEW v \in Values \ resent PROVE Once(v)'
  <2>1. Once(v)
    BY <1>3 DEF Copies
  <2>2. v = x => ~InList(v) /\ ~InPush(v) /\ ~OnWire(v)'
    <3>1. v = x => \A h \in Goroutines : Gets(h, v) => h = g
      BY <1>5, <2>1, RedisAssumption DEF Once, Values
    <3>2. v = x => ~OnWire(v)'
      BY <1>6, <3>1 DEF OnWire
    <3>. QED BY <1>5, <2>1, <3>2, RedisAssumption DEF Once, Values
  <2>3. /\ \A m1, m2 \in flight' : Pushes(m1, v) /\ Pushes(m2, v) => m1 = m2
        /\ \A h, k \in Goroutines : Gets(h, v)' /\ Gets(k, v)' => h = k
        /\ \A i, j \in 1..Len(list') : list'[i] = v /\ list'[j] = v => i = j
    BY <1>2, <1>6, <2>1 DEF Once
  <2>4. v \in popped' => v \in popped \/ v = x
    BY <1>2
  <2>5. /\ InPush(v)' => ~InList(v)' /\ ~OnWire(v)' /\ v \notin popped'
        /\ InList(v)' => ~OnWire(v)' /\ v \notin popped'
        /\ OnWire(v)' => v \notin popped'
    BY <1>6, <2>1, <2>2, <2>4 DEF Once
  <2>. QED BY <2>3, <2>5 DEF Once
<1>9. Fresh'
  <2>. SUFFICES ASSUME NEW h \in Goroutines, NEW k \in Nat, k > calls[h]
                PROVE  ~InList(<<h, k>>)' /\ ~OnWire(<<h, k>>)' /\ <<h, k>> \notin popped'
    BY <1>2 DEF Fresh
  <2>1. PICK v : v = <<h, k>>
    OBVIOUS
  <2>2. v # Nil /\ ~InList(v) /\ ~OnWire(v) /\ v \notin popped
    BY <1>3, <2>1, RedisAssumption DEF Copies, Fresh
  <2>. QED BY <1>2, <1>5, <1>6, <2>1, <2>2
<1>10. \A h \in Goroutines : Waits(h)' => wire'[h][2] \in Values \cup {Nil}
  BY <1>3, <1>4 DEF Copies
<1>. QED BY <1>2, <1>3, <1>7, <1>8, <1>9, <1>10 DEF Copies

----------------------------------------------------------------------------
\* IInv holds in every state of every behaviour of the callers and the server.
THEOREM RedisInductive == Spec => []IInv
<1>1. IInv /\ [Next]_vars => IInv'
  <2>1. CASE UNCHANGED vars
    BY <2>1 DEF vars, IInv, TypeOK, Callers, Caller, Sent, LockIsTheirs, Relying, Waits,
                AnswersAreReal, NumbersArePast, Past
  <2>. QED BY <2>1, CallIInv, RetryIInv, GiveUpIInv, ReturnSetNXIInv, ReturnLockIInv,
              ReturnCompareAndDeleteIInv, ReturnUnLockIInv, ReturnIncrIInv, ReturnQueueIInv,
              RefuseIInv, SetNXIInv, CompareAndDeleteIInv, IncrIInv, OthersIInv, ExpireIInv
           DEF Next, Finished
<1>. QED BY <1>1, InitIInv, PTL DEF Spec

\* For any number of goroutines, retries and late commands, whoever was told that he has
\* the lock has it until it expires or he releases it (redis.go SetNX, CompareAndDelete).
THEOREM LockIsKept == Spec => []HolderKeepsLock
<1>1. IInv => HolderKeepsLock
  BY DEF IInv, TypeOK, LockIsTheirs, Relying, HolderKeepsLock
<1>. QED BY <1>1, RedisInductive, PTL

\* What a call says it has done was done by one of its own attempts (redis.go SetNX,
\* CompareAndDelete, Incr, Decr).
THEOREM SuccessHappened == Spec => []SuccessIsReal
<1>1. IInv => SuccessIsReal
  BY DEF IInv, AnswersAreReal, SuccessIsReal
<1>. QED BY <1>1, RedisInductive, PTL

\* Incr alone, or Decr alone, returns no number twice (redis.go Incr, Decr).
THEOREM NumbersComeOnce == Spec => []NumbersAreUnique
<1>1. IInv => NumbersAreUnique
  BY DEF IInv, NumbersArePast, NumbersAreUnique
<1>. QED BY <1>1, RedisInductive, PTL

\* For any number of retries and lost answers, a value is popped twice only if its
\* LPUSH was sent again (redis.go Lpop, BLPop).
THEOREM PopsNeverCopy == Spec => []OnlyPushesDuplicate
<1>1. Copies => OnlyPushesDuplicate
  BY DEF Copies, OnlyPushesDuplicate
<1>2. IInv /\ Copies /\ [Next]_vars => Copies'
  <2>. SUFFICES ASSUME IInv, Copies, [Next]_vars PROVE Copies'
    OBVIOUS
  <2>1. CASE UNCHANGED vars
    BY <2>1, StayCopies DEF vars, Waits, IInv, TypeOK
  <2>2. ASSUME NEW g \in Goroutines,
               \/ GiveUp(g) \/ ReturnRefusal(g) \/ ReturnSetNX(g) \/ ReturnLock(g)
               \/ ReturnCompareAndDelete(g) \/ ReturnUnLock(g) \/ ReturnIncr(g) \/ ReturnPush(g)
        PROVE  Copies'
    BY <2>2, ReturnCopies DEF GiveUp, ReturnRefusal, ReturnSetNX, ReturnLock,
          ReturnCompareAndDelete, ReturnUnLock, ReturnIncr, ReturnPush, returned
  <2>3. ASSUME NEW m \in flight, Get(m) \/ Del(m) \/ SetNX(m) \/ CompareAndDelete(m) \/ Incr(m)
        PROVE  Copies'
    <3>1. m.op \notin {"lpush", "lpop", "blpop"} /\ list' = list
      BY <2>3 DEF Get, Del, SetNX, CompareAndDelete, Incr, Execute
    <3>2. use # "queue"
      BY <3>1, FlightIs, OpsAre DEF Sent, IInv
    <3>. QED BY <2>3, <3>1, <3>2, ExecuteCopies DEF Get, Del, SetNX, CompareAndDelete, Incr
  <2>4. ASSUME NEW m \in flight, Refuse(m) PROVE Copies'
    <3>1. PICK op : op = m.op
      OBVIOUS
    <3>2. PICK r : r = <<"err">>
      OBVIOUS
    <3>3. Len(r) # 2
      BY <3>2
    <3>4. list' = list /\ Execute(m, op, r, FALSE)
      BY <2>4, <3>1, <3>2 DEF Refuse
    <3>. QED BY <3>3, <3>4, ExecuteCopies
  <2>5. CASE Expire
    BY <2>5, StayCopies DEF Expire, client, returned, Waits, IInv, TypeOK
  <2>. QED BY <2>1, <2>2, <2>3, <2>4, <2>5, CallCopies, RetryCopies, UnLockGotCopies,
              PushCopies, PopCopies, ReturnPopCopies DEF Next, Finished
<1>. QED BY <1>1, <1>2, InitCopies, RedisInductive, PTL DEF Spec

----------------------------------------------------------------------------
(* Redis implements Lease: only requests, grants, releases and the answer  *)
(* "true" show; attempts that are sent again or come late do not.          *)

\* What a goroutine asked for the lock with, and what it releases (redis.go SetNX,
\* CompareAndDelete).
Asks ==
    /\ \A g \in Goroutines : token[g] = Nil \/ \E k \in 1..MaxCalls : token[g] = <<g, k>>
    /\ \A m \in flight : m.op = "setnx" => \E k \in 1..MaxCalls :
                                              token[m.g] = <<m.g, k>> /\ m.n <= k
    /\ \A g \in Goroutines : call[g] # None /\ call[g].op = "cad" =>
                                call[g].val = token[g] /\ token[g] # Nil

\* The releases that are on their way.
Cads == {x \in flight : x.op = "cad"}

Asked == [g \in Goroutines |-> Owned(IF token[g] = Nil THEN 0 ELSE token[g][2], 0)]
Lent == Owned(lock, Nil)
Releases == {m.val : m \in Cads}
Holders == Owned(holds, {})
Lapsed == Owned(expired, {})

LEMMA InitAsks == Init => Asks
BY DEF Init, Asks

\* A step that sends nothing and asks for nothing.
LEMMA StayAsks ==
    ASSUME Asks, token' = token, flight' \subseteq flight,
           \A g \in Goroutines : call'[g] = call[g] \/ call'[g] = None
    PROVE  Asks'
BY DEF Asks

LEMMA CallAsks ==
    ASSUME IInv, Asks, NEW g \in Goroutines, NEW op \in OpsOf[use], Call(g, op)
    PROVE  Asks'
<1> DEFINE n == calls[g] + 1
           fresh == op \in {"setnx", "lock"}
           val == IF op = "cad" THEN token[g] ELSE <<g, n>>
<1>1. PICK m : m = [g |-> g, n |-> n, op |-> op, val |-> val, try |-> 1]
  OBVIOUS
<1>2. /\ m.g = g /\ m.n = n /\ m.op = op /\ m.val = val
      /\ n \in Nat /\ n \in 1..MaxCalls /\ calls[g] \in Nat
  BY <1>1, RedisAssumption DEF Call, IInv, TypeOK
<1>3. /\ call' = [call EXCEPT ![g] = m] /\ flight' = flight \cup {m}
      /\ token' = (IF fresh THEN [token EXCEPT ![g] = val] ELSE token)
      /\ (op = "cad" => token[g] # Nil)
  BY <1>1 DEF Call, Send
<1>4. /\ call'[g] = m /\ \A h \in Goroutines \ {g} : call'[h] = call[h]
      /\ token'[g] = (IF fresh THEN <<g, n>> ELSE token[g])
      /\ \A h \in Goroutines \ {g} : token'[h] = token[h]
  BY <1>2, <1>3 DEF IInv, TypeOK
<1>5. \A h \in Goroutines : token'[h] = Nil \/ \E k \in 1..MaxCalls : token'[h] = <<h, k>>
  BY <1>2, <1>4 DEF Asks
<1>6. ASSUME NEW x \in flight', x.op = "setnx"
      PROVE  \E k \in 1..MaxCalls : token'[x.g] = <<x.g, k>> /\ x.n <= k
  <2>1. CASE x = m
    BY <1>2, <1>4, <1>6, <2>1
  <2>2. CASE x \in flight
    <3>1. PICK k \in 1..MaxCalls : token[x.g] = <<x.g, k>> /\ x.n <= k
      BY <1>6, <2>2 DEF Asks
    <3>2. x.g \in Goroutines /\ x.n \in 1..calls[x.g]
      BY <2>2, FlightIs DEF Sent
    <3>3. CASE x.g = g /\ fresh
      <4>1. token'[x.g] = <<x.g, n>> /\ x.n <= n
        BY <1>2, <1>4, <3>2, <3>3
      <4>. QED BY <1>2, <4>1
    <3>4. CASE ~(x.g = g /\ fresh)
      BY <1>4, <3>1, <3>2, <3>4
    <3>. QED BY <3>3, <3>4
  <2>. QED BY <1>3, <2>1, <2>2
<1>7. \A h \in Goroutines : call'[h] # None /\ call'[h].op = "cad" =>
                               call'[h].val = token'[h] /\ token'[h] # Nil
  <2>1. op = "cad" => call'[g].val = token'[g] /\ token'[g] # Nil
    BY <1>2, <1>3, <1>4
  <2>. QED BY <1>2, <1>4, <2>1 DEF Asks
<1>. QED BY <1>5, <1>6, <1>7 DEF Asks

\* A call goes on with another attempt, or with UnLock's second command.
LEMMA ResendAsks ==
    ASSUME IInv, Asks, NEW g \in Goroutines, call[g] # None, NEW m \in Attempt, Send(g, m),
           m.g = g, m.n = call[g].n, m.val = call[g].val,
           m.op \in {"setnx", "cad"} => m.op = call[g].op, token' = token
    PROVE  Asks'
<1>1. /\ flight' = flight \cup {m} /\ call'[g] = m
      /\ \A h \in Goroutines \ {g} : call'[h] = call[h]
  BY DEF Send, IInv, TypeOK
<1>2. m.op = "setnx" => \E k \in 1..MaxCalls : token[g] = <<g, k>> /\ m.n <= k
  <2>. SUFFICES ASSUME m.op = "setnx"
                PROVE  \E k \in 1..MaxCalls : token[g] = <<g, k>> /\ m.n <= k
    OBVIOUS
  <2>1. token[g] = <<g, calls[g]>> /\ m.n = calls[g] /\ calls[g] \in Nat
    BY DEF IInv, Callers, Caller, TypeOK
  <2>2. PICK k \in 1..MaxCalls : token[g] = <<g, k>>
    <3>1. <<g, calls[g]>> \in Goroutines \X Nat
      BY <2>1
    <3>2. token[g] # Nil
      BY <2>1, <3>1, RedisAssumption
    <3>. QED BY <3>2 DEF Asks
  <2>3. k = calls[g]
    BY <2>1, <2>2
  <2>. QED BY <2>1, <2>2, <2>3
<1>3. \A x \in flight' : x.op = "setnx" => \E k \in 1..MaxCalls :
                                              token[x.g] = <<x.g, k>> /\ x.n <= k
  BY <1>1, <1>2 DEF Asks
<1>. QED BY <1>1, <1>3 DEF Asks

LEMMA StepAsks ==
    ASSUME IInv, Asks, [Next]_vars
    PROVE  Asks'
<1>1. ASSUME NEW g \in Goroutines, Retry(g) PROVE Asks'
  <2>1. PICK m : m = [call[g] EXCEPT !.try = @ + 1]
    OBVIOUS
  <2>2. call[g] # None /\ Send(g, m) /\ token' = token
    BY <1>1, <2>1 DEF Retry
  <2>3. call[g] \in Attempt /\ call[g].g = g
    BY <2>2 DEF IInv, TypeOK, Callers, Caller
  <2>4. m \in Attempt /\ m.g = g /\ m.n = call[g].n /\ m.op = call[g].op /\ m.val = call[g].val
    BY <2>1, <2>3 DEF Attempt
  <2>. QED BY <2>2, <2>4, ResendAsks
<1>2. ASSUME NEW g \in Goroutines, UnLockGot(g) PROVE Asks'
  <2>1. CASE Return(g, "err", FALSE)
    BY <2>1, StayAsks DEF Return, IInv, TypeOK
  <2>2. CASE Send(g, [call[g] EXCEPT !.op = "del", !.try = 1]) /\ token' = token
    <3>1. PICK m : m = [call[g] EXCEPT !.op = "del", !.try = 1]
      OBVIOUS
    <3>2. call[g] # None /\ call[g] \in Attempt /\ call[g].g = g
      BY <1>2 DEF UnLockGot, Answered, IInv, TypeOK, Callers, Caller
    <3>3. m \in Attempt /\ m.g = g /\ m.n = call[g].n /\ m.op = "del" /\ m.val = call[g].val
      BY <3>1, <3>2 DEF Attempt, Ops
    <3>. QED BY <2>2, <3>1, <3>2, <3>3, ResendAsks
  <2>. QED BY <1>2, <2>1, <2>2 DEF UnLockGot
<1>3. ASSUME NEW g \in Goroutines, NEW r, NEW relies, Return(g, r, relies) PROVE Asks'
  BY <1>3, StayAsks DEF Return, IInv, TypeOK
<1>4. ASSUME NEW m \in flight, NEW op, NEW r, NEW effect, Execute(m, op, r, effect) PROVE Asks'
  BY <1>4, StayAsks DEF Execute, client
<1>5. ASSUME NEW m \in flight, Refuse(m) PROVE Asks'
  BY <1>5, StayAsks DEF Refuse, Execute, client
<1>6. CASE Expire \/ UNCHANGED vars
  BY <1>6, StayAsks DEF Expire, client, vars
<1>7. ASSUME NEW m \in flight,
             SetNX(m) \/ CompareAndDelete(m) \/ Get(m) \/ Del(m) \/ Incr(m) \/ Push(m) \/ Pop(m)
      PROVE  Asks'
  BY <1>4, <1>7 DEF SetNX, CompareAndDelete, Get, Del, Incr, Push, Pop
<1>8. ASSUME NEW g \in Goroutines,
             \/ GiveUp(g) \/ ReturnRefusal(g) \/ ReturnSetNX(g) \/ ReturnLock(g)
             \/ ReturnCompareAndDelete(g) \/ ReturnUnLock(g) \/ ReturnIncr(g)
             \/ ReturnPush(g) \/ ReturnPop(g)
      PROVE  Asks'
  BY <1>3, <1>8 DEF GiveUp, ReturnRefusal, ReturnSetNX, ReturnLock, ReturnCompareAndDelete,
                    ReturnUnLock, ReturnIncr, ReturnPush, ReturnPop
<1>. QED BY <1>1, <1>2, <1>5, <1>6, <1>7, <1>8, CallAsks DEF Next, Finished

\* What Lease sees stays as it is.
LEMMA LeaseStays ==
    ASSUME UNCHANGED <<use, token, lock, holds, expired>>, Cads' = Cads
    PROVE  UNCHANGED <<Asked, Lent, Releases, Holders, Lapsed>>
BY DEF Asked, Lent, Releases, Holders, Lapsed, Owned

\* Lease sees nothing of a key that is not a lock with an owner.
LEMMA OthersAreUnseen ==
    ASSUME IInv, IInv', use # "owned", use' = use
    PROVE  UNCHANGED <<Asked, Lent, Releases, Holders, Lapsed>>
<1>1. Cads = {} /\ Cads' = {}
  <2>1. \A m \in flight : m.op # "cad"
    BY FlightIs DEF Sent, IInv, TypeOK, OpsOf
  <2>2. TypeOK' /\ \A m \in flight' : Sent(m)'
    BY DEF IInv, Callers
  <2>3. \A m \in flight' : m.op \in OpsOf[use] \/ m.op = "del"
    BY <2>2 DEF Sent
  <2>4. \A m \in flight' : m.op # "cad"
    BY <2>3 DEF OpsOf, IInv, TypeOK
  <2>. QED BY <2>1, <2>4 DEF Cads
<1>. QED BY <1>1 DEF Asked, Lent, Releases, Holders, Lapsed, Owned

\* What the number of a goroutine's request is.
LEMMA AskedIs ==
    ASSUME IInv, Asks, use = "owned", NEW g \in Goroutines
    PROVE  /\ Asked[g] \in Nat
           /\ token[g] = Nil => Asked[g] = 0
           /\ token[g] # Nil => Asked[g] \in 1..MaxCalls /\ token[g] = <<g, Asked[g]>>
           /\ g \in Holders => token[g] # Nil
<1>1. token[g] = Nil => Asked[g] = 0
  BY DEF Asked, Owned
<1>2. ASSUME token[g] # Nil PROVE Asked[g] \in 1..MaxCalls /\ token[g] = <<g, Asked[g]>>
  <2>1. PICK k \in 1..MaxCalls : token[g] = <<g, k>>
    BY <1>2 DEF Asks
  <2>2. token[g][2] = k
    BY <2>1
  <2>3. Asked[g] = k
    BY <1>2, <2>2 DEF Asked, Owned
  <2>. QED BY <2>1, <2>3
<1>3. g \in Holders => token[g] # Nil
  BY RelyingIs DEF Holders, Owned, Relying
<1>. QED BY <1>1, <1>2, <1>3, RedisAssumption

\* Whoever asks for the lock does so with a number of his own.
LEMMA CallIsAsk ==
    ASSUME IInv, Asks, use = "owned", NEW g \in Goroutines, Call(g, "setnx")
    PROVE  Promise!Ask(g)
<1>1. PICK n : n = calls[g] + 1
  OBVIOUS
<1>2. n \in 1..MaxCalls /\ n > calls[g] /\ calls[g] \in Nat
  BY <1>1, RedisAssumption DEF Call, IInv, TypeOK
<1>3. PICK m : m = [g |-> g, n |-> n, op |-> "setnx", val |-> <<g, n>>, try |-> 1]
  OBVIOUS
<1>4. /\ g \notin holds /\ holds' = holds /\ token' = [token EXCEPT ![g] = <<g, n>>]
      /\ flight' = flight \cup {m} /\ m.op = "setnx" /\ UNCHANGED <<use, lock, expired>>
  BY <1>1, <1>3 DEF Call, Send
<1>5. Asked[g] < n
  <2>1. token[g] = Nil \/ \E k \in 0..calls[g] : token[g] = <<g, k>>
    BY DEF IInv, Callers, Caller
  <2>2. CASE token[g] = Nil
    BY <1>2, <2>2, AskedIs
  <2>3. ASSUME token[g] # Nil, NEW k \in 0..calls[g], token[g] = <<g, k>> PROVE Asked[g] < n
    <3>1. Asked[g] = k
      BY <2>3, AskedIs
    <3>. QED BY <1>2, <3>1
  <2>. QED BY <2>1, <2>2, <2>3
<1>6. Asked' = [Asked EXCEPT ![g] = n]
  <2>1. <<g, n>> \in Goroutines \X Nat /\ <<g, n>>[2] = n
    BY <1>2
  <2>2. token'[g] = <<g, n>> /\ token'[g] # Nil
    BY <1>4, <2>1, RedisAssumption DEF IInv, TypeOK
  <2>3. \A h \in Goroutines \ {g} : token'[h] = token[h]
    BY <1>4 DEF IInv, TypeOK
  <2>4. Asked'[g] = n /\ \A h \in Goroutines \ {g} : Asked'[h] = Asked[h]
    BY <1>4, <2>1, <2>2, <2>3 DEF Asked, Owned
  <2>5. Asked = [h \in Goroutines |-> Asked[h]] /\ Asked' = [h \in Goroutines |-> Asked'[h]]
    BY DEF Asked
  <2>. QED BY <2>4, <2>5
<1>7. Cads' = Cads
  BY <1>4 DEF Cads
<1>8. UNCHANGED <<Lent, Releases, Holders, Lapsed>> /\ g \notin Holders
  BY <1>4, <1>7 DEF Lent, Releases, Holders, Lapsed, Owned
<1>. QED BY <1>2, <1>5, <1>6, <1>8
         DEF Promise!Ask, Asked, Lent, Releases, Holders, Lapsed, Cads

\* A request, however old, is granted when nobody has the lock.
LEMMA SetNXIsGrant ==
    ASSUME IInv, Asks, use = "owned", NEW m \in flight, SetNX(m), lock = Nil
    PROVE  Promise!Grant(m.g)
<1>1. PICK op \in {"setnx", "lock"} : Execute(m, op, <<"ok", TRUE>>, TRUE) /\ lock' = m.val
  BY DEF SetNX
<1>2. /\ m.op = op /\ flight' = flight \ {m}
      /\ UNCHANGED <<use, token, holds, expired>>
  BY <1>1 DEF Execute, client
<1>3. m.op = "setnx" /\ m.g \in Goroutines /\ m.val = <<m.g, m.n>> /\ m.n \in Nat \ {0}
  BY <1>2, FlightIs, OpsAre DEF IInv, Sent, Attempt
<1>4. m.n \in 1..MaxCalls /\ m.n <= Asked[m.g]
  <2>1. PICK k \in 1..MaxCalls : token[m.g] = <<m.g, k>> /\ m.n <= k
    BY <1>3 DEF Asks
  <2>2. <<m.g, k>> \in Goroutines \X Nat
    BY <1>3, RedisAssumption
  <2>3. token[m.g] # Nil
    BY <2>1, <2>2, RedisAssumption
  <2>4. Asked[m.g] = k
    BY <1>3, <2>1, <2>3, AskedIs
  <2>. QED BY <1>3, <2>1, <2>4, RedisAssumption
<1>5. Cads' = Cads
  BY <1>2, <1>3 DEF Cads
<1>6. UNCHANGED <<Asked, Releases, Holders, Lapsed>>
  BY <1>2, <1>5 DEF Asked, Releases, Holders, Lapsed, Owned
<1>7. Lent = Nil /\ Lent' = <<m.g, m.n>>
  BY <1>1, <1>2, <1>3 DEF Lent, Owned
<1>. QED BY <1>4, <1>6, <1>7 DEF Promise!Grant, Asked, Lent, Releases, Holders, Lapsed, Cads

\* An executed release goes from those that are on their way, unless another attempt of
\* the same release is.
LEMMA ReleasesAre ==
    ASSUME NEW m \in flight, m.op = "cad", flight' = flight \ {m}
    PROVE  m.val \in Releases /\ Releases' \in {Releases, Releases \ {m.val}}
<1>1. Cads' = Cads \ {m} /\ m \in Cads
  BY DEF Cads
<1>2. m.val \in Releases /\ Releases' \subseteq Releases
  BY <1>1 DEF Releases
<1>3. ASSUME NEW v \in Releases, v # m.val PROVE v \in Releases'
  BY <1>1, <1>3 DEF Releases
<1>. QED BY <1>2, <1>3

\* A release comes to its request's lock, or to nothing.
LEMMA CompareIsFree ==
    ASSUME IInv, use = "owned", NEW m \in flight, CompareAndDelete(m)
    PROVE  Promise!Free \/ Promise!Forget \/ UNCHANGED Promise!leaseVars
<1>1. /\ m.op = "cad" /\ flight' = flight \ {m} /\ UNCHANGED <<use, token, holds, expired>>
      /\ (lock = m.val /\ lock' = Nil) \/ lock' = lock
  BY DEF CompareAndDelete, Execute, client
<1>2. m.val \in Releases /\ Releases' \in {Releases, Releases \ {m.val}}
  BY <1>1, ReleasesAre
<1>3. UNCHANGED <<Asked, Holders, Lapsed>> /\ Lent = lock /\ Lent' = lock'
  BY <1>1 DEF Asked, Lent, Holders, Lapsed, Owned
<1>4. CASE lock = m.val /\ lock' = Nil
  BY <1>2, <1>3, <1>4 DEF Promise!Free, Asked, Lent, Releases, Holders, Lapsed, Cads
<1>5. CASE Lent' = Lent /\ Releases' = Releases
  BY <1>3, <1>5 DEF Promise!leaseVars, Asked, Lent, Releases, Holders, Lapsed, Cads
<1>6. CASE Lent' = Lent /\ Releases' = Releases \ {m.val}
  BY <1>2, <1>3, <1>6 DEF Promise!Forget, Asked, Lent, Releases, Holders, Lapsed, Cads
<1>. QED BY <1>1, <1>2, <1>3, <1>4, <1>5, <1>6

LEMMA RefuseIsForget ==
    ASSUME IInv, use = "owned", NEW m \in flight, Refuse(m)
    PROVE  Promise!Forget \/ UNCHANGED Promise!leaseVars
<1>1. flight' = flight \ {m} /\ UNCHANGED <<use, token, holds, expired, lock>>
  BY DEF Refuse, Execute, client
<1>2. UNCHANGED <<Asked, Lent, Holders, Lapsed>>
  BY <1>1 DEF Asked, Lent, Holders, Lapsed, Owned
<1>3. Releases' = Releases \/ \E v \in Releases : Releases' = Releases \ {v}
  <2>1. CASE m.op = "cad"
    BY <1>1, <2>1, ReleasesAre
  <2>2. CASE m.op # "cad"
    <3>1. Cads' = Cads
      BY <1>1, <2>2 DEF Cads
    <3>. QED BY <3>1 DEF Releases
  <2>. QED BY <2>1, <2>2
<1>4. CASE Releases' = Releases
  BY <1>2, <1>4 DEF Promise!leaseVars, Asked, Lent, Releases, Holders, Lapsed, Cads
<1>5. CASE \E v \in Releases : Releases' = Releases \ {v}
  BY <1>2, <1>5 DEF Promise!Forget, Asked, Lent, Releases, Holders, Lapsed, Cads
<1>. QED BY <1>3, <1>4, <1>5

\* A release is sent, or sent again, with the value its goroutine asked with.
LEMMA SendIsRelease ==
    ASSUME IInv, Asks, use = "owned", NEW g \in Goroutines, NEW m,
           m.op = "cad", m.val = token[g], token[g] # Nil, flight' = flight \cup {m},
           holds' = holds \ {g}, UNCHANGED <<use, token, lock, expired>>
    PROVE  Promise!Release(g)
<1>1. Asked[g] # 0 /\ token[g] = <<g, Asked[g]>>
  BY AskedIs
<1>2. Releases' = Releases \cup {<<g, Asked[g]>>}
  <2>1. Cads' = Cads \cup {m}
    BY DEF Cads
  <2>. QED BY <1>1, <2>1 DEF Releases
<1>3. UNCHANGED <<Asked, Lent, Lapsed>> /\ Holders' = Holders \ {g}
  BY DEF Asked, Lent, Holders, Lapsed, Owned
<1>. QED BY <1>1, <1>2, <1>3
         DEF Promise!Release, Promise!Last, Asked, Lent, Releases, Holders, Lapsed, Cads

\* Who is told "true" has the lock, or had it until it expired, and has not released it.
LEMMA TrueIsTold ==
    ASSUME IInv, Asks, use = "owned", NEW g \in Goroutines, ReturnSetNX(g), wire[g][2] = TRUE
    PROVE  Promise!Told(g)
<1>1. /\ Relying(g) /\ holds' = holds \cup {g}
      /\ UNCHANGED <<use, token, lock, expired, flight>>
  BY DEF ReturnSetNX, Return, Answered, Relying, Waits
<1>2. token[g] = <<g, calls[g]>> /\ token[g] # Nil /\ calls[g] \in Nat
  BY <1>1, RelyingIs DEF IInv, TypeOK
<1>3. token[g] = <<g, Asked[g]>>
  BY <1>2, AskedIs
<1>4. Lent = <<g, Asked[g]>> \/ <<g, Asked[g]>> \in Lapsed
  BY <1>1, <1>3 DEF IInv, LockIsTheirs, Lent, Lapsed, Owned
<1>5. <<g, Asked[g]>> \notin Releases
  <2>. SUFFICES ASSUME NEW m \in flight, m.op = "cad", m.val = token[g] PROVE FALSE
    BY <1>3 DEF Releases, Cads
  <2>1. m.n \in 1..calls[m.g] /\ \E k \in 0..(m.n - 1) : m.val = <<m.g, k>>
    BY FlightIs DEF Sent
  <2>2. PICK k \in 0..(m.n - 1) : m.val = <<m.g, k>>
    BY <2>1
  <2>3. m.g = g /\ k = calls[g]
    BY <1>2, <2>2
  <2>. QED BY <1>2, <2>1, <2>2, <2>3
<1>6. Cads' = Cads
  BY <1>1 DEF Cads
<1>7. UNCHANGED <<Asked, Lent, Releases, Lapsed>> /\ Holders' = Holders \cup {g}
  BY <1>1, <1>6 DEF Asked, Lent, Releases, Holders, Lapsed, Owned
<1>. QED BY <1>4, <1>5, <1>7
         DEF Promise!Told, Promise!Last, Asked, Lent, Releases, Holders, Lapsed, Cads

LEMMA ExpireIsLapse ==
    ASSUME use = "owned", Expire
    PROVE  Promise!Lapse
<1>1. /\ lock # Nil /\ lock' = Nil /\ expired' = expired \cup {lock}
      /\ UNCHANGED <<use, token, holds, flight>>
  BY DEF Expire, client
<1>2. Cads' = Cads
  BY <1>1 DEF Cads
<1>3. /\ UNCHANGED <<Asked, Releases, Holders>> /\ Lent # Nil /\ Lent' = Nil
      /\ Lapsed' = Lapsed \cup {Lent}
  BY <1>1, <1>2 DEF Asked, Lent, Releases, Holders, Lapsed, Owned
<1>. QED BY <1>3 DEF Promise!Lapse, Asked, Lent, Releases, Holders, Lapsed, Cads

LEMMA CadSendIsRelease ==
    ASSUME IInv, Asks, use = "owned", NEW g \in Goroutines,
           Call(g, "cad") \/ (Retry(g) /\ call[g].op = "cad")
    PROVE  Promise!Release(g)
<1>1. CASE Call(g, "cad")
  <2>1. PICK m : m = [g |-> g, n |-> calls[g] + 1, op |-> "cad", val |-> token[g], try |-> 1]
    OBVIOUS
  <2>2. m.op = "cad" /\ m.val = token[g]
    BY <2>1
  <2>3. /\ token[g] # Nil /\ flight' = flight \cup {m} /\ holds' = holds \ {g}
        /\ UNCHANGED <<use, token, lock, expired>>
    BY <1>1, <2>1 DEF Call, Send
  <2>. QED BY <2>2, <2>3, SendIsRelease
<1>2. CASE Retry(g) /\ call[g].op = "cad"
  <2>1. PICK m : m = [call[g] EXCEPT !.try = @ + 1]
    OBVIOUS
  <2>2. /\ call[g] # None /\ flight' = flight \cup {m}
        /\ UNCHANGED <<use, token, lock, holds, expired>>
    BY <1>2, <2>1 DEF Retry, Send
  <2>3. call[g] \in Attempt
    BY <2>2 DEF IInv, TypeOK
  <2>4. m.op = "cad" /\ m.val = call[g].val
    BY <1>2, <2>1, <2>3 DEF Attempt
  <2>5. call[g].val = token[g] /\ token[g] # Nil
    BY <1>2, <2>2 DEF Asks
  <2>6. holds' = holds \ {g}
    BY <2>2 DEF IInv, Callers, Caller
  <2>. QED BY <2>2, <2>4, <2>5, <2>6, SendIsRelease
<1>. QED BY <1>1, <1>2

\* A step of redis.go or of the server is, for who sees only who asked, has and relies
\* on the lock, a step of Lease or no step.
LEMMA StepIsLease ==
    ASSUME IInv, IInv', Asks, [Next]_vars
    PROVE  [Promise!LeaseNext]_(Promise!leaseVars)
<1>1. ASSUME UNCHANGED <<use, token, lock, holds, expired>>, Cads' = Cads
      PROVE  UNCHANGED Promise!leaseVars
  <2>1. UNCHANGED <<Asked, Lent, Releases, Holders, Lapsed>>
    BY <1>1, LeaseStays
  <2>. QED BY <2>1 DEF Promise!leaseVars, Asked, Lent, Releases, Holders, Lapsed, Cads
<1>2. CASE use # "owned"
  <2>1. use' = use
    BY DEF Next, vars, Call, Retry, GiveUp, ReturnRefusal, ReturnSetNX, ReturnLock,
           ReturnCompareAndDelete, UnLockGot, ReturnUnLock, ReturnIncr, ReturnPush, ReturnPop,
           Return, Refuse, SetNX, CompareAndDelete, Get, Del, Incr, Push, Pop, Execute, Expire,
           Finished
  <2>2. UNCHANGED <<Asked, Lent, Releases, Holders, Lapsed>>
    BY <1>2, <2>1, OthersAreUnseen
  <2>. QED BY <2>2 DEF Promise!leaseVars, Asked, Lent, Releases, Holders, Lapsed, Cads
<1>3. CASE use = "owned"
  <2>1. OpsOf[use] = {"setnx", "cad"}
    BY <1>3, OpsAre DEF IInv
  <2>2. \A g \in Goroutines : call[g] # None => call[g].op \in {"setnx", "cad"}
    BY <1>3, <2>1 DEF IInv, Callers, Caller, Sent
  <2>3. \A m \in flight : m.op \in {"setnx", "cad"}
    BY <1>3, <2>1, FlightIs DEF Sent
  <2>4. ASSUME NEW g \in Goroutines, NEW op \in OpsOf[use], Call(g, op)
        PROVE  Promise!Ask(g) \/ Promise!Release(g)
    BY <1>3, <2>1, <2>4, CallIsAsk, CadSendIsRelease
  <2>5. ASSUME NEW g \in Goroutines, Retry(g)
        PROVE  Promise!Release(g) \/ UNCHANGED Promise!leaseVars
    <3>1. CASE call[g].op = "cad"
      BY <1>3, <2>5, <3>1, CadSendIsRelease
    <3>2. CASE call[g].op # "cad"
      <4>1. PICK m : m = [call[g] EXCEPT !.try = @ + 1]
        OBVIOUS
      <4>2. /\ call[g] # None /\ flight' = flight \cup {m}
            /\ UNCHANGED <<use, token, lock, holds, expired>>
        BY <2>5, <4>1 DEF Retry, Send
      <4>3. m.op # "cad"
        BY <3>2, <4>1, <4>2 DEF IInv, TypeOK, Attempt
      <4>4. Cads' = Cads
        BY <4>2, <4>3 DEF Cads
      <4>. QED BY <1>1, <4>2, <4>4
    <3>. QED BY <3>1, <3>2
  <2>6. ASSUME NEW g \in Goroutines, NEW r, Return(g, r, FALSE)
        PROVE  UNCHANGED Promise!leaseVars
    BY <1>1, <2>6 DEF Return, Cads
  <2>7. ASSUME NEW g \in Goroutines, ReturnSetNX(g)
        PROVE  Promise!Told(g) \/ UNCHANGED Promise!leaseVars
    <3>1. CASE wire[g][2] = TRUE
      BY <1>3, <2>7, <3>1, TrueIsTold
    <3>2. CASE wire[g][2] # TRUE
      <4>1. Return(g, "false", FALSE)
        BY <2>7, <3>2 DEF ReturnSetNX, Return
      <4>. QED BY <2>6, <4>1
    <3>. QED BY <3>1, <3>2
  <2>8. ASSUME NEW g \in Goroutines, GiveUp(g) \/ ReturnRefusal(g) \/ ReturnCompareAndDelete(g)
        PROVE  UNCHANGED Promise!leaseVars
    BY <2>6, <2>8 DEF GiveUp, ReturnRefusal, ReturnCompareAndDelete
  <2>9. ASSUME NEW g \in Goroutines,
               \/ ReturnLock(g) \/ UnLockGot(g) \/ ReturnUnLock(g) \/ ReturnIncr(g)
               \/ ReturnPush(g) \/ ReturnPop(g)
        PROVE  FALSE
    BY <2>2, <2>9 DEF ReturnLock, UnLockGot, ReturnUnLock, ReturnIncr, ReturnPush, ReturnPop,
                      Answered
  <2>10. ASSUME NEW m \in flight, Get(m) \/ Del(m) \/ Incr(m) \/ Push(m) \/ Pop(m)
         PROVE  FALSE
    BY <2>3, <2>10 DEF Get, Del, Incr, Push, Pop, Execute
  <2>11. ASSUME NEW m \in flight, SetNX(m)
         PROVE  Promise!Grant(m.g) \/ UNCHANGED Promise!leaseVars
    <3>1. CASE lock = Nil
      BY <1>3, <2>11, <3>1, SetNXIsGrant
    <3>2. CASE lock # Nil
      <4>1. /\ flight' = flight \ {m} /\ m.op # "cad"
            /\ UNCHANGED <<use, token, lock, holds, expired>>
        BY <2>11, <3>2 DEF SetNX, Execute, client
      <4>2. Cads' = Cads
        BY <4>1 DEF Cads
      <4>. QED BY <1>1, <4>1, <4>2
    <3>. QED BY <3>1, <3>2
  <2>12. CASE UNCHANGED vars
    BY <1>1, <2>12 DEF vars, Cads
  <2>13. CASE \E g \in Goroutines :
                \/ \E op \in OpsOf[use] : Call(g, op)
                \/ Retry(g) \/ GiveUp(g) \/ ReturnRefusal(g) \/ ReturnSetNX(g) \/ ReturnLock(g)
                \/ ReturnCompareAndDelete(g) \/ UnLockGot(g) \/ ReturnUnLock(g)
                \/ ReturnIncr(g) \/ ReturnPush(g) \/ ReturnPop(g)
    BY <2>4, <2>5, <2>7, <2>8, <2>9, <2>13 DEF Promise!LeaseNext
  <2>14. CASE \E m \in flight :
                \/ Refuse(m) \/ SetNX(m) \/ CompareAndDelete(m)
                \/ Get(m) \/ Del(m) \/ Incr(m) \/ Push(m) \/ Pop(m)
    <3>1. \A m \in flight : m.g \in Goroutines
      BY FlightIs
    <3>. QED BY <1>3, <2>10, <2>11, <2>14, <3>1, CompareIsFree, RefuseIsForget
             DEF Promise!LeaseNext
  <2>15. CASE Expire
    BY <1>3, <2>15, ExpireIsLapse DEF Promise!LeaseNext
  <2>. QED BY <2>12, <2>13, <2>14, <2>15 DEF Next, Finished
<1>. QED BY <1>2, <1>3

\* SetNX and CompareAndDelete implement a lock that expires, for any number of
\* goroutines, retries, and commands that are executed late, twice or never (redis.go).
THEOREM RedisRefinesLease == Spec => ImplementsLease
<1>1. Init => Promise!LeaseInit
  <2>. SUFFICES ASSUME Init PROVE Promise!LeaseInit
    OBVIOUS
  <2>1. Asked = [g \in Goroutines |-> 0]
    BY DEF Init, Asked, Owned
  <2>2. Lent = Nil /\ Releases = {} /\ Holders = {} /\ Lapsed = {}
    BY DEF Init, Lent, Releases, Cads, Holders, Lapsed, Owned
  <2>. QED BY <2>1, <2>2
           DEF Promise!LeaseInit, Asked, Lent, Releases, Holders, Lapsed, Cads
<1>. QED
  BY <1>1, InitAsks, StepAsks, StepIsLease, RedisInductive, PTL
     DEF Spec, ImplementsLease, Promise!LeaseSpec

----------------------------------------------------------------------------
(* What Lease promises, for any owners and numbers.                        *)

\* Who relies on the lock has not released the request he relies on.
OwnerInv ==
    /\ asked \in [Owners -> Numbers \cup {0}] /\ holders \subseteq Owners
    /\ \A o \in holders : Last(o) \notin releases
    /\ OneOwner

\* In every implementation of Lease, whoever relies on the lock has it until his time is
\* over: no two owners rely on it at once (redis.go SetNX, CompareAndDelete).
THEOREM LeaseHasOneOwner ==
    ASSUME Numbers \subseteq Nat \ {0}, NoOne \notin Owners \X Nat
    PROVE  LeaseSpec => []OneOwner
<1>1. LeaseInit => OwnerInv
  BY DEF LeaseInit, OwnerInv, OneOwner
<1>2. OwnerInv /\ [LeaseNext]_leaseVars => OwnerInv'
  <2>. SUFFICES ASSUME OwnerInv, [LeaseNext]_leaseVars PROVE OwnerInv'
    OBVIOUS
  <2>1. ASSUME NEW o \in Owners, Ask(o) PROVE OwnerInv'
    <3>1. PICK n \in Numbers : n > asked[o] /\ asked' = [asked EXCEPT ![o] = n]
      BY <2>1 DEF Ask
    <3>2. o \notin holders /\ UNCHANGED <<lease, releases, holders, lapsed>>
      BY <2>1 DEF Ask
    <3>3. \A h \in holders : h \in Owners /\ h # o /\ asked'[h] = asked[h]
      BY <3>1, <3>2 DEF OwnerInv
    <3>4. \A h \in holders : Last(h)' = Last(h)
      BY <3>3 DEF Last
    <3>. QED BY <3>1, <3>2, <3>3, <3>4 DEF OwnerInv, OneOwner
  <2>2. ASSUME NEW o \in Owners, Grant(o) PROVE OwnerInv'
    <3>1. lease = NoOne /\ UNCHANGED <<asked, releases, holders, lapsed>>
      BY <2>2 DEF Grant
    <3>2. \A h \in holders : h \in Owners /\ asked[h] \in Nat
      <4>1. \A h \in holders : h \in Owners /\ asked[h] \in Numbers \cup {0}
        BY DEF OwnerInv
      <4>2. \A n \in Numbers \cup {0} : n \in Nat
        OBVIOUS
      <4>. QED BY <4>1, <4>2
    <3>3. \A h \in holders : Last(h) # NoOne /\ Last(h)' = Last(h)
      BY <3>1, <3>2 DEF Last
    <3>. QED BY <3>1, <3>3 DEF OwnerInv, OneOwner
  <2>3. ASSUME NEW o \in Owners, Told(o) PROVE OwnerInv'
    <3>1. /\ lease = Last(o) \/ Last(o) \in lapsed
          /\ Last(o) \notin releases /\ holders' = holders \cup {o}
          /\ UNCHANGED <<asked, lease, releases, lapsed>>
      BY <2>3 DEF Told
    <3>. QED BY <3>1 DEF OwnerInv, OneOwner, Last
  <2>4. ASSUME NEW o \in Owners, Release(o) PROVE OwnerInv'
    <3>1. /\ releases' = releases \cup {Last(o)} /\ holders' = holders \ {o}
          /\ UNCHANGED <<asked, lease, lapsed>>
      BY <2>4 DEF Release
    <3>2. \A h \in holders' : Last(h) # Last(o) /\ Last(h)' = Last(h)
      BY <3>1 DEF Last
    <3>. QED BY <3>1, <3>2 DEF OwnerInv, OneOwner
  <2>5. CASE Free
    <3>1. /\ lease \in releases /\ lease' = NoOne /\ releases' \subseteq releases
          /\ UNCHANGED <<asked, holders, lapsed>>
      BY <2>5 DEF Free
    <3>2. \A h \in holders : Last(h)' = Last(h)
      BY <3>1 DEF Last
    <3>. QED BY <3>1, <3>2 DEF OwnerInv, OneOwner
  <2>6. CASE Forget
    BY <2>6 DEF Forget, OwnerInv, OneOwner, Last
  <2>7. CASE Lapse
    BY <2>7 DEF Lapse, OwnerInv, OneOwner, Last
  <2>8. CASE UNCHANGED leaseVars
    BY <2>8 DEF leaseVars, OwnerInv, OneOwner, Last
  <2>. QED BY <2>1, <2>2, <2>3, <2>4, <2>5, <2>6, <2>7, <2>8 DEF LeaseNext
<1>3. OwnerInv => OneOwner
  BY DEF OwnerInv
<1>. QED BY <1>1, <1>2, <1>3, PTL DEF LeaseSpec
============================================================================
