---------------------------- MODULE ServerProofs ---------------------------
(*************************************************************************)
(* Proofs about the parts of a server that share no state with each      *)
(* other: the wait registry, the HTTP layer, the life of the server and  *)
(* its modules, the errors it sends, the UUIDs it makes, the settings it *)
(* starts with and its worker pool. Each of these has an inductive       *)
(* invariant of its own, named after it. The last parts are about the    *)
(* operators of decimals and of ids, which have no state.                *)
(*************************************************************************)
EXTENDS Wait, Dispatcher, Http, Lifecycle, Settings, Errors, Ids,
        DecimalArithmetic, SequenceTheorems, FiniteSetTheorems, TLAPS

----------------------------------------------------------------------------
(*************************************************************************)
(* Wait, for any waiters, triggers and ids.                              *)
(*                                                                       *)
(* Trigger sends and closes after it has given up the lock. What keeps   *)
(* answers apart is who may touch a channel: the table, as long as the   *)
(* channel is registered; then the one trigger that took it out; and     *)
(* from the send on, nobody else sends to it. Numbers of channels are    *)
(* never given twice, so a new registration of an id has another         *)
(* channel.                                                              *)
(*************************************************************************)

Channel == [id: Ids, buffer: Seq(Triggers), closed: BOOLEAN]
Numbers == 0..Len(channels)

WaitTypeOK ==
    /\ channels \in Seq(Channel)
    /\ registered \in [Ids -> Numbers]
    /\ waiter \in [Waiters -> [pc: {"idle", "waiting", "done", "panicked"}, ch: Numbers,
                               got: Triggers \cup {"none"}]]
    /\ trigger \in [Triggers -> [pc: {"idle", "send", "close", "done"}, id: Ids, ch: Numbers]]

\* A registered channel is its id's, empty and open, and in no trigger's hands
\* (wait.go Register).
RegisteredIsFresh ==
    \A i \in Ids : registered[i] # 0 =>
        LET c == registered[i] IN
        /\ channels[c].id = i /\ channels[c].buffer = <<>> /\ ~channels[c].closed
        /\ \A t \in Triggers : trigger[t].ch # c

\* A trigger's channel is its id's and nobody else's (wait.go Trigger).
TriggersOwnTheirs ==
    \A t \in Triggers :
        LET c == trigger[t].ch IN
        /\ trigger[t].pc = "idle" => c = 0
        /\ trigger[t].pc = "send" => c # 0 /\ channels[c].buffer = <<>> /\ ~channels[c].closed
        /\ trigger[t].pc = "close" => c # 0 /\ ~channels[c].closed
        /\ c # 0 => /\ channels[c].id = trigger[t].id
                    /\ \A u \in Triggers \ {t} : trigger[u].ch # c

\* What lies in a channel is from the trigger that has it (wait.go Trigger).
BuffersAreOwned ==
    \A c \in 1..Len(channels) : channels[c].buffer # <<>> =>
        \E t \in Triggers : channels[c].buffer = <<t>> /\ trigger[t].ch = c

\* A waiter waits on a channel, and what it got is from the trigger that had it.
WaitersGotTheirs ==
    \A w \in Waiters :
        /\ waiter[w].pc \in {"idle", "waiting", "panicked"} => waiter[w].got = "none"
        /\ waiter[w].pc = "waiting" => waiter[w].ch # 0
        /\ waiter[w].got # "none" =>
             waiter[w].ch # 0 /\ trigger[waiter[w].got].ch = waiter[w].ch

\* The inductive invariant of wait.go.
WaitInv == WaitTypeOK /\ RegisteredIsFresh /\ TriggersOwnTheirs /\ BuffersAreOwned /\ WaitersGotTheirs

----------------------------------------------------------------------------
LEMMA WaitInitInv == WaitInit => WaitInv
<1>. SUFFICES ASSUME WaitInit PROVE WaitInv
  OBVIOUS
<1>1. WaitTypeOK
  <2>1. channels \in Seq(Channel) /\ Len(channels) = 0
    BY EmptySeq DEF WaitInit
  <2>. QED BY <2>1 DEF WaitInit, WaitTypeOK, Numbers
<1>2. RegisteredIsFresh /\ TriggersOwnTheirs /\ WaitersGotTheirs
  BY DEF WaitInit, RegisteredIsFresh, TriggersOwnTheirs, WaitersGotTheirs
<1>3. BuffersAreOwned
  BY DEF WaitInit, BuffersAreOwned
<1>. QED BY <1>1, <1>2, <1>3 DEF WaitInv

\* Register gives its id a channel that nobody has had.
LEMMA RegisterInv ==
    ASSUME WaitInv, NEW w \in Waiters, NEW i \in Ids, Register(w, i)
    PROVE  WaitInv'
<1>. USE DEF WaitInv
<1>1. CASE registered[i] # 0
  <2>1. /\ waiter' = [waiter EXCEPT ![w].pc = "panicked"] /\ waiter[w].pc = "idle"
        /\ UNCHANGED <<registered, channels, trigger>>
    BY <1>1 DEF Register
  <2>2. WaitTypeOK'
    BY <2>1 DEF WaitTypeOK, Numbers
  <2>3. RegisteredIsFresh' /\ TriggersOwnTheirs' /\ BuffersAreOwned'
    BY <2>1 DEF RegisteredIsFresh, TriggersOwnTheirs, BuffersAreOwned
  <2>4. WaitersGotTheirs'
    BY <2>1 DEF WaitersGotTheirs, WaitTypeOK
  <2>. QED BY <2>2, <2>3, <2>4
<1>2. CASE registered[i] = 0
  <2> DEFINE new == [id |-> i, buffer |-> <<>>, closed |-> FALSE]
             n == Len(channels) + 1
  <2>1. /\ channels' = Append(channels, new)
        /\ registered' = [registered EXCEPT ![i] = Len(channels')]
        /\ waiter' = [waiter EXCEPT ![w] = [@ EXCEPT !.pc = "waiting", !.ch = Len(channels')]]
        /\ waiter[w].pc = "idle" /\ trigger' = trigger
    BY <1>2 DEF Register
  <2>2. new \in Channel
    BY EmptySeq DEF Channel
  <2>3. /\ channels' \in Seq(Channel) /\ Len(channels') = n
        /\ \A c \in 1..Len(channels) : channels'[c] = channels[c]
        /\ channels'[n] = new
        /\ Len(channels) \in Nat
    BY <2>1, <2>2, AppendProperties DEF WaitTypeOK
  <2>4. WaitTypeOK'
    <3>1. Numbers' = 0..n /\ Numbers \subseteq 0..n /\ n \in 0..n
      BY <2>3 DEF Numbers
    <3>2. registered' \in [Ids -> 0..n]
      BY <2>1, <2>3, <3>1 DEF WaitTypeOK
    <3>3. waiter' \in [Waiters -> [pc: {"idle", "waiting", "done", "panicked"}, ch: 0..n,
                                  got: Triggers \cup {"none"}]]
      <4>1. waiter' = [waiter EXCEPT ![w] = [@ EXCEPT !.pc = "waiting", !.ch = n]]
        BY <2>1, <2>3
      <4>. QED BY <4>1, <3>1 DEF WaitTypeOK
    <3>4. trigger' \in [Triggers -> [pc: {"idle", "send", "close", "done"}, id: Ids, ch: 0..n]]
      BY <2>1, <3>1 DEF WaitTypeOK
    <3>. QED BY <2>3, <3>1, <3>2, <3>3, <3>4 DEF WaitTypeOK
  <2>5. \A t \in Triggers : trigger'[t].ch \in 0..Len(channels)
    BY <2>1 DEF WaitTypeOK, Numbers
  <2>6. RegisteredIsFresh'
    <3>1. ASSUME NEW j \in Ids, registered'[j] # 0, j # i
          PROVE registered'[j] = registered[j] /\ registered[j] \in 1..Len(channels)
      BY <3>1, <2>1, <2>3 DEF WaitTypeOK, Numbers
    <3>2. registered'[i] = n
      BY <2>1, <2>3 DEF WaitTypeOK
    <3>. QED BY <3>1, <3>2, <2>1, <2>3, <2>5 DEF RegisteredIsFresh
  <2>7. TriggersOwnTheirs'
    BY <2>1, <2>3, <2>5 DEF TriggersOwnTheirs
  <2>8. BuffersAreOwned'
    BY <2>1, <2>3 DEF BuffersAreOwned
  <2>9. WaitersGotTheirs'
    BY <2>1, <2>3 DEF WaitersGotTheirs, WaitTypeOK
  <2>. QED BY <2>4, <2>6, <2>7, <2>8, <2>9
<1>. QED BY <1>1, <1>2

\* A channel that is written stays where it is, and the others are as they were.
LEMMA WrittenChannel ==
    ASSUME WaitTypeOK, NEW c \in 1..Len(channels), NEW v \in Channel,
           channels' = [channels EXCEPT ![c] = v]
    PROVE  /\ channels' \in Seq(Channel) /\ Len(channels') = Len(channels)
           /\ channels'[c] = v
           /\ \A d \in 1..Len(channels) : d # c => channels'[d] = channels[d]
BY ExceptSeq DEF WaitTypeOK

\* A waiter takes what its channel holds.
LEMMA ReceiveInv ==
    ASSUME WaitInv, NEW w \in Waiters, Receive(w)
    PROVE  WaitInv'
<1>. USE DEF WaitInv
<1> DEFINE c == waiter[w].ch
           v == [channels[c] EXCEPT !.buffer = Tail(@)]
<1>1. /\ waiter[w].pc = "waiting" /\ channels[c].buffer # <<>>
      /\ waiter' = [waiter EXCEPT ![w] = [@ EXCEPT !.pc = "done", !.got = Head(channels[c].buffer)]]
      /\ channels' = [channels EXCEPT ![c] = v]
      /\ registered' = registered /\ trigger' = trigger
  BY DEF Receive
<1>2. c \in 1..Len(channels)
  BY <1>1 DEF WaitTypeOK, Numbers, WaitersGotTheirs
<1>3. channels[c] \in Channel
  BY <1>2 DEF WaitTypeOK
<1>4. PICK t \in Triggers : channels[c].buffer = <<t>> /\ trigger[t].ch = c
  BY <1>1, <1>2 DEF BuffersAreOwned
<1>5. Head(channels[c].buffer) = t /\ Tail(channels[c].buffer) = <<>>
  BY <1>4
<1>6. v \in Channel /\ v.id = channels[c].id /\ v.closed = channels[c].closed /\ v.buffer = <<>>
  BY <1>3, <1>5, EmptySeq DEF Channel
<1>7. /\ channels' \in Seq(Channel) /\ Len(channels') = Len(channels)
      /\ channels'[c] = v
      /\ \A d \in 1..Len(channels) : d # c => channels'[d] = channels[d]
  BY <1>1, <1>2, <1>6, WrittenChannel
<1>8. WaitTypeOK'
  <2>1. Numbers' = Numbers
    BY <1>7 DEF Numbers
  <2>2. waiter' = [waiter EXCEPT ![w] = [@ EXCEPT !.pc = "done", !.got = t]]
    BY <1>1, <1>5
  <2>3. waiter' \in [Waiters -> [pc: {"idle", "waiting", "done", "panicked"}, ch: Numbers,
                                got: Triggers \cup {"none"}]]
    BY <2>2 DEF WaitTypeOK
  <2>. QED BY <1>1, <1>7, <2>1, <2>3 DEF WaitTypeOK
<1>9. RegisteredIsFresh' /\ TriggersOwnTheirs'
  <2>1. RegisteredIsFresh'
    BY <1>1, <1>6, <1>7 DEF RegisteredIsFresh, WaitTypeOK, Numbers
  <2>2. TriggersOwnTheirs'
    BY <1>1, <1>6, <1>7 DEF TriggersOwnTheirs, WaitTypeOK, Numbers
  <2>. QED BY <2>1, <2>2
<1>10. BuffersAreOwned'
  <2>1. ASSUME NEW d \in 1..Len(channels), channels'[d].buffer # <<>>
        PROVE  \E u \in Triggers : channels'[d].buffer = <<u>> /\ trigger[u].ch = d
    <3>1. channels'[d] = channels[d]
      BY <2>1, <1>6, <1>7
    <3>. QED BY <2>1, <3>1 DEF BuffersAreOwned
  <2>. QED BY <2>1, <1>1, <1>7 DEF BuffersAreOwned
<1>11. WaitersGotTheirs'
  BY <1>1, <1>2, <1>4, <1>5 DEF WaitersGotTheirs, WaitTypeOK
<1>. QED BY <1>8, <1>9, <1>10, <1>11

\* A waiter gives up, and its id stays.
LEMMA GiveUpInv ==
    ASSUME WaitInv, NEW w \in Waiters, GiveUp(w)
    PROVE  WaitInv'
<1>. USE DEF WaitInv, GiveUp
<1>1. WaitTypeOK'
  BY DEF WaitTypeOK, Numbers
<1>2. RegisteredIsFresh' /\ TriggersOwnTheirs' /\ BuffersAreOwned'
  BY DEF RegisteredIsFresh, TriggersOwnTheirs, BuffersAreOwned
<1>3. WaitersGotTheirs'
  BY DEF WaitersGotTheirs, WaitTypeOK
<1>. QED BY <1>1, <1>2, <1>3

\* A trigger takes a channel out of the table, or finds none.
LEMMA LookupInv ==
    ASSUME WaitInv, NEW t \in Triggers, Lookup(t)
    PROVE  WaitInv'
<1>. USE DEF WaitInv
<1> DEFINE i == trigger[t].id
           c == registered[i]
<1>1. /\ trigger[t].pc = "idle" /\ channels' = channels /\ waiter' = waiter
      /\ registered' = [registered EXCEPT ![i] = 0]
      /\ trigger' = [trigger EXCEPT ![t] =
            [@ EXCEPT !.pc = IF c # 0 THEN "send" ELSE "done", !.ch = c]]
  BY DEF Lookup, Take
<1>2. i \in Ids /\ c \in Numbers /\ trigger[t].ch = 0
  BY <1>1 DEF WaitTypeOK, TriggersOwnTheirs
<1>3. WaitTypeOK'
  <2>1. Numbers' = Numbers /\ 0 \in Numbers
    BY <1>1, LenProperties DEF Numbers, WaitTypeOK
  <2>2. registered' \in [Ids -> Numbers]
    BY <1>1, <2>1 DEF WaitTypeOK
  <2>3. trigger' \in [Triggers -> [pc: {"idle", "send", "close", "done"}, id: Ids, ch: Numbers]]
    BY <1>1, <1>2 DEF WaitTypeOK
  <2>. QED BY <1>1, <2>1, <2>2, <2>3 DEF WaitTypeOK
<1>4. /\ trigger'[t].ch = c /\ trigger'[t].id = i
      /\ trigger'[t].pc = IF c # 0 THEN "send" ELSE "done"
      /\ \A u \in Triggers : u # t => trigger'[u] = trigger[u]
  BY <1>1, <1>2 DEF WaitTypeOK
<1>5. /\ registered'[i] = 0
      /\ \A j \in Ids : j # i => registered'[j] = registered[j]
  BY <1>1, <1>2 DEF WaitTypeOK
<1>6. c # 0 => /\ channels[c].id = i /\ channels[c].buffer = <<>> /\ ~channels[c].closed
               /\ \A u \in Triggers : trigger[u].ch # c
  BY <1>2 DEF RegisteredIsFresh
<1>7. RegisteredIsFresh'
  <2>. SUFFICES ASSUME NEW j \in Ids, registered'[j] # 0
                PROVE  /\ channels[registered[j]].id = j /\ channels[registered[j]].buffer = <<>>
                       /\ ~channels[registered[j]].closed
                       /\ registered'[j] = registered[j]
                       /\ \A u \in Triggers : trigger'[u].ch # registered[j]
    BY <1>1 DEF RegisteredIsFresh
  <2>1. j # i /\ registered'[j] = registered[j]
    BY <1>5
  <2>2. channels[registered[j]].id = j
    BY <2>1 DEF RegisteredIsFresh
  <2>3. registered[j] # c
    BY <2>1, <2>2, <1>6
  <2>. QED BY <2>1, <2>3, <1>4 DEF RegisteredIsFresh
<1>8. TriggersOwnTheirs'
  BY <1>1, <1>2, <1>4, <1>6 DEF TriggersOwnTheirs
<1>9. BuffersAreOwned'
  <2>. SUFFICES ASSUME NEW d \in 1..Len(channels), channels[d].buffer # <<>>
                PROVE  \E u \in Triggers : channels[d].buffer = <<u>> /\ trigger'[u].ch = d
    BY <1>1 DEF BuffersAreOwned
  <2>1. PICK u \in Triggers : channels[d].buffer = <<u>> /\ trigger[u].ch = d
    BY DEF BuffersAreOwned
  <2>2. u # t
    BY <2>1, <1>2
  <2>. QED BY <2>1, <2>2, <1>4
<1>10. WaitersGotTheirs'
  <2>1. \A w \in Waiters : waiter[w].got # "none" => waiter[w].got \in Triggers /\ waiter[w].got # t
    BY <1>2 DEF WaitersGotTheirs, WaitTypeOK
  <2>. QED BY <2>1, <1>1, <1>4 DEF WaitersGotTheirs
<1>. QED BY <1>3, <1>7, <1>8, <1>9, <1>10

\* A trigger sends on the channel it took out.
LEMMA SendInv ==
    ASSUME WaitInv, NEW t \in Triggers, Send(t)
    PROVE  WaitInv'
<1>. USE DEF WaitInv
<1> DEFINE c == trigger[t].ch
           v == [channels[c] EXCEPT !.buffer = <<t>>]
<1>1. /\ trigger[t].pc = "send" /\ channels' = [channels EXCEPT ![c] = v]
      /\ trigger' = [trigger EXCEPT ![t].pc = "close"]
      /\ registered' = registered /\ waiter' = waiter
  BY DEF Send
<1>2. c \in 1..Len(channels) /\ ~channels[c].closed /\ channels[c].id = trigger[t].id
  BY <1>1 DEF WaitTypeOK, Numbers, TriggersOwnTheirs
<1>3. channels[c] \in Channel
  BY <1>2 DEF WaitTypeOK
<1>4. /\ v \in Channel /\ v.id = channels[c].id /\ v.closed = channels[c].closed
      /\ v.buffer = <<t>>
  <2>1. <<t>> \in Seq(Triggers)
    OBVIOUS
  <2>. QED BY <1>3, <2>1 DEF Channel
<1>5. /\ channels' \in Seq(Channel) /\ Len(channels') = Len(channels)
      /\ channels'[c] = v
      /\ \A d \in 1..Len(channels) : d # c => channels'[d] = channels[d]
  BY <1>1, <1>2, <1>4, WrittenChannel
<1>6. /\ trigger'[t].pc = "close"
      /\ \A u \in Triggers : /\ trigger'[u].ch = trigger[u].ch /\ trigger'[u].id = trigger[u].id
                             /\ u # t => trigger'[u].pc = trigger[u].pc
  BY <1>1 DEF WaitTypeOK
<1>7. WaitTypeOK'
  BY <1>1, <1>5 DEF WaitTypeOK, Numbers
<1>8. RegisteredIsFresh'
  BY <1>1, <1>2, <1>5, <1>6 DEF RegisteredIsFresh, WaitTypeOK, Numbers
<1>9. TriggersOwnTheirs'
  BY <1>1, <1>2, <1>4, <1>5, <1>6 DEF TriggersOwnTheirs, WaitTypeOK, Numbers
<1>10. BuffersAreOwned'
  <2>1. ASSUME NEW d \in 1..Len(channels), channels'[d].buffer # <<>>
        PROVE  \E u \in Triggers : channels'[d].buffer = <<u>> /\ trigger'[u].ch = d
    <3>1. CASE d = c
      BY <3>1, <1>4, <1>5, <1>6
    <3>2. CASE d # c
      BY <2>1, <3>2, <1>5, <1>6 DEF BuffersAreOwned
    <3>. QED BY <3>1, <3>2
  <2>. QED BY <2>1, <1>5 DEF BuffersAreOwned
<1>11. WaitersGotTheirs'
  BY <1>1, <1>6 DEF WaitersGotTheirs, WaitTypeOK
<1>. QED BY <1>7, <1>8, <1>9, <1>10, <1>11

\* A trigger closes the channel it sent on.
LEMMA CloseInv ==
    ASSUME WaitInv, NEW t \in Triggers, CloseChannel(t)
    PROVE  WaitInv'
<1>. USE DEF WaitInv
<1> DEFINE c == trigger[t].ch
           v == [channels[c] EXCEPT !.closed = TRUE]
<1>1. /\ trigger[t].pc = "close" /\ channels' = [channels EXCEPT ![c] = v]
      /\ trigger' = [trigger EXCEPT ![t].pc = "done"]
      /\ registered' = registered /\ waiter' = waiter
  BY DEF CloseChannel
<1>2. c \in 1..Len(channels) /\ channels[c].id = trigger[t].id
  BY <1>1 DEF WaitTypeOK, Numbers, TriggersOwnTheirs
<1>3. channels[c] \in Channel
  BY <1>2 DEF WaitTypeOK
<1>4. v \in Channel /\ v.id = channels[c].id /\ v.buffer = channels[c].buffer
  BY <1>3 DEF Channel
<1>5. /\ channels' \in Seq(Channel) /\ Len(channels') = Len(channels)
      /\ channels'[c] = v
      /\ \A d \in 1..Len(channels) : d # c => channels'[d] = channels[d]
  BY <1>1, <1>2, <1>4, WrittenChannel
<1>6. /\ trigger'[t].pc = "done"
      /\ \A u \in Triggers : /\ trigger'[u].ch = trigger[u].ch /\ trigger'[u].id = trigger[u].id
                             /\ u # t => trigger'[u].pc = trigger[u].pc
  BY <1>1 DEF WaitTypeOK
<1>7. WaitTypeOK'
  BY <1>1, <1>5 DEF WaitTypeOK, Numbers
<1>8. RegisteredIsFresh'
  BY <1>1, <1>2, <1>5, <1>6 DEF RegisteredIsFresh, WaitTypeOK, Numbers
<1>9. TriggersOwnTheirs'
  BY <1>1, <1>2, <1>4, <1>5, <1>6 DEF TriggersOwnTheirs, WaitTypeOK, Numbers
<1>10. BuffersAreOwned'
  <2>1. ASSUME NEW d \in 1..Len(channels), channels'[d].buffer # <<>>
        PROVE  \E u \in Triggers : channels'[d].buffer = <<u>> /\ trigger'[u].ch = d
    <3>1. channels'[d].buffer = channels[d].buffer
      BY <1>4, <1>5
    <3>. QED BY <2>1, <3>1, <1>6 DEF BuffersAreOwned
  <2>. QED BY <2>1, <1>5 DEF BuffersAreOwned
<1>11. WaitersGotTheirs'
  BY <1>1, <1>6 DEF WaitersGotTheirs, WaitTypeOK
<1>. QED BY <1>7, <1>8, <1>9, <1>10, <1>11

----------------------------------------------------------------------------
\* WaitInv holds in every state of every behaviour of wait.go.
THEOREM WaitInductive == WaitSpec => []WaitInv
<1>1. WaitInv /\ [WaitNext]_waitVars => WaitInv'
  <2>1. CASE UNCHANGED waitVars
    BY <2>1 DEF waitVars, WaitInv, WaitTypeOK, Numbers, RegisteredIsFresh, TriggersOwnTheirs,
                BuffersAreOwned, WaitersGotTheirs
  <2>. QED BY <2>1, RegisterInv, ReceiveInv, GiveUpInv, LookupInv, SendInv, CloseInv
           DEF WaitNext
<1>. QED BY <1>1, WaitInitInv, PTL DEF WaitSpec

\* Each answer reaches the waiter that registered for it, and no trigger finds its
\* channel full or closed, however often ids are registered again (wait.go Register,
\* Trigger).
THEOREM AnswersAreTheirs == WaitSpec => []AnswersReachTheirWaiter
<1>1. WaitInv => AnswersReachTheirWaiter
  <2>. SUFFICES ASSUME WaitInv PROVE AnswersReachTheirWaiter
    OBVIOUS
  <2>1. ASSUME NEW t \in Triggers, trigger[t].pc \in {"send", "close"}
        PROVE /\ ~channels[trigger[t].ch].closed
              /\ trigger[t].pc = "send" => channels[trigger[t].ch].buffer = <<>>
              /\ \A u \in Triggers \ {t} : trigger[u].ch # trigger[t].ch
              /\ IsRegistered(trigger[t].id) => registered[trigger[t].id] # trigger[t].ch
    BY <2>1 DEF WaitInv, WaitTypeOK, TriggersOwnTheirs, RegisteredIsFresh, IsRegistered
  <2>2. ASSUME NEW w \in Waiters, waiter[w].got # "none"
        PROVE  /\ trigger[waiter[w].got].ch = waiter[w].ch
               /\ trigger[waiter[w].got].id = channels[waiter[w].ch].id
    <3>1. waiter[w].got \in Triggers
      BY <2>2 DEF WaitInv, WaitTypeOK
    <3>. QED BY <2>2, <3>1 DEF WaitInv, TriggersOwnTheirs, WaitersGotTheirs
  <2>. QED BY <2>1, <2>2 DEF AnswersReachTheirWaiter
<1>. QED BY <1>1, WaitInductive, PTL

----------------------------------------------------------------------------
(*************************************************************************)
(* Http, for any requests, tokens, entries and shapes.                   *)
(*                                                                       *)
(* A pooled Context is in the pool or held by one handler: it leaves the *)
(* pool as it is pointed to its request, and comes back only when the    *)
(* handler that took it returns, after those it called. A request gets   *)
(* to a handler behind AuthMiddleware only from AuthMiddleware's last    *)
(* line, so that what it read from the cache and the identity it set are *)
(* there.                                                                *)
(*************************************************************************)

Sessions == {NoEntry} \cup UNION {Entries[t] : t \in Tokens}
AllShapes == UNION {Shapes[r] : r \in Requests}
Uids == {<<>>} \cup {UidOf[t] : t \in Tokens}
Companies == {""} \cup {s.company : s \in AllShapes}
Identity == [uid: Uids, role: {""} \cup {e.role : e \in Sessions},
             companyCode: {<<>>} \cup Companies \cup {UidCompanyCode(u) : u \in Uids}]
ReqRecord ==
    [pc: {"new", "call", "run", "decide", "return", "done"},
     route: {"open"} \cup {s.route : s \in AllShapes},
     method: {"GET"} \cup {s.method : s \in AllShapes},
     token: Tokens \cup {NoToken}, company: Companies, held: Seq(Nat), aborted: BOOLEAN,
     status: Nat, read: Sessions, keys: Identity]

HttpTypeOK ==
    /\ cache \in [Tokens -> Sessions]
    /\ contexts \in Seq(Requests)
    /\ free \in SUBSET (1..Len(contexts))
    /\ req \in [Requests -> ReqRecord]

\* The Contexts a request holds are its own, each once, and not in the pool
\* (http.go WKHttpHandler).
HeldAreOwn ==
    \A r \in Requests : \A i \in 1..Depth(r) :
        /\ req[r].held[i] \in 1..Len(contexts)
        /\ contexts[req[r].held[i]] = r
        /\ req[r].held[i] \notin free
        /\ \A j \in 1..Depth(r) : req[r].held[i] = req[r].held[j] => i = j

\* What AuthMiddleware has found out by its last line (http.go AuthMiddleware).
Known(x) == x.read.state = "ok" /\ x.keys.uid = UidOf[x.token]

\* Where in its chain a request may be (http.go's Next and Abort).
InChain(x) ==
    LET n == Len(x.held)
        length == Len(Chain(x.route))
    IN  /\ x.pc = "new" => n = 0
        /\ x.pc \in {"new", "call", "run", "decide"} => x.aborted = FALSE
        /\ x.pc = "call" => n < length /\ (x.route # "open" /\ n >= 2 => Known(x))
        /\ x.pc = "run" => n \in 1..length /\ (x.route # "open" /\ n = 3 => Known(x))
        /\ x.pc = "decide" => n = 2 /\ x.route # "open" /\ x.token # NoToken
        /\ x.pc = "return" => n >= 1
RequestsInChain == \A r \in Requests : InChain(req[r])

\* The inductive invariant of http.go.
HttpInv == HttpTypeOK /\ HeldAreOwn /\ RequestsInChain

----------------------------------------------------------------------------
\* What a chain consists of (server.go New, http.go).
LEMMA ChainIs ==
    ASSUME NEW route
    PROVE  /\ Len(Chain(route)) = IF route = "open" THEN 2 ELSE 3
           /\ Chain(route)[1] = "cors"
           /\ route = "open" => Chain(route)[2] = "handler"
           /\ route # "open" => Chain(route)[2] = "auth" /\ Chain(route)[3] = "handler"
BY DEF Chain

\* An entry that is not a session is what AuthMiddleware refuses.
LEMMA SessionStates ==
    \A e \in Sessions : e.state \in {"none", "blank", "short", "ok"}
<1>1. NoEntry.state = "none"
  BY DEF NoEntry, Entry
<1>2. ASSUME NEW t \in Tokens, NEW e \in Entries[t] PROVE e.state \in {"ok", "short", "blank"}
  BY HttpAssumption
<1>. QED BY <1>1, <1>2 DEF Sessions

LEMMA HttpInitInv == HttpInit => HttpInv
<1>. SUFFICES ASSUME HttpInit PROVE HttpInv
  OBVIOUS
<1>1. contexts \in Seq(Requests) /\ Len(contexts) = 0
  BY EmptySeq DEF HttpInit
<1>2. \A r \in Requests : req[r] \in ReqRecord
  <2>1. /\ <<>> \in Seq(Nat) /\ NoEntry \in Sessions /\ <<>> \in Uids
        /\ NoToken \in Tokens \cup {NoToken} /\ "" \in Companies
    BY EmptySeq DEF Sessions, Uids, Companies
  <2>2. [uid |-> <<>>, role |-> "", companyCode |-> <<>>] \in Identity
    BY <2>1 DEF Identity
  <2>. QED BY <2>1, <2>2 DEF HttpInit, ReqRecord
<1>3. HttpTypeOK
  BY <1>1, <1>2 DEF HttpInit, HttpTypeOK, Sessions
<1>4. HeldAreOwn
  <2>1. \A r \in Requests : req[r].held = <<>>
    BY DEF HttpInit
  <2>2. \A r \in Requests : Depth(r) = 0
    BY <2>1, EmptySeq DEF Depth
  <2>3. 1..0 = {}
    OBVIOUS
  <2>. QED BY <2>2, <2>3 DEF HeldAreOwn
<1>5. RequestsInChain
  BY DEF HttpInit, RequestsInChain, InChain
<1>. QED BY <1>3, <1>4, <1>5 DEF HttpInv

\* A step of one handler that takes and returns no Context.
LEMMA ChainStep ==
    ASSUME HttpInv, NEW r \in Requests, NEW x \in ReqRecord, Set1(r, x),
           x.held = req[r].held, InChain(x),
           cache' = cache, contexts' = contexts, free' = free
    PROVE  HttpInv'
<1>1. /\ req' \in [Requests -> ReqRecord] /\ req'[r] = x
      /\ \A q \in Requests : q # r => req'[q] = req[q]
  BY DEF HttpInv, HttpTypeOK, Set1
<1>2. \A q \in Requests : req'[q].held = req[q].held
  BY <1>1
<1>3. HttpTypeOK'
  BY <1>1 DEF HttpInv, HttpTypeOK
<1>4. HeldAreOwn'
  BY <1>2 DEF HttpInv, HeldAreOwn, Depth
<1>5. RequestsInChain'
  BY <1>1 DEF HttpInv, RequestsInChain
<1>. QED BY <1>3, <1>4, <1>5 DEF HttpInv

\* The cache changes, the requests do not.
LEMMA CacheInv ==
    ASSUME HttpInv, NEW t \in Tokens, Set(t) \/ Delete(t) \/ Expire(t) \/ Fail
    PROVE  HttpInv'
<1>1. UNCHANGED <<contexts, free, req>>
  BY DEF Set, Delete, Expire, Fail, CacheEvent
<1>2. cache' \in [Tokens -> Sessions]
  <2>1. CASE Fail
    BY <2>1 DEF Fail, HttpInv, HttpTypeOK
  <2>2. ASSUME NEW e \in Sessions, Write(t, e) PROVE cache' \in [Tokens -> Sessions]
    BY <2>2 DEF Write, HttpInv, HttpTypeOK
  <2>3. NoEntry \in Sessions /\ Entries[t] \subseteq Sessions
    BY DEF Sessions
  <2>. QED BY <2>1, <2>2, <2>3 DEF Set, Delete, Expire
<1>3. HttpTypeOK'
  BY <1>1, <1>2 DEF HttpInv, HttpTypeOK
<1>. QED BY <1>1, <1>3 DEF HttpInv, HeldAreOwn, Depth, RequestsInChain

LEMMA ArriveInv ==
    ASSUME HttpInv, NEW r \in Requests, Arrive(r)
    PROVE  HttpInv'
<1>1. PICK s \in Shapes[r] :
         Set1(r, [req[r] EXCEPT !.pc = "call", !.route = s.route, !.method = s.method,
                                !.token = s.token, !.company = s.company])
  BY DEF Arrive
<1> DEFINE x == [req[r] EXCEPT !.pc = "call", !.route = s.route, !.method = s.method,
                               !.token = s.token, !.company = s.company]
<1>2. req[r] \in ReqRecord /\ req[r].pc = "new" /\ InChain(req[r])
  BY DEF Arrive, HttpInv, HttpTypeOK, RequestsInChain
<1>3. s \in AllShapes /\ s.token \in Tokens \cup {NoToken}
  BY HttpAssumption DEF AllShapes
<1>4. x \in ReqRecord
  BY <1>2, <1>3 DEF ReqRecord, Companies
<1>5. x.held = req[r].held /\ x.pc = "call" /\ x.aborted = req[r].aborted /\ x.route = s.route
  BY <1>2 DEF ReqRecord
<1>6. InChain(x)
  BY <1>2, <1>5, ChainIs DEF InChain
<1>. QED BY <1>1, <1>4, <1>5, <1>6, ChainStep DEF Arrive, CacheUnchanged

\* A request that goes on, answers, or is aborted.
LEMMA MovesAreRecords ==
    ASSUME NEW y \in ReqRecord, NEW status \in Nat
    PROVE  LET call == [y EXCEPT !.pc = "call"]
               abort == [y EXCEPT !.pc = "return", !.aborted = TRUE, !.status = status]
               answered == [y EXCEPT !.pc = "return", !.status = status]
           IN  /\ call \in ReqRecord /\ abort \in ReqRecord /\ answered \in ReqRecord
               /\ call.held = y.held /\ abort.held = y.held /\ answered.held = y.held
               /\ call.pc = "call" /\ abort.pc = "return" /\ answered.pc = "return"
               /\ call.route = y.route /\ call.aborted = y.aborted
               /\ call.read = y.read /\ call.keys = y.keys /\ call.token = y.token
BY DEF ReqRecord

\* A handler that runs is the one at the request's depth.
LEMMA RunningIs ==
    ASSUME HttpInv, NEW r \in Requests, NEW h, Running(r, h)
    PROVE  /\ req[r] \in ReqRecord /\ InChain(req[r])
           /\ Depth(r) \in 1..Len(Chain(req[r].route)) /\ Depth(r) >= 1 /\ req[r].aborted = FALSE
           /\ h = "cors" => Depth(r) = 1
           /\ h = "auth" => Depth(r) = 2 /\ req[r].route # "open"
           /\ h = "handler" /\ req[r].route # "open" => Depth(r) = 3 /\ Known(req[r])
<1>1. req[r] \in ReqRecord /\ InChain(req[r])
  BY DEF HttpInv, HttpTypeOK, RequestsInChain
<1>2. Depth(r) \in 1..Len(Chain(req[r].route)) /\ req[r].aborted = FALSE
  BY <1>1 DEF Running, InChain, Depth
<1>3. /\ h = "cors" => Depth(r) = 1
      /\ h = "auth" => Depth(r) = 2 /\ req[r].route # "open"
      /\ h = "handler" /\ req[r].route # "open" => Depth(r) = 3
  <2>1. CASE req[r].route = "open"
    <3>1. Depth(r) \in 1..2
      BY <1>2, <2>1 DEF Chain
    <3>. QED BY <3>1, <2>1, ChainIs DEF Running, Handler
  <2>2. CASE req[r].route # "open"
    <3>1. Depth(r) \in 1..3
      BY <1>2, <2>2 DEF Chain
    <3>. QED BY <3>1, <2>2, ChainIs DEF Running, Handler
  <2>. QED BY <2>1, <2>2
<1>. QED BY <1>1, <1>2, <1>3 DEF Running, InChain, Depth

\* A request that is running may be aborted, and answered.
LEMMA AbortInv ==
    ASSUME HttpInv, NEW r \in Requests, NEW status \in Nat, Aborts(r, status),
           req[r].pc \in {"run", "decide"}, Stay
    PROVE  HttpInv'
<1> DEFINE x == [req[r] EXCEPT !.pc = "return", !.aborted = TRUE, !.status = status]
<1>1. req[r] \in ReqRecord /\ InChain(req[r])
  BY DEF HttpInv, HttpTypeOK, RequestsInChain
<1>2. x \in ReqRecord /\ x.held = req[r].held /\ x.pc = "return"
  BY <1>1, MovesAreRecords
<1>3. Len(req[r].held) >= 1
  BY <1>1, ChainIs, LenProperties DEF InChain, ReqRecord
<1>4. InChain(x)
  BY <1>2, <1>3 DEF InChain
<1>. QED BY <1>2, <1>4, ChainStep DEF Aborts, Stay, CacheUnchanged

LEMMA CORSInv ==
    ASSUME HttpInv, NEW r \in Requests, CORSMiddleware(r)
    PROVE  HttpInv'
<1>1. Running(r, "cors") /\ Stay
  BY DEF CORSMiddleware
<1>2. CASE Aborts(r, 204)
  BY <1>1, <1>2, AbortInv DEF Running
<1>3. CASE Goes(r)
  <2>0. PICK x : x = [req[r] EXCEPT !.pc = "call"]
    OBVIOUS
  <2>1. req[r] \in ReqRecord /\ Depth(r) = 1 /\ req[r].aborted = FALSE
    BY <1>1, RunningIs
  <2>2. /\ x \in ReqRecord /\ x.held = req[r].held /\ x.pc = "call"
        /\ x.aborted = req[r].aborted
    BY <2>0, <2>1, MovesAreRecords
  <2>3. Len(Chain(x.route)) \in {2, 3}
    BY DEF Chain
  <2>4. InChain(x)
    <3>1. x.pc = "call" /\ x.aborted = FALSE
      BY <2>1, <2>2
    <3>2. Len(x.held) = 1
      BY <2>1, <2>2 DEF Depth
    <3>. QED BY <2>3, <3>1, <3>2 DEF InChain
  <2>. QED BY <1>1, <1>3, <2>0, <2>2, <2>4, ChainStep DEF Goes, Stay, CacheUnchanged
<1>. QED BY <1>2, <1>3 DEF CORSMiddleware

LEMMA AuthReadInv ==
    ASSUME HttpInv, NEW r \in Requests, AuthRead(r)
    PROVE  HttpInv'
<1>1. Running(r, "auth") /\ Stay
  BY DEF AuthRead
<1>2. ASSUME NEW status \in Nat, Aborts(r, status) PROVE HttpInv'
  BY <1>1, <1>2, AbortInv DEF Running
<1> DEFINE x == [req[r] EXCEPT !.pc = "decide", !.read = Get(req[r].token)]
<1>3. CASE req[r].token # NoToken /\ Set1(r, x)
  <2>1. req[r] \in ReqRecord /\ Depth(r) = 2 /\ req[r].route # "open" /\ req[r].aborted = FALSE
    BY <1>1, RunningIs
  <2>2. Get(req[r].token) \in Sessions
    BY <2>1, <1>3 DEF Get, HttpInv, HttpTypeOK, ReqRecord
  <2>3. /\ x \in ReqRecord /\ x.held = req[r].held /\ x.pc = "decide"
        /\ x.aborted = req[r].aborted /\ x.route = req[r].route /\ x.token = req[r].token
    BY <2>1, <2>2 DEF ReqRecord
  <2>4. InChain(x)
    BY <1>3, <2>1, <2>3 DEF InChain, Depth
  <2>. QED BY <1>1, <1>3, <2>3, <2>4, ChainStep DEF Stay, CacheUnchanged
<1>. QED BY <1>2, <1>3 DEF AuthRead, Unavailable

LEMMA AuthDecideInv ==
    ASSUME HttpInv, NEW r \in Requests, AuthDecide(r)
    PROVE  HttpInv'
<1> DEFINE uid == UidOf[req[r].token]
           code == IF req[r].company = "" THEN UidCompanyCode(uid) ELSE req[r].company
           keys == [uid |-> uid, role |-> req[r].read.role, companyCode |-> code]
<1>1. req[r].pc = "decide" /\ Stay /\ req[r] \in ReqRecord /\ InChain(req[r])
  BY DEF AuthDecide, HttpInv, HttpTypeOK, RequestsInChain
<1>2. CASE Aborts(r, 401)
  BY <1>1, <1>2, AbortInv
<1>3. CASE /\ req[r].read.state \notin {"none", "blank", "short"}
           /\ Set1(r, [req[r] EXCEPT !.pc = "call", !.keys = keys])
  <2>8. PICK k : k = keys
    OBVIOUS
  <2>0. PICK x : x = [req[r] EXCEPT !.pc = "call", !.keys = k]
    OBVIOUS
  <2>1. /\ Len(req[r].held) = 2 /\ req[r].route # "open" /\ req[r].aborted = FALSE
        /\ req[r].token \in Tokens
    BY <1>1 DEF InChain, ReqRecord
  <2>2. req[r].read.state = "ok"
    BY <1>1, <1>3, SessionStates DEF ReqRecord
  <2>3. keys \in Identity
    BY <1>1, <2>1 DEF Identity, Uids, ReqRecord
  <2>4. /\ x \in ReqRecord /\ x.held = req[r].held /\ x.pc = "call" /\ x.read = req[r].read
        /\ x.aborted = req[r].aborted /\ x.route = req[r].route /\ x.token = req[r].token
        /\ x.keys.uid = uid
    <3>1. k \in Identity /\ k.uid = uid
      BY <2>3, <2>8
    <3>. QED BY <1>1, <2>0, <3>1 DEF ReqRecord
  <2>5. Known(x)
    BY <2>2, <2>4 DEF Known
  <2>6. Len(Chain(x.route)) = 3
    BY <2>1, <2>4, ChainIs
  <2>7. InChain(x)
    <3>1. x.pc = "call" /\ x.aborted = FALSE
      BY <2>1, <2>4
    <3>2. Len(x.held) = 2
      BY <2>1, <2>4
    <3>. QED BY <2>5, <2>6, <3>1, <3>2 DEF InChain
  <2>. QED BY <1>1, <1>3, <2>0, <2>8, <2>4, <2>7, ChainStep DEF Stay, CacheUnchanged
<1>. QED BY <1>2, <1>3 DEF AuthDecide

LEMMA HandleInv ==
    ASSUME HttpInv, NEW r \in Requests, Handle(r)
    PROVE  HttpInv'
<1>1. Running(r, "handler") /\ Stay
  BY DEF Handle
<1>2. PICK panics \in BOOLEAN, ok \in BOOLEAN :
         Set1(r, [req[r] EXCEPT !.pc = "return",
                    !.status = IF panics THEN 500 ELSE IF ok THEN 200 ELSE 400])
  BY DEF Handle
<1>6. PICK status : status = IF panics THEN 500 ELSE IF ok THEN 200 ELSE 400
  OBVIOUS
<1>0. PICK x : x = [req[r] EXCEPT !.pc = "return", !.status = status]
  OBVIOUS
<1>7. Set1(r, x)
  BY <1>0, <1>2, <1>6
<1>3. req[r] \in ReqRecord /\ Depth(r) >= 1
  BY <1>1, RunningIs
<1>4. x \in ReqRecord /\ x.held = req[r].held /\ x.pc = "return"
  <2>1. status \in Nat
    BY <1>6
  <2>. QED BY <1>0, <1>3, <2>1 DEF ReqRecord
<1>5. InChain(x)
  BY <1>3, <1>4 DEF InChain, Depth
<1>. QED BY <1>1, <1>7, <1>4, <1>5, ChainStep DEF Stay, CacheUnchanged

\* A Context leaves the pool, or is made, and points to its request.
LEMMA TakeInv ==
    ASSUME HttpInv, NEW r \in Requests, TakeContext(r)
    PROVE  HttpInv'
<1>1. PICK c \in free \cup {Len(contexts) + 1} :
         /\ contexts' = IF c \in free THEN [contexts EXCEPT ![c] = r] ELSE Append(contexts, r)
         /\ free' = free \ {c}
         /\ Set1(r, [req[r] EXCEPT !.pc = "run", !.held = Append(@, c)])
  BY DEF TakeContext
<1> DEFINE x == [req[r] EXCEPT !.pc = "run", !.held = Append(@, c)]
           n == Len(req[r].held)
<1>2. /\ req[r].pc = "call" /\ req[r] \in ReqRecord /\ InChain(req[r]) /\ cache' = cache
      /\ req[r].held \in Seq(Nat) /\ n \in Nat /\ Len(contexts) \in Nat
      /\ free \subseteq 1..Len(contexts) /\ contexts \in Seq(Requests)
  BY LenProperties DEF TakeContext, CacheUnchanged, HttpInv, HttpTypeOK, RequestsInChain, ReqRecord
<1>3. c \in Nat /\ c \in 1..(Len(contexts) + 1)
  BY <1>2
<1>4. /\ Append(req[r].held, c) \in Seq(Nat) /\ Len(Append(req[r].held, c)) = n + 1
      /\ Append(req[r].held, c)[n + 1] = c
      /\ \A i \in 1..n : Append(req[r].held, c)[i] = req[r].held[i]
  BY <1>2, <1>3, AppendProperties
<1>5. /\ x \in ReqRecord /\ x.held = Append(req[r].held, c) /\ x.pc = "run"
      /\ x.aborted = req[r].aborted /\ x.route = req[r].route /\ x.token = req[r].token
      /\ x.read = req[r].read /\ x.keys = req[r].keys
  BY <1>2, <1>4 DEF ReqRecord
<1>6. InChain(x)
  BY <1>2, <1>4, <1>5, ChainIs DEF InChain, Known
<1>7. /\ req' \in [Requests -> ReqRecord] /\ req'[r] = x
      /\ \A q \in Requests : q # r => req'[q] = req[q]
  BY <1>1, <1>5 DEF HttpInv, HttpTypeOK, Set1
<1>8. /\ contexts' \in Seq(Requests) /\ Len(contexts') \in Nat
      /\ 1..Len(contexts) \subseteq 1..Len(contexts')
      /\ c \in 1..Len(contexts') /\ contexts'[c] = r
      /\ \A d \in 1..Len(contexts) : d # c => contexts'[d] = contexts[d]
  <2>1. CASE c \in free
    <3>1. contexts' = [contexts EXCEPT ![c] = r] /\ c \in 1..Len(contexts)
      BY <1>1, <1>2, <2>1
    <3>. QED BY <3>1, <1>2, ExceptSeq
  <2>2. CASE c \notin free
    <3>1. contexts' = Append(contexts, r) /\ c = Len(contexts) + 1
      BY <1>1, <2>2
    <3>. QED BY <3>1, <1>2, AppendProperties
  <2>. QED BY <2>1, <2>2
<1>9. HttpTypeOK'
  <2>1. free' \subseteq 1..Len(contexts')
    BY <1>1, <1>2, <1>8
  <2>. QED BY <1>2, <1>7, <1>8, <2>1 DEF HttpInv, HttpTypeOK
<1>10. ASSUME NEW q \in Requests, NEW i \in 1..Depth(q)
       PROVE  /\ req[q].held[i] \in 1..Len(contexts') /\ req[q].held[i] # c
              /\ contexts'[req[q].held[i]] = q /\ req[q].held[i] \notin free'
  <2>1. /\ req[q].held[i] \in 1..Len(contexts) /\ req[q].held[i] \notin free
        /\ contexts[req[q].held[i]] = q
    BY DEF HttpInv, HeldAreOwn
  <2>2. req[q].held[i] # c
    BY <2>1, <1>2
  <2>. QED BY <2>1, <2>2, <1>1, <1>8
<1>11. HeldAreOwn'
  <2>1. ASSUME NEW q \in Requests, NEW i \in 1..Len(req'[q].held)
        PROVE  /\ req'[q].held[i] \in 1..Len(contexts')
               /\ contexts'[req'[q].held[i]] = q
               /\ req'[q].held[i] \notin free'
               /\ \A j \in 1..Len(req'[q].held) : req'[q].held[i] = req'[q].held[j] => i = j
    <3>1. CASE q # r
      BY <2>1, <3>1, <1>7, <1>10 DEF HttpInv, HeldAreOwn, Depth
    <3>2. CASE q = r /\ i = n + 1
      <4>1. req'[q].held[i] = c /\ c \notin free'
        BY <3>2, <1>1, <1>4, <1>5, <1>7
      <4>2. \A j \in 1..n : req'[q].held[j] # c
        BY <3>2, <1>4, <1>5, <1>7, <1>10 DEF Depth
      <4>. QED BY <4>1, <4>2, <3>2, <1>2, <1>4, <1>5, <1>7, <1>8
    <3>3. CASE q = r /\ i # n + 1
      <4>1. i \in 1..n /\ req'[q].held[i] = req[r].held[i] /\ req[r].held[i] # c
        BY <3>3, <2>1, <1>2, <1>4, <1>5, <1>7, <1>10 DEF Depth
      <4>2. \A j \in 1..n : req[r].held[i] = req[r].held[j] => i = j
        BY <4>1 DEF HttpInv, HeldAreOwn, Depth
      <4>3. \A j \in 1..n : req'[q].held[j] = req[r].held[j]
        BY <3>3, <1>4, <1>5, <1>7
      <4>4. req'[q].held[n + 1] = c
        BY <3>3, <1>4, <1>5, <1>7
      <4>5. \A j \in 1..(n + 1) : j \in 1..n \/ j = n + 1
        BY <1>2
      <4>6. \A j \in 1..(n + 1) : req'[q].held[i] = req'[q].held[j] => i = j
        BY <4>1, <4>2, <4>3, <4>4, <4>5
      <4>7. req'[q].held[i] \in 1..Len(contexts') /\ contexts'[req'[q].held[i]] = r
            /\ req'[q].held[i] \notin free'
        BY <4>1, <3>3, <1>4, <1>5, <1>7, <1>10 DEF Depth
      <4>8. 1..Len(req'[q].held) = 1..(n + 1)
        BY <3>3, <1>4, <1>5, <1>7
      <4>. QED BY <4>6, <4>7, <4>8, <3>3
    <3>. QED BY <3>1, <3>2, <3>3
  <2>. QED BY <2>1 DEF HeldAreOwn, Depth
<1>12. RequestsInChain'
  BY <1>6, <1>7 DEF HttpInv, RequestsInChain
<1>. QED BY <1>9, <1>11, <1>12 DEF HttpInv

\* A handler returns, and its Context goes back to the pool.
LEMMA PutInv ==
    ASSUME HttpInv, NEW r \in Requests, PutContext(r)
    PROVE  HttpInv'
<1> DEFINE held == req[r].held
           n == Len(held)
<1>0. PICK x : x = [req[r] EXCEPT !.held = Front(@),
                                  !.pc = IF Depth(r) = 1 THEN "done" ELSE "return"]
  OBVIOUS
<1>1. /\ req[r].pc = "return" /\ req[r] \in ReqRecord /\ InChain(req[r])
      /\ free' = free \cup {held[n]} /\ Set1(r, x)
      /\ contexts' = contexts /\ cache' = cache
  BY <1>0 DEF PutContext, Hc, Last, CacheUnchanged, HttpInv, HttpTypeOK, RequestsInChain
<1>2. held \in Seq(Nat) /\ n \in Nat /\ n >= 1
  BY <1>1, LenProperties DEF InChain, ReqRecord
<1>3. /\ Front(held) \in Seq(Nat) /\ Len(Front(held)) = n - 1
      /\ \A i \in 1..(n - 1) : Front(held)[i] = held[i]
  BY <1>2, SubSeqProperties DEF Front
<1>4. /\ x \in ReqRecord /\ x.held = Front(held)
      /\ x.pc = IF n = 1 THEN "done" ELSE "return"
  BY <1>0, <1>1, <1>3 DEF ReqRecord, Depth
<1>5. InChain(x)
  <2>1. Len(x.held) = n - 1
    BY <1>3, <1>4
  <2>2. CASE n = 1
    BY <1>4, <2>2 DEF InChain
  <2>3. CASE n # 1
    <3>1. Len(x.held) >= 1
      <4>1. \A k \in Nat : k >= 1 /\ k # 1 => k - 1 >= 1
        OBVIOUS
      <4>. QED BY <1>2, <2>1, <2>3, <4>1, Zenon
    <3>2. x.pc = "return"
      BY <1>4, <2>3
    <3>. QED BY <3>1, <3>2 DEF InChain
  <2>. QED BY <2>2, <2>3
<1>6. /\ req' \in [Requests -> ReqRecord] /\ req'[r] = x
      /\ \A q \in Requests : q # r => req'[q] = req[q]
  BY <1>1, <1>4 DEF HttpInv, HttpTypeOK, Set1
<1>7. held[n] \in 1..Len(contexts) /\ contexts[held[n]] = r
  BY <1>2 DEF HttpInv, HeldAreOwn, Depth
<1>8. HttpTypeOK'
  BY <1>1, <1>6, <1>7 DEF HttpInv, HttpTypeOK
<1>9. HeldAreOwn'
  <2>1. ASSUME NEW q \in Requests, NEW i \in 1..Len(req'[q].held)
        PROVE  /\ req'[q].held[i] \in 1..Len(contexts)
               /\ contexts[req'[q].held[i]] = q
               /\ req'[q].held[i] \notin free /\ req'[q].held[i] # held[n]
               /\ \A j \in 1..Len(req'[q].held) : req'[q].held[i] = req'[q].held[j] => i = j
    <3>1. CASE q # r
      BY <2>1, <3>1, <1>6, <1>7 DEF HttpInv, HeldAreOwn, Depth
    <3>2. CASE q = r
      <4>1. Len(req'[q].held) = n - 1 /\ \A j \in 1..(n - 1) : req'[q].held[j] = held[j]
        BY <3>2, <1>3, <1>4, <1>6
      <4>2. i \in 1..n /\ i # n /\ n \in 1..n /\ 1..(n - 1) \subseteq 1..n
        BY <4>1, <2>1, <1>2
      <4>3. /\ held[i] \in 1..Len(contexts) /\ contexts[held[i]] = r /\ held[i] \notin free
            /\ \A j \in 1..n : held[i] = held[j] => i = j
        BY <4>2 DEF HttpInv, HeldAreOwn, Depth
      <4>. QED BY <3>2, <4>1, <4>2, <4>3, <2>1
    <3>. QED BY <3>1, <3>2
  <2>. QED BY <2>1, <1>1 DEF HeldAreOwn, Depth
<1>10. RequestsInChain'
  BY <1>5, <1>6 DEF HttpInv, RequestsInChain
<1>. QED BY <1>8, <1>9, <1>10 DEF HttpInv

----------------------------------------------------------------------------
\* HttpInv holds in every state of every behaviour of http.go.
THEOREM HttpInductive == HttpSpec => []HttpInv
<1>1. HttpInv /\ [HttpNext]_httpVars => HttpInv'
  <2>. SUFFICES ASSUME HttpInv, [HttpNext]_httpVars PROVE HttpInv'
    OBVIOUS
  <2>1. CASE UNCHANGED httpVars
    BY <2>1 DEF httpVars, HttpInv, HttpTypeOK, HeldAreOwn, Depth, RequestsInChain
  <2>2. CASE Fail
    <3>1. cache' = cache /\ UNCHANGED <<contexts, free, req>>
      BY <2>2 DEF Fail, CacheEvent
    <3>. QED BY <3>1 DEF HttpInv, HttpTypeOK, HeldAreOwn, Depth, RequestsInChain
  <2>3. CASE \E t \in Tokens : Set(t) \/ Delete(t) \/ Expire(t)
    BY <2>3, CacheInv
  <2>. QED BY <2>1, <2>2, <2>3, ArriveInv, TakeInv, CORSInv, AuthReadInv, AuthDecideInv,
              HandleInv, PutInv DEF HttpNext
<1>. QED BY <1>1, HttpInitInv, PTL DEF HttpSpec

\* However requests come and go, fail and panic, a handler has a Context of its own that
\* points to its request, and behind AuthMiddleware the identity of a session (http.go
\* WKHttpHandler, AuthMiddleware).
THEOREM HandlersHaveTheirs == HttpSpec => []HandlersSeeTheirRequest
<1>1. HttpInv => HandlersSeeTheirRequest
  <2>. SUFFICES ASSUME HttpInv, NEW r \in Requests
                PROVE  /\ req[r].pc \in {"run", "decide"} =>
                            /\ ~req[r].aborted
                            /\ \A c \in ToSet(req[r].held) : contexts[c] = r /\ c \notin free
                            /\ \A q \in Requests \ {r} :
                                  ToSet(req[q].held) \cap ToSet(req[r].held) = {}
                       /\ Running(r, "handler") =>
                            /\ Asked(r) = r
                            /\ req[r].route # "open" =>
                                 req[r].read.state = "ok" /\ req[r].keys.uid = UidOf[req[r].token]
    BY DEF HandlersSeeTheirRequest
  <2>1. \A q \in Requests : \A c \in ToSet(req[q].held) : contexts[c] = q /\ c \notin free
    <3>1. \A q \in Requests : req[q].held \in Seq(Nat)
      BY DEF HttpInv, HttpTypeOK, ReqRecord
    <3>2. \A q \in Requests : DOMAIN req[q].held = 1..Depth(q)
      BY <3>1, LenProperties DEF Depth
    <3>3. \A q \in Requests : \A i \in 1..Depth(q) :
             contexts[req[q].held[i]] = q /\ req[q].held[i] \notin free
      BY DEF HttpInv, HeldAreOwn
    <3>. SUFFICES ASSUME NEW q \in Requests, NEW c \in ToSet(req[q].held)
                  PROVE  contexts[c] = q /\ c \notin free
      OBVIOUS
    <3>4. PICK i \in DOMAIN req[q].held : c = req[q].held[i]
      BY DEF ToSet
    <3>. QED BY <3>2, <3>3, <3>4
  <2>2. \A q \in Requests \ {r} : ToSet(req[q].held) \cap ToSet(req[r].held) = {}
    BY <2>1
  <2>3. req[r].pc \in {"run", "decide"} => ~req[r].aborted
    BY DEF HttpInv, RequestsInChain, InChain
  <2>4. Running(r, "handler") => Asked(r) = r
    <3>. SUFFICES ASSUME Running(r, "handler") PROVE Asked(r) = r
      OBVIOUS
    <3>1. Depth(r) \in 1..Len(Chain(req[r].route)) /\ Depth(r) >= 1
      BY RunningIs
    <3>2. Depth(r) \in 1..Depth(r)
      BY <3>1, ChainIs
    <3>. QED BY <3>2 DEF Asked, Hc, Last, Depth, HttpInv, HeldAreOwn
  <2>5. Running(r, "handler") /\ req[r].route # "open" => Known(req[r])
    BY RunningIs
  <2>. QED BY <2>1, <2>2, <2>3, <2>4, <2>5 DEF Known
<1>. QED BY <1>1, HttpInductive, PTL

----------------------------------------------------------------------------
\* A request whose session was good throughout: its token still has a session, and
\* AuthMiddleware has read one, so that only a missing company code can be refused.
NotLoggedOut(x) ==
    /\ x.token \in Tokens /\ cache[x.token].state = "ok"
    /\ x.pc = "decide" => x.read.state = "ok"
    /\ x.status = 401 => x.company = "" /\ UidCompanyCode(UidOf[x.token]) = ""
SessionsStayGood ==
    /\ \A r \in Requests : req[r].pc = "new" => req[r].status = 0 /\ r \notin loggedIn
    /\ \A r \in Requests : r \in loggedIn => NotLoggedOut(req[r])

\* A step of a request's chain, which changes no session.
LEMMA ChainKeepsSessions ==
    ASSUME HttpInv, SessionsStayGood, NEW r \in Requests, NEW x, Set1(r, x), x.pc # "new",
           r \in loggedIn => NotLoggedOut(x), cache' = cache, loggedIn' = loggedIn
    PROVE  SessionsStayGood'
<1>1. req'[r] = x /\ \A q \in Requests : q # r => req'[q] = req[q]
  BY DEF HttpInv, HttpTypeOK, Set1
<1>2. \A q \in Requests : req'[q].pc = "new" => req'[q].status = 0 /\ q \notin loggedIn
  BY <1>1 DEF SessionsStayGood
<1>3. \A q \in Requests : q \in loggedIn => NotLoggedOut(req'[q])
  BY <1>1 DEF SessionsStayGood
<1>. QED BY <1>2, <1>3 DEF SessionsStayGood, NotLoggedOut

\* The cache changes: a request whose session goes is no longer counted.
LEMMA CacheKeepsSessions ==
    ASSUME HttpInv, SessionsStayGood, NEW t \in Tokens, NEW e, Write(t, e), req' = req
    PROVE  SessionsStayGood'
<1>1. cache'[t] = e /\ \A u \in Tokens : u # t => cache'[u] = cache[u]
  BY DEF HttpInv, HttpTypeOK, Write
<1>2. loggedIn' \subseteq loggedIn
  BY DEF Write
<1>3. ASSUME NEW r \in Requests, r \in loggedIn' PROVE NotLoggedOut(req[r])'
  <2>1. NotLoggedOut(req[r])
    BY <1>2, <1>3 DEF SessionsStayGood
  <2>2. cache'[req[r].token].state = "ok"
    <3>1. CASE e.state = "ok"
      BY <1>1, <2>1, <3>1 DEF NotLoggedOut
    <3>2. CASE e.state # "ok"
      BY <1>1, <1>3, <2>1, <3>2 DEF NotLoggedOut, Write
    <3>. QED BY <3>1, <3>2
  <2>. QED BY <2>1, <2>2 DEF NotLoggedOut
<1>. QED BY <1>2, <1>3 DEF SessionsStayGood

\* A request that arrives, while its session is good or not.
LEMMA ArriveKeepsSessions ==
    ASSUME HttpInv, SessionsStayGood, NEW r \in Requests, Arrive(r)
    PROVE  SessionsStayGood'
<1>1. req[r] \in ReqRecord /\ req[r].pc = "new" /\ req[r].status = 0 /\ r \notin loggedIn
  BY DEF Arrive, HttpInv, HttpTypeOK, SessionsStayGood
<1>2. PICK s \in Shapes[r] :
         /\ Set1(r, [req[r] EXCEPT !.pc = "call", !.route = s.route, !.method = s.method,
                                   !.token = s.token, !.company = s.company])
         /\ loggedIn' = IF s.token \in Tokens /\ cache[s.token].state = "ok"
                        THEN loggedIn \cup {r} ELSE loggedIn
  BY DEF Arrive
<1>3. PICK x : x = [req[r] EXCEPT !.pc = "call", !.route = s.route, !.method = s.method,
                                  !.token = s.token, !.company = s.company]
  OBVIOUS
<1>4. x.pc = "call" /\ x.status = 0 /\ x.token = s.token
  BY <1>1, <1>3 DEF ReqRecord
<1>5. req'[r] = x /\ \A q \in Requests : q # r => req'[q] = req[q]
  BY <1>2, <1>3 DEF HttpInv, HttpTypeOK, Set1
<1>6. cache' = cache
  BY DEF Arrive, CacheUnchanged
<1>7. r \in loggedIn' => NotLoggedOut(x)
  BY <1>1, <1>2, <1>4 DEF NotLoggedOut
<1>8. \A q \in Requests : req'[q].pc = "new" => req'[q].status = 0 /\ q \notin loggedIn'
  BY <1>2, <1>4, <1>5 DEF SessionsStayGood
<1>9. \A q \in Requests : q \in loggedIn' => NotLoggedOut(req'[q])
  BY <1>2, <1>5, <1>7 DEF SessionsStayGood
<1>. QED BY <1>6, <1>8, <1>9 DEF SessionsStayGood, NotLoggedOut

\* AuthMiddleware refuses a session only for its uid, and a cache that fails with 503.
LEMMA AuthKeepsSessions ==
    ASSUME HttpInv, SessionsStayGood, NEW r \in Requests, AuthRead(r) \/ AuthDecide(r)
    PROVE  SessionsStayGood'
<1>1. req[r] \in ReqRecord /\ cache' = cache /\ loggedIn' = loggedIn
  BY DEF AuthRead, AuthDecide, HttpInv, HttpTypeOK, Stay, CacheUnchanged
<1>2. r \in loggedIn => NotLoggedOut(req[r]) /\ req[r].token # NoToken
  BY HttpAssumption DEF SessionsStayGood, NotLoggedOut
<1>3. ASSUME NEW status, Aborts(r, status),
             r \in loggedIn /\ status = 401 =>
                 req[r].company = "" /\ UidCompanyCode(UidOf[req[r].token]) = ""
      PROVE  SessionsStayGood'
  <2>1. PICK x : x = [req[r] EXCEPT !.pc = "return", !.aborted = TRUE, !.status = status]
    OBVIOUS
  <2>2. /\ x.pc = "return" /\ x.status = status /\ x.token = req[r].token
        /\ x.company = req[r].company
    BY <1>1, <2>1 DEF ReqRecord
  <2>3. r \in loggedIn => NotLoggedOut(x)
    BY <1>2, <1>3, <2>2 DEF NotLoggedOut
  <2>. QED BY <1>1, <1>3, <2>1, <2>2, <2>3, ChainKeepsSessions DEF Aborts
<1>4. ASSUME NEW pc \in {"decide", "call"}, NEW read, NEW keys,
             Set1(r, [req[r] EXCEPT !.pc = pc, !.read = read, !.keys = keys]),
             r \in loggedIn /\ pc = "decide" => read.state = "ok"
      PROVE  SessionsStayGood'
  <2>1. PICK x : x = [req[r] EXCEPT !.pc = pc, !.read = read, !.keys = keys]
    OBVIOUS
  <2>2. /\ x.pc = pc /\ x.status = req[r].status /\ x.token = req[r].token
        /\ x.company = req[r].company /\ x.read = read
    BY <1>1, <2>1 DEF ReqRecord
  <2>3. r \in loggedIn => NotLoggedOut(x)
    BY <1>2, <1>4, <2>2 DEF NotLoggedOut
  <2>. QED BY <1>1, <1>4, <2>1, <2>2, <2>3, ChainKeepsSessions
<1>5. CASE AuthRead(r)
  <2>1. CASE req[r].token = NoToken /\ Aborts(r, 401)
    <3>1. r \notin loggedIn
      BY <1>2, <2>1
    <3>. QED BY <1>3, <2>1, <3>1
  <2>2. CASE Aborts(r, 503)
    <3>1. PICK status : status = 503
      OBVIOUS
    <3>2. Aborts(r, status) /\ ~(status = 401)
      BY <2>2, <3>1
    <3>. QED BY <1>3, <3>2
  <2>3. CASE Set1(r, [req[r] EXCEPT !.pc = "decide", !.read = Get(req[r].token)])
    <3>1. PICK read : read = Get(req[r].token)
      OBVIOUS
    <3>2. r \in loggedIn => read.state = "ok"
      BY <1>2, <3>1 DEF Get, NotLoggedOut
    <3>3. [req[r] EXCEPT !.pc = "decide", !.read = read]
             = [req[r] EXCEPT !.pc = "decide", !.read = read, !.keys = req[r].keys]
      BY <1>1 DEF ReqRecord
    <3>4. PICK pc, keys : pc = "decide" /\ keys = req[r].keys
      OBVIOUS
    <3>5. Set1(r, [req[r] EXCEPT !.pc = pc, !.read = read, !.keys = keys])
      BY <2>3, <3>1, <3>3, <3>4
    <3>. QED BY <1>4, <3>2, <3>4, <3>5
  <2>. QED BY <1>5, <2>1, <2>2, <2>3 DEF AuthRead, Unavailable
<1>6. CASE AuthDecide(r)
  <2>1. PICK code, uid :
           /\ uid = UidOf[req[r].token]
           /\ code = IF req[r].company = "" THEN UidCompanyCode(uid) ELSE req[r].company
    OBVIOUS
  <2>2. req[r].pc = "decide"
    BY <1>6 DEF AuthDecide
  <2>3. CASE /\ req[r].read.state \in {"none", "blank", "short"} \/ code = ""
             /\ Aborts(r, 401)
    BY <1>2, <1>3, <2>1, <2>2, <2>3 DEF NotLoggedOut
  <2>4. CASE Set1(r, [req[r] EXCEPT !.pc = "call",
                !.keys = [uid |-> uid, role |-> req[r].read.role, companyCode |-> code]])
    <3>1. PICK keys : keys = [uid |-> uid, role |-> req[r].read.role, companyCode |-> code]
      OBVIOUS
    <3>2. [req[r] EXCEPT !.pc = "call", !.keys = keys]
             = [req[r] EXCEPT !.pc = "call", !.read = req[r].read, !.keys = keys]
      BY <1>1 DEF ReqRecord
    <3>3. PICK pc, read : pc = "call" /\ read = req[r].read
      OBVIOUS
    <3>4. Set1(r, [req[r] EXCEPT !.pc = pc, !.read = read, !.keys = keys])
      BY <2>4, <3>1, <3>2, <3>3
    <3>. QED BY <1>4, <3>3, <3>4
  <2>. QED BY <1>6, <2>1, <2>3, <2>4 DEF AuthDecide
<1>. QED BY <1>5, <1>6

\* A handler answers 200, 400 when its role check refuses, or 500 when it panics.
Answered(r, status) == Set1(r, [req[r] EXCEPT !.pc = "return", !.status = status])
LEMMA HandleAnswers ==
    ASSUME NEW r \in Requests, Handle(r)
    PROVE  \E status \in {500, 200, 400} : Answered(r, status)
<1>1. PICK panics \in BOOLEAN, ok \in BOOLEAN :
         Set1(r, [req[r] EXCEPT !.pc = "return",
                                !.status = IF panics THEN 500 ELSE IF ok THEN 200 ELSE 400])
  BY DEF Handle, Allowed
<1>2. PICK status : status = IF panics THEN 500 ELSE IF ok THEN 200 ELSE 400
  OBVIOUS
<1>3. Answered(r, status)
  BY <1>1, <1>2 DEF Answered
<1>. QED BY <1>2, <1>3

\* The other handlers, and what takes and returns their Contexts, answer no 401.
LEMMA HandlersKeepSessions ==
    ASSUME HttpInv, SessionsStayGood, NEW r \in Requests,
           TakeContext(r) \/ CORSMiddleware(r) \/ Handle(r) \/ PutContext(r)
    PROVE  SessionsStayGood'
<1>1. req[r] \in ReqRecord /\ cache' = cache /\ loggedIn' = loggedIn
  BY DEF TakeContext, CORSMiddleware, Handle, PutContext, HttpInv, HttpTypeOK, Stay,
         CacheUnchanged
<1>2. ASSUME NEW x, Set1(r, x), x.pc \notin {"new", "decide"}, x.token = req[r].token,
             x.company = req[r].company, x.status = req[r].status \/ x.status # 401
      PROVE  SessionsStayGood'
  <2>1. r \in loggedIn => NotLoggedOut(req[r])
    BY DEF SessionsStayGood
  <2>2. r \in loggedIn => NotLoggedOut(x)
    BY <1>2, <2>1 DEF NotLoggedOut
  <2>3. x.pc # "new"
    BY <1>2
  <2>. QED BY <1>1, <1>2, <2>2, <2>3, ChainKeepsSessions
<1>3. CASE TakeContext(r)
  <2>1. PICK c : Set1(r, [req[r] EXCEPT !.pc = "run", !.held = Append(@, c)])
    BY <1>3 DEF TakeContext
  <2>2. PICK x : x = [req[r] EXCEPT !.pc = "run", !.held = Append(@, c)]
    OBVIOUS
  <2>3. /\ x.pc = "run" /\ x.token = req[r].token /\ x.company = req[r].company
        /\ x.status = req[r].status
    BY <1>1, <2>2 DEF ReqRecord
  <2>4. Set1(r, x)
    BY <2>1, <2>2
  <2>. QED BY <1>2, <2>3, <2>4
<1>4. CASE PutContext(r)
  <2>0. PICK pc, held : /\ pc = IF Depth(r) = 1 THEN "done" ELSE "return"
                        /\ held = Front(req[r].held)
    OBVIOUS
  <2>1. /\ pc \in {"done", "return"}
        /\ Set1(r, [req[r] EXCEPT !.held = held, !.pc = pc])
    BY <1>4, <2>0 DEF PutContext
  <2>2. PICK x : x = [req[r] EXCEPT !.held = held, !.pc = pc]
    OBVIOUS
  <2>3. /\ x.pc = pc /\ x.token = req[r].token /\ x.company = req[r].company
        /\ x.status = req[r].status
    BY <1>1, <2>2 DEF ReqRecord
  <2>4. Set1(r, x)
    BY <2>1, <2>2
  <2>. QED BY <1>2, <2>1, <2>3, <2>4
<1>5. CASE CORSMiddleware(r)
  <2>1. CASE Goes(r)
    <3>1. PICK x : x = [req[r] EXCEPT !.pc = "call"]
      OBVIOUS
    <3>2. /\ x.pc = "call" /\ x.token = req[r].token /\ x.company = req[r].company
          /\ x.status = req[r].status
      BY <1>1, <3>1 DEF ReqRecord
    <3>3. Set1(r, x)
      BY <2>1, <3>1 DEF Goes
    <3>. QED BY <1>2, <3>2, <3>3
  <2>2. CASE Aborts(r, 204)
    <3>1. PICK x : x = [req[r] EXCEPT !.pc = "return", !.aborted = TRUE, !.status = 204]
      OBVIOUS
    <3>2. /\ x.pc = "return" /\ x.token = req[r].token /\ x.company = req[r].company
          /\ x.status = 204
      BY <1>1, <3>1 DEF ReqRecord
    <3>3. Set1(r, x)
      BY <2>2, <3>1 DEF Aborts
    <3>. QED BY <1>2, <3>2, <3>3
  <2>. QED BY <1>5, <2>1, <2>2 DEF CORSMiddleware
<1>6. CASE Handle(r)
  <2>1. PICK status \in {500, 200, 400} : Answered(r, status)
    BY <1>6, HandleAnswers
  <2>2. PICK x : x = [req[r] EXCEPT !.pc = "return", !.status = status]
    OBVIOUS
  <2>3. /\ x.pc = "return" /\ x.token = req[r].token /\ x.company = req[r].company
        /\ x.status = status
    BY <1>1, <2>2 DEF ReqRecord
  <2>4. Set1(r, x)
    BY <2>1, <2>2 DEF Answered
  <2>. QED BY <1>2, <2>1, <2>3, <2>4
<1>. QED BY <1>3, <1>4, <1>5, <1>6

\* A client whose session was good from its request to its answer is not logged out,
\* however the cache fails meanwhile (http.go AuthMiddleware, GetLoginUIDWithErr).
THEOREM NobodyIsLoggedOut == HttpSpec => []FailureNeverLogsOut
<1>1. HttpInit => SessionsStayGood
  <2>. SUFFICES ASSUME HttpInit PROVE SessionsStayGood
    OBVIOUS
  <2>1. loggedIn = {} /\ \A r \in Requests : req[r].status = 0
    BY DEF HttpInit
  <2>. QED BY <2>1 DEF SessionsStayGood
<1>2. HttpInv /\ SessionsStayGood /\ [HttpNext]_httpVars => SessionsStayGood'
  <2>. SUFFICES ASSUME HttpInv, SessionsStayGood, [HttpNext]_httpVars PROVE SessionsStayGood'
    OBVIOUS
  <2>1. CASE Fail \/ UNCHANGED httpVars
    <3>1. UNCHANGED <<cache, req, loggedIn>>
      BY <2>1 DEF Fail, CacheEvent, httpVars
    <3>. QED BY <3>1 DEF SessionsStayGood, NotLoggedOut
  <2>2. ASSUME NEW t \in Tokens, Set(t) \/ Delete(t) \/ Expire(t) PROVE SessionsStayGood'
    BY <2>2, CacheKeepsSessions DEF Set, Delete, Expire, CacheEvent
  <2>. QED BY <2>1, <2>2, ArriveKeepsSessions, AuthKeepsSessions, HandlersKeepSessions
           DEF HttpNext
<1>3. SessionsStayGood => FailureNeverLogsOut
  BY DEF SessionsStayGood, NotLoggedOut, FailureNeverLogsOut
<1>. QED BY <1>1, <1>2, <1>3, HttpInductive, PTL DEF HttpSpec

----------------------------------------------------------------------------
(*************************************************************************)
(* Lifecycle, for any modules, whatever they use, and any handlers.      *)
(*                                                                       *)
(* Nothing is locked: what handlers find is there because the goroutine  *)
(* that serves is started after the last module was built and routed,    *)
(* and nothing takes away what set-up has added. The session is the      *)
(* exception: if no module's set-up opens it, handlers do.               *)
(*************************************************************************)

AllModules == ToSet(Modules)
Mains == [pc: {"build", "setup", "serve", "start", "wait", "stop", "exit"},
          i: 1..Len(Modules)]
Records == [pc: {"idle", "look", "open", "use", "done"}, module: {""} \cup AllModules,
            session: Nat, service: BOOLEAN, listeners: Seq(AllModules)]

LifeTypeOK ==
    /\ main \in Mains
    /\ moduleList \in Seq(AllModules)
    /\ routed \in SUBSET AllModules
    /\ listeners \in Seq(AllModules)
    /\ session \in Nat /\ opened \in Nat
    /\ handling \in [Handlers -> Records]

\* A module that was built is listed, its listener is there, and so is the session if it
\* uses one (register.go GetModules, context.go NewMySQL, AddEventListener).
Built(j) ==
    /\ \E k \in 1..Len(moduleList) : moduleList[k] = Modules[j]
    /\ "db" \in Uses[Modules[j]] => session # 0
    /\ "listen" \in Uses[Modules[j]] => \E k \in 1..Len(listeners) : listeners[k] = Modules[j]
AllBuilt ==
    \A j \in 1..Len(Modules) : (main.pc = "build" => j < main.i) => Built(j)

\* Nobody serves before everything is built and routed (server.go Start).
ServedAfterSetup ==
    /\ main.pc \in {"build", "setup", "serve"} => listening = "off"
    /\ listening # "on" => \A h \in Handlers : handling[h].pc = "idle"

\* The sessions opened are one, unless handlers open them (context.go NewMySQL).
SessionsCounted ==
    /\ session = 0 <=> opened = 0
    /\ main.pc = "build" \/ UsesDB => opened <= 1

\* What a handler has found so far (register.go GetService, context.go GetEventListeners).
Found(h) ==
    LET x == handling[h] IN
    /\ x.pc = "look" => x.module \in AllModules
    /\ x.pc \in {"open", "use", "done"} =>
         x.service = TRUE /\ \A m \in Listening : \E k \in 1..Len(x.listeners) : x.listeners[k] = m
    /\ x.pc = "open" => ~UsesDB
    /\ x.pc = "use" => session # 0
    /\ x.pc = "done" => x.session # 0
HandlersFound == \A h \in Handlers : Found(h)

\* The inductive invariant of context.go, register.go and server.go.
LifeInv == LifeTypeOK /\ AllBuilt /\ ServedAfterSetup /\ SessionsCounted /\ HandlersFound

----------------------------------------------------------------------------
LEMMA ModulesAre ==
    /\ Len(Modules) \in Nat /\ Len(Modules) >= 1
    /\ \A j \in 1..Len(Modules) : Modules[j] \in AllModules
    /\ \A m \in AllModules : \E j \in 1..Len(Modules) : m = Modules[j]
<1>1. Modules \in Seq(AllModules) /\ Modules # <<>>
  BY LifeAssumption DEF AllModules
<1>2. Len(Modules) \in Nat /\ Len(Modules) # 0 /\ DOMAIN Modules = 1..Len(Modules)
  BY <1>1, LenProperties, EmptySeq
<1>3. \A j \in 1..Len(Modules) : Modules[j] \in AllModules
  BY <1>1
<1>4. \A m \in AllModules : \E j \in 1..Len(Modules) : m = Modules[j]
  BY <1>2 DEF AllModules, ToSet
<1>. QED BY <1>2, <1>3, <1>4

LEMMA LifeInitInv == LifeInit => LifeInv
<1>. SUFFICES ASSUME LifeInit PROVE LifeInv
  OBVIOUS
<1>1. LifeTypeOK
  <2>1. main \in Mains
    <3>1. main = [pc |-> "build", i |-> 1]
      BY Zenon DEF LifeInit
    <3>2. 1 \in 1..Len(Modules)
      BY ModulesAre
    <3>. QED BY <3>1, <3>2 DEF Mains
  <2>2. <<>> \in Seq(AllModules)
    BY EmptySeq
  <2>3. handling \in [Handlers -> Records]
    <3>. SUFFICES ASSUME NEW h \in Handlers
                  PROVE  [pc |-> "idle", module |-> "", session |-> 0,
                          service |-> FALSE, listeners |-> <<>>] \in Records
      BY DEF LifeInit
    <3>. QED BY <2>2 DEF Records
  <2>. QED BY <2>1, <2>2, <2>3 DEF LifeInit, LifeTypeOK
<1>2. AllBuilt
  <2>1. main.i = 1 /\ main.pc = "build"
    BY DEF LifeInit
  <2>2. \A j \in 1..Len(Modules) : ~(j < 1)
    BY ModulesAre
  <2>. QED BY <2>1, <2>2 DEF AllBuilt
<1>3. ServedAfterSetup /\ SessionsCounted /\ HandlersFound
  <2>1. session = 0 /\ opened = 0 /\ listening = "off"
    BY Zenon DEF LifeInit
  <2>2. \A h \in Handlers : handling[h].pc = "idle"
    BY DEF LifeInit
  <2>3. ServedAfterSetup /\ SessionsCounted
    BY <2>1, <2>2 DEF ServedAfterSetup, SessionsCounted
  <2>. QED BY <2>2, <2>3 DEF HandlersFound, Found
<1>. QED BY <1>1, <1>2, <1>3 DEF LifeInv

\* The loop over the modules goes to the next one, or to the next phase.
LEMMA StepIs ==
    ASSUME LifeTypeOK, NEW next \in {"setup", "serve", "wait", "exit"}, Step(next)
    PROVE  /\ main' \in Mains
           /\ main'.pc \in {main.pc, next}
           /\ main'.pc = main.pc /\ main.pc # next => main'.i = main.i + 1
           /\ main'.pc # main.pc => main.i = Len(Modules)
<1>1. CASE main.i < Len(Modules)
  <2>1. main \in Mains /\ main' = [main EXCEPT !.i = @ + 1]
    BY <1>1 DEF Step, LifeTypeOK
  <2>2. main.i + 1 \in 1..Len(Modules)
    BY <1>1, <2>1, ModulesAre DEF Mains
  <2>. QED BY <1>1, <2>1, <2>2 DEF Mains
<1>2. CASE ~(main.i < Len(Modules))
  <2>1. main \in Mains /\ main' = [pc |-> next, i |-> 1]
    BY <1>2 DEF Step, LifeTypeOK
  <2>2. main.i = Len(Modules) /\ 1 \in 1..Len(Modules)
    BY <1>2, <2>1, ModulesAre DEF Mains
  <2>. QED BY <2>1, <2>2 DEF Mains
<1>. QED BY <1>1, <1>2

\* A value stays in a list that is appended to, and the new one is there.
LEMMA AppendKeeps ==
    ASSUME NEW S, NEW s \in Seq(S), NEW e \in S
    PROVE  /\ Append(s, e) \in Seq(S)
           /\ \E k \in 1..Len(Append(s, e)) : Append(s, e)[k] = e
           /\ \A x : (\E k \in 1..Len(s) : s[k] = x)
                        => \E k \in 1..Len(Append(s, e)) : Append(s, e)[k] = x
<1>1. /\ Append(s, e) \in Seq(S) /\ Len(Append(s, e)) = Len(s) + 1 /\ Len(s) \in Nat
      /\ \A k \in 1..Len(s) : Append(s, e)[k] = s[k]
      /\ Append(s, e)[Len(s) + 1] = e
  BY AppendProperties
<1>2. 1..Len(s) \subseteq 1..Len(Append(s, e)) /\ Len(s) + 1 \in 1..Len(Append(s, e))
  BY <1>1
<1>. QED BY <1>1, <1>2

LEMMA BuildInv ==
    ASSUME LifeInv, BuildModule
    PROVE  LifeInv'
<1> DEFINE m == Modules[main.i]
<1>1. /\ main.pc = "build" /\ moduleList' = Append(moduleList, m) /\ Step("setup")
      /\ UNCHANGED <<routed, listening, handling>> /\ m \in AllModules /\ main.i \in 1..Len(Modules)
  <2>1. main.i \in 1..Len(Modules)
    BY DEF LifeInv, LifeTypeOK, Mains
  <2>. QED BY <2>1, ModulesAre DEF BuildModule, At, Module
<1>2. /\ main' \in Mains
      /\ main'.pc \in {"build", "setup"}
      /\ main'.pc = "build" => main'.i = main.i + 1
      /\ main'.pc # "build" => main.i = Len(Modules)
  BY <1>1, StepIs DEF LifeInv
<1>3. /\ moduleList' \in Seq(AllModules)
      /\ \E k \in 1..Len(moduleList') : moduleList'[k] = m
      /\ \A x : (\E k \in 1..Len(moduleList) : moduleList[k] = x)
                   => \E k \in 1..Len(moduleList') : moduleList'[k] = x
  <2>1. moduleList \in Seq(AllModules)
    BY DEF LifeInv, LifeTypeOK
  <2>2. PICK e \in AllModules : e = m /\ moduleList' = Append(moduleList, e)
    BY <1>1
  <2>3. /\ Append(moduleList, e) \in Seq(AllModules)
        /\ \E k \in 1..Len(Append(moduleList, e)) : Append(moduleList, e)[k] = e
        /\ \A x : (\E k \in 1..Len(moduleList) : moduleList[k] = x)
              => \E k \in 1..Len(Append(moduleList, e)) : Append(moduleList, e)[k] = x
    BY <2>1, AppendKeeps
  <2>. QED BY <2>2, <2>3
<1>4. /\ listeners' \in Seq(AllModules)
      /\ "listen" \in Uses[m] => \E k \in 1..Len(listeners') : listeners'[k] = m
      /\ \A x : (\E k \in 1..Len(listeners) : listeners[k] = x)
                   => \E k \in 1..Len(listeners') : listeners'[k] = x
  <2>1. listeners \in Seq(AllModules)
    BY DEF LifeInv, LifeTypeOK
  <2>2. CASE listeners' = Append(listeners, m)
    <3>1. PICK e \in AllModules : e = m /\ listeners' = Append(listeners, e)
      BY <1>1, <2>2
    <3>2. /\ Append(listeners, e) \in Seq(AllModules)
          /\ \E k \in 1..Len(Append(listeners, e)) : Append(listeners, e)[k] = e
          /\ \A x : (\E k \in 1..Len(listeners) : listeners[k] = x)
                => \E k \in 1..Len(Append(listeners, e)) : Append(listeners, e)[k] = x
      BY <2>1, AppendKeeps
    <3>. QED BY <3>1, <3>2
  <2>3. CASE listeners' = listeners /\ "listen" \notin Uses[m]
    BY <2>1, <2>3
  <2>. QED BY <2>2, <2>3 DEF BuildModule, AddEventListener, JyAddEventListener, Module
<1>5. /\ session' \in Nat /\ opened' \in Nat /\ opened' <= 1
      /\ session' = 0 <=> opened' = 0
      /\ session # 0 => session' # 0
      /\ "db" \in Uses[m] => session' # 0
  <2>1. CASE "db" \in Uses[m] /\ session = 0
    <3>1. opened' = opened + 1 /\ session' = opened'
      BY <2>1 DEF BuildModule, IsUnset, Module
    <3>. QED BY <2>1, <3>1 DEF LifeInv, LifeTypeOK, SessionsCounted
  <2>2. CASE ~("db" \in Uses[m] /\ session = 0)
    <3>1. opened' = opened /\ session' = session
      BY <2>2 DEF BuildModule, IsUnset, Module
    <3>. QED BY <1>1, <2>2, <3>1 DEF LifeInv, LifeTypeOK, SessionsCounted
  <2>. QED BY <2>1, <2>2
<1>6. LifeTypeOK'
  BY <1>1, <1>2, <1>3, <1>4, <1>5 DEF LifeInv, LifeTypeOK
<1>7. AllBuilt'
  <2>. SUFFICES ASSUME NEW j \in 1..Len(Modules), main'.pc = "build" => j < main'.i
                PROVE  Built(j)'
    BY DEF AllBuilt
  <2>1. j < main.i \/ j = main.i
    BY <1>1, <1>2, ModulesAre
  <2>2. CASE j < main.i
    <3>1. Built(j)
      BY <2>2 DEF LifeInv, AllBuilt
    <3>. QED BY <3>1, <1>3, <1>4, <1>5 DEF Built
  <2>3. CASE j = main.i
    BY <2>3, <1>3, <1>4, <1>5 DEF Built
  <2>. QED BY <2>1, <2>2, <2>3
<1>8. listening = "off" /\ \A h \in Handlers : handling[h].pc = "idle"
  BY <1>1 DEF LifeInv, ServedAfterSetup
<1>9. ServedAfterSetup' /\ SessionsCounted'
  BY <1>1, <1>5, <1>8 DEF ServedAfterSetup, SessionsCounted
<1>10. HandlersFound'
  BY <1>1, <1>8 DEF HandlersFound, Found
<1>. QED BY <1>6, <1>7, <1>9, <1>10 DEF LifeInv

\* What main does after it has built the modules adds routes, and nothing else that
\* handlers find; before it serves nobody does.
LEMMA MainInv ==
    ASSUME LifeInv, main.pc # "build",
           main' \in [pc: {"setup", "serve", "start", "wait", "stop", "exit"}, i: 1..Len(Modules)],
           main'.pc \in {"setup", "serve"} => main.pc \in {"setup", "serve"},
           routed \subseteq routed', routed' \subseteq AllModules,
           UNCHANGED <<moduleList, listening, session, opened, listeners, handling>>
    PROVE  LifeInv'
<1>1. LifeTypeOK'
  <2>1. main' \in Mains
    BY DEF Mains
  <2>. QED BY <2>1 DEF LifeInv, LifeTypeOK
<1>2. AllBuilt'
  BY DEF LifeInv, AllBuilt, Built
<1>3. ServedAfterSetup' /\ SessionsCounted'
  BY DEF LifeInv, ServedAfterSetup, SessionsCounted
<1>4. HandlersFound'
  BY DEF LifeInv, HandlersFound, Found
<1>. QED BY <1>1, <1>2, <1>3, <1>4 DEF LifeInv

LEMMA PhasesInv ==
    ASSUME LifeInv, Setup \/ Serve \/ StartModule \/ Signal \/ StopModule
    PROVE  LifeInv'
<1> DEFINE Pcs == {"setup", "serve", "start", "wait", "stop", "exit"}
           Later == /\ main.pc # "build" /\ main' \in [pc: Pcs, i: 1..Len(Modules)]
                    /\ main'.pc \in {"setup", "serve"} => main.pc \in {"setup", "serve"}
<1>1. ASSUME NEW next \in {"serve", "wait", "exit"}, main.pc \in {"setup", "start", "stop"},
             Step(next), next = "serve" => main.pc = "setup"
      PROVE  Later
  <2>1. main' \in Mains /\ main'.pc \in {main.pc, next}
    BY <1>1, StepIs DEF LifeInv
  <2>2. main'.pc \in Pcs
    BY <1>1, <2>1
  <2>. QED BY <1>1, <2>1, <2>2 DEF Mains
<1>2. ASSUME NEW pc \in {"start", "stop", "exit"}, main' = [main EXCEPT !.pc = pc],
             main.pc # "build"
      PROVE  Later
  <2>1. main \in Mains
    BY DEF LifeInv, LifeTypeOK
  <2>. QED BY <1>2, <2>1 DEF Mains
<1>3. Later
  BY <1>1, <1>2 DEF Setup, Serve, StartModule, Signal, StopModule, At
<1>4. /\ routed \subseteq routed' /\ routed' \subseteq AllModules
      /\ UNCHANGED <<moduleList, listening, session, opened, listeners, handling>>
  <2>1. Module \in AllModules /\ routed \subseteq AllModules
    BY ModulesAre DEF Module, LifeInv, LifeTypeOK, Mains
  <2>. QED BY <2>1 DEF Setup, Serve, StartModule, Signal, StopModule
<1>. QED BY <1>3, <1>4, MainInv

LEMMA ListenInv ==
    ASSUME LifeInv, Listen
    PROVE  LifeInv'
<1>1. /\ main.pc \in {"start", "wait", "stop"} /\ listening = "off"
      /\ UNCHANGED <<main, moduleList, routed, session, opened, listeners, handling>>
  BY DEF Listen
<1>2. LifeTypeOK' /\ AllBuilt' /\ SessionsCounted' /\ HandlersFound'
  BY <1>1 DEF LifeInv, LifeTypeOK, AllBuilt, Built, SessionsCounted, HandlersFound, Found
<1>3. ServedAfterSetup'
  BY <1>1 DEF LifeInv, ServedAfterSetup
<1>. QED BY <1>2, <1>3 DEF LifeInv

\* While somebody serves, everything is built.
LEMMA ServedMeansBuilt ==
    ASSUME LifeInv, listening = "on"
    PROVE  /\ main.pc # "build"
           /\ \A m \in AllModules :
                /\ \E k \in 1..Len(moduleList) : moduleList[k] = m
                /\ "db" \in Uses[m] => session # 0
                /\ "listen" \in Uses[m] => \E k \in 1..Len(listeners) : listeners[k] = m
<1>1. main.pc # "build"
  BY DEF LifeInv, ServedAfterSetup
<1>2. \A j \in 1..Len(Modules) : Built(j)
  BY <1>1 DEF LifeInv, AllBuilt
<1>3. ASSUME NEW m \in AllModules
      PROVE  /\ \E k \in 1..Len(moduleList) : moduleList[k] = m
             /\ "db" \in Uses[m] => session # 0
             /\ "listen" \in Uses[m] => \E k \in 1..Len(listeners) : listeners[k] = m
  <2>1. PICK j \in 1..Len(Modules) : Modules[j] = m
    BY ModulesAre
  <2>2. Built(j)
    BY <1>2
  <2>. QED BY <2>1, <2>2 DEF Built
<1>. QED BY <1>1, <1>3

\* A handler's step changes what it has found and, if it opens one, the session.
LEMMA HandlerStep ==
    ASSUME LifeInv, NEW h \in Handlers, listening = "on", HandlerOnly,
           NEW x \in Records,
           Now(h, x), session' \in Nat, opened' \in Nat,
           session # 0 => session' # 0, session' = 0 <=> opened' = 0,
           UsesDB => opened' = opened,
           Found(h)'
    PROVE  LifeInv'
<1>1. /\ handling' \in [Handlers ->
             Records]
      /\ \A g \in Handlers : g # h => handling'[g] = handling[g]
  BY DEF Now, LifeInv, LifeTypeOK
<1>2. main.pc # "build"
  BY ServedMeansBuilt
<1>3. LifeTypeOK'
  BY <1>1 DEF HandlerOnly, LifeInv, LifeTypeOK
<1>4. AllBuilt'
  BY DEF HandlerOnly, LifeInv, AllBuilt, Built
<1>5. ServedAfterSetup' /\ SessionsCounted'
  BY <1>2 DEF HandlerOnly, LifeInv, ServedAfterSetup, SessionsCounted, UsesDB
<1>6. HandlersFound'
  BY <1>1 DEF LifeInv, HandlersFound, Found
<1>. QED BY <1>3, <1>4, <1>5, <1>6 DEF LifeInv

LEMMA RequestInv ==
    ASSUME LifeInv, NEW h \in Handlers, Request(h)
    PROVE  LifeInv'
<1>1. PICK m \in routed : Now(h, [handling[h] EXCEPT !.pc = "look", !.module = m])
  BY DEF Request
<1>2. PICK x : x = [handling[h] EXCEPT !.pc = "look", !.module = m]
  OBVIOUS
<1>3. /\ x \in Records
      /\ x.pc = "look" /\ x.module \in AllModules
  BY <1>2 DEF LifeInv, LifeTypeOK, Records
<1>4. handling'[h] = x
  BY <1>1, <1>2 DEF Now, LifeInv, LifeTypeOK
<1>5. Found(h)'
  BY <1>3, <1>4 DEF Found
<1>6. listening = "on" /\ HandlerOnly /\ session' = session /\ opened' = opened
  BY DEF Request, Handling
<1>. QED BY <1>1, <1>2, <1>3, <1>5, <1>6, HandlerStep DEF LifeInv, LifeTypeOK, SessionsCounted

LEMMA LookInv ==
    ASSUME LifeInv, NEW h \in Handlers, Look(h)
    PROVE  LifeInv'
<1> DEFINE found == Contains(moduleList, handling[h].module)
           pc == IF session = 0 THEN "open" ELSE "use"
<1>1. /\ Now(h, [handling[h] EXCEPT !.service = found, !.listeners = listeners, !.pc = pc])
      /\ listening = "on" /\ HandlerOnly /\ session' = session /\ opened' = opened
      /\ handling[h].pc = "look"
  BY DEF Look, Handling, IsUnset
<1>2. /\ handling[h].module \in AllModules
      /\ handling[h] \in Records
      /\ listeners \in Seq(AllModules)
  BY <1>1 DEF LifeInv, LifeTypeOK, HandlersFound, Found
<1>3. found = TRUE
  BY <1>1, <1>2, ServedMeansBuilt DEF Contains
<1>4. PICK x : x = [handling[h] EXCEPT !.service = found, !.listeners = listeners, !.pc = pc]
  OBVIOUS
<1>5. /\ x \in Records
      /\ x.service = TRUE /\ x.listeners = listeners /\ x.pc = pc
  BY <1>2, <1>3, <1>4 DEF Records
<1>6. handling'[h] = x
  BY <1>1, <1>4 DEF Now, LifeInv, LifeTypeOK
<1>7. \A m \in Listening : \E k \in 1..Len(listeners) : listeners[k] = m
  BY <1>1, ServedMeansBuilt DEF Listening, AllModules
<1>8. x.pc = "open" => ~UsesDB
  BY <1>1, <1>5, ServedMeansBuilt DEF UsesDB, AllModules
<1>9. Found(h)'
  BY <1>1, <1>5, <1>6, <1>7, <1>8 DEF Found
<1>. QED BY <1>1, <1>4, <1>5, <1>9, HandlerStep DEF LifeInv, LifeTypeOK, SessionsCounted

LEMMA OpenInv ==
    ASSUME LifeInv, NEW h \in Handlers, Open(h)
    PROVE  LifeInv'
<1>1. /\ Now(h, [handling[h] EXCEPT !.pc = "use"]) /\ listening = "on" /\ HandlerOnly
      /\ opened' = opened + 1 /\ session' = opened' /\ handling[h].pc = "open"
  BY DEF Open, Handling
<1>2. /\ handling[h] \in Records
      /\ Found(h) /\ ~UsesDB
  BY <1>1 DEF LifeInv, LifeTypeOK, HandlersFound, Found
<1>3. PICK x : x = [handling[h] EXCEPT !.pc = "use"]
  OBVIOUS
<1>4. /\ x \in Records
      /\ x.service = handling[h].service /\ x.listeners = handling[h].listeners /\ x.pc = "use"
  BY <1>2, <1>3 DEF Records
<1>5. handling'[h] = x
  BY <1>1, <1>3 DEF Now, LifeInv, LifeTypeOK
<1>6. session' \in Nat /\ opened' \in Nat /\ session' # 0 /\ opened' # 0
  BY <1>1 DEF LifeInv, LifeTypeOK
<1>7. Found(h)'
  BY <1>1, <1>2, <1>4, <1>5, <1>6 DEF Found
<1>. QED BY <1>1, <1>2, <1>3, <1>4, <1>6, <1>7, HandlerStep

LEMMA UseInv ==
    ASSUME LifeInv, NEW h \in Handlers, Use(h)
    PROVE  LifeInv'
<1>1. /\ Now(h, [handling[h] EXCEPT !.pc = "done", !.session = session])
      /\ listening = "on" /\ HandlerOnly
      /\ opened' = opened /\ session' = session /\ handling[h].pc = "use"
  BY DEF Use, Handling
<1>2. /\ handling[h] \in Records
      /\ Found(h) /\ session # 0 /\ session \in Nat
  BY <1>1 DEF LifeInv, LifeTypeOK, HandlersFound, Found
<1>3. PICK x : x = [handling[h] EXCEPT !.pc = "done", !.session = session]
  OBVIOUS
<1>4. /\ x \in Records
      /\ x.service = handling[h].service /\ x.listeners = handling[h].listeners
      /\ x.pc = "done" /\ x.session = session
  BY <1>2, <1>3 DEF Records
<1>5. handling'[h] = x
  BY <1>1, <1>3 DEF Now, LifeInv, LifeTypeOK
<1>6. Found(h)'
  BY <1>1, <1>2, <1>4, <1>5 DEF Found
<1>. QED BY <1>1, <1>3, <1>4, <1>6, HandlerStep DEF LifeInv, LifeTypeOK, SessionsCounted

----------------------------------------------------------------------------
\* LifeInv holds in every state of every behaviour of the process.
THEOREM LifeInductive == LifeSpec => []LifeInv
<1>1. LifeInv /\ [LifeNext]_lifeVars => LifeInv'
  <2>1. CASE UNCHANGED lifeVars
    BY <2>1 DEF lifeVars, LifeInv, LifeTypeOK, AllBuilt, Built, ServedAfterSetup, SessionsCounted,
                HandlersFound, Found
  <2>. QED BY <2>1, BuildInv, PhasesInv, ListenInv, RequestInv, LookInv, OpenInv, UseInv
           DEF LifeNext
<1>. QED BY <1>1, LifeInitInv, PTL DEF LifeSpec

\* Whatever the modules use and wherever main is, a handler finds its module's service and
\* every listener of set-up, and one session, unless set-up opens none (register.go,
\* context.go, server.go).
THEOREM SetupIsFound == LifeSpec => []HandlersFindSetup
<1>1. LifeInv => HandlersFindSetup
  <2>. SUFFICES ASSUME LifeInv, NEW h \in Handlers, handling[h].pc = "done"
                PROVE  /\ handling[h].service
                       /\ Listening \subseteq ToSet(handling[h].listeners)
                       /\ handling[h].session # 0
                       /\ UsesDB => opened = 1
    BY DEF HandlersFindSetup
  <2>1. Found(h)
    BY DEF LifeInv, HandlersFound
  <2>2. handling[h].service = TRUE /\ handling[h].session # 0
    BY <2>1 DEF Found
  <2>3. Listening \subseteq ToSet(handling[h].listeners)
    <3>1. handling[h].listeners \in Seq(AllModules)
      BY DEF LifeInv, LifeTypeOK, Records
    <3>2. DOMAIN handling[h].listeners = 1..Len(handling[h].listeners)
      BY <3>1, LenProperties
    <3>. QED BY <2>1, <3>2 DEF Found, ToSet
  <2>4. UsesDB => opened = 1
    <3>. SUFFICES ASSUME UsesDB PROVE opened = 1
      OBVIOUS
    <3>1. listening = "on"
      BY DEF LifeInv, ServedAfterSetup
    <3>2. session # 0
      BY <3>1, ServedMeansBuilt DEF UsesDB, AllModules
    <3>. QED BY <3>2 DEF LifeInv, LifeTypeOK, SessionsCounted
  <2>. QED BY <2>2, <2>3, <2>4
<1>. QED BY <1>1, LifeInductive, PTL

----------------------------------------------------------------------------
(***************************************************************************)
(* Errors, for any processes of either package, reasons, messages,         *)
(* metadata and codes.                                                     *)
(*                                                                         *)
(* What arrives is made from the status of what was sent; every error with *)
(* a reason is registered in the step in which it is made, and nothing is  *)
(* ever taken out of a registry: it holds the keys of the errors held, so  *)
(* that a panic has an error to blame, and a key arrives once.             *)
(***************************************************************************)

\* Each process has a registry and errors of its own.
ErrorTypeOK ==
    /\ codes = [p \in Processes |-> codes[p]]
    /\ errorsHeld = [p \in Processes |-> errorsHeld[p]]

\* What was got is what FromError makes of the status of what was sent
\* (errors.go GRPCStatus, FromError).
CarriedByStatus ==
    \A c \in carried : c.to \in Processes /\ c.got = ForStatus(WireStatus(c.from, c.sent))

\* The registry holds the keys of the errors that are held (errors.go New).
HeldAreDocumented == \A p \in Processes : codes[p] = KeysOf(errorsHeld[p])

\* What a transmission found or left in the registry of the receiver (errors.go New).
PanicsHaveKeys ==
    \A c \in carried : c.ended = "panicked" => KeysOf(c.got) \cap codes[c.to] # {}
ReturnsHaveKeys == \A c \in carried : c.ended = "returned" => KeysOf(c.got) \subseteq codes[c.to]
OnlyTheFirst ==
    \A b, c \in carried :
        /\ b.to = c.to /\ b.ended = "returned" /\ c.ended = "returned"
        /\ KeysOf(b.got) \cap KeysOf(c.got) # {}
        => b = c

\* The inductive invariant of errors.go.
ErrorInv ==
    /\ ErrorTypeOK /\ CarriedByStatus /\ HeldAreDocumented
    /\ PanicsHaveKeys /\ ReturnsHaveKeys /\ OnlyTheFirst

\* New registers what it makes, or panics and makes nothing.
LEMMA MakeInv ==
    ASSUME ErrorTypeOK, HeldAreDocumented, NEW p \in Processes, NEW errs, Make(p, errs)
    PROVE  /\ ErrorTypeOK' /\ HeldAreDocumented'
           /\ \A q \in Processes : codes[q] \subseteq codes'[q]
           /\ answer' = "panicked" => KeysOf(errs) \cap codes'[p] # {}
           /\ answer' = "returned" => /\ KeysOf(errs) \subseteq codes'[p]
                                      /\ KeysOf(errs) \cap codes[p] = {}
<1>1. CASE /\ KeysOf(errs) \cap codes[p] # {} /\ answer' = "panicked"
           /\ UNCHANGED <<codes, errorsHeld>>
  BY <1>1 DEF ErrorTypeOK, HeldAreDocumented
<1>2. CASE /\ KeysOf(errs) \cap codes[p] = {} /\ answer' = "returned"
           /\ codes' = [codes EXCEPT ![p] = @ \cup KeysOf(errs)]
           /\ errorsHeld' = [errorsHeld EXCEPT ![p] = @ \cup errs]
  <2>1. /\ ErrorTypeOK'
        /\ codes'[p] = codes[p] \cup KeysOf(errs) /\ errorsHeld'[p] = errorsHeld[p] \cup errs
        /\ \A q \in Processes : q # p => codes'[q] = codes[q] /\ errorsHeld'[q] = errorsHeld[q]
    BY <1>2 DEF ErrorTypeOK
  <2>2. KeysOf(errorsHeld[p] \cup errs) = KeysOf(errorsHeld[p]) \cup KeysOf(errs)
    BY DEF KeysOf
  <2>3. HeldAreDocumented'
    BY <2>1, <2>2 DEF HeldAreDocumented
  <2>. QED BY <1>2, <2>1, <2>3
<1>. QED BY <1>1, <1>2 DEF Make

\* A call that sends nothing.
LEMMA NothingSent ==
    ASSUME ErrorInv, NEW p \in Processes, NEW errs, Make(p, errs), UNCHANGED carried
    PROVE  ErrorInv'
<1>1. /\ ErrorTypeOK' /\ HeldAreDocumented'
      /\ \A q \in Processes : codes[q] \subseteq codes'[q]
  BY MakeInv DEF ErrorInv
<1>2. CarriedByStatus' /\ OnlyTheFirst'
  BY DEF ErrorInv, CarriedByStatus, OnlyTheFirst
<1>3. PanicsHaveKeys' /\ ReturnsHaveKeys'
  BY <1>1 DEF ErrorInv, CarriedByStatus, PanicsHaveKeys, ReturnsHaveKeys
<1>. QED BY <1>1, <1>2, <1>3 DEF ErrorInv

LEMMA TransmitInv ==
    ASSUME ErrorInv, NEW p \in Processes, NEW q \in Processes, NEW e, Transmit(p, q, e)
    PROVE  ErrorInv'
<1>1. PICK got : got = ForStatus(WireStatus(p, e))
  OBVIOUS
<1>2. PICK s : s = [from |-> p, to |-> q, sent |-> e, got |-> got, ended |-> answer']
  OBVIOUS
<1>3. /\ Make(q, got) /\ carried' = carried \cup {s}
      /\ s.from = p /\ s.to = q /\ s.sent = e /\ s.got = got /\ s.ended = answer'
  BY <1>1, <1>2 DEF Transmit
<1>4. /\ ErrorTypeOK' /\ HeldAreDocumented'
      /\ \A r \in Processes : codes[r] \subseteq codes'[r]
      /\ answer' = "panicked" => KeysOf(got) \cap codes'[q] # {}
      /\ answer' = "returned" => /\ KeysOf(got) \subseteq codes'[q]
                                 /\ KeysOf(got) \cap codes[q] = {}
  BY <1>3, MakeInv DEF ErrorInv
<1>5. CarriedByStatus'
  BY <1>1, <1>3 DEF ErrorInv, CarriedByStatus
<1>6. PanicsHaveKeys' /\ ReturnsHaveKeys'
  BY <1>3, <1>4 DEF ErrorInv, CarriedByStatus, PanicsHaveKeys, ReturnsHaveKeys
<1>7. OnlyTheFirst'
  <2>1. ASSUME NEW c \in carried, c.to = q, c.ended = "returned", answer' = "returned"
        PROVE  KeysOf(c.got) \cap KeysOf(got) = {}
    BY <1>4, <2>1 DEF ErrorInv, ReturnsHaveKeys
  <2>. QED BY <1>3, <2>1 DEF ErrorInv, OnlyTheFirst
<1>. QED BY <1>4, <1>5, <1>6, <1>7 DEF ErrorInv

\* ErrorInv holds in every state of every behaviour of errors.go.
THEOREM ErrorInductive == ErrorSpec => []ErrorInv
<1>1. ErrorInit => ErrorInv
  BY DEF ErrorInit, ErrorInv, ErrorTypeOK, CarriedByStatus, HeldAreDocumented, PanicsHaveKeys,
         ReturnsHaveKeys, OnlyTheFirst, KeysOf
<1>2. ErrorInv /\ [ErrorNext]_errorVars => ErrorInv'
  <2>. SUFFICES ASSUME ErrorInv, [ErrorNext]_errorVars PROVE ErrorInv'
    OBVIOUS
  <2>1. CASE UNCHANGED errorVars
    BY <2>1 DEF errorVars, ErrorInv, ErrorTypeOK, CarriedByStatus, HeldAreDocumented,
                PanicsHaveKeys, ReturnsHaveKeys, OnlyTheFirst
  <2>2. ASSUME NEW p, NEW code, NEW r, NEW m, NEW md, p \in Processes, Newf(p, code, r, m, md)
        PROVE  ErrorInv'
    BY <2>2, NothingSent DEF Newf
  <2>3. ASSUME NEW p \in Processes, NEW grpc, NEW m, NEW details, FromError(p, grpc, m, details)
        PROVE  ErrorInv'
    BY <2>3, NothingSent DEF FromError
  <2>4. ASSUME NEW p \in Processes, NEW r, NEW language, FromPlain(p, r, language)
        PROVE  ErrorInv'
    BY <2>4, NothingSent DEF FromPlain
  <2>. QED BY <2>1, <2>2, <2>3, <2>4, TransmitInv DEF ErrorNext
<1>. QED BY <1>1, <1>2, PTL DEF ErrorSpec

\* The codes that questions ask for come back from gRPC's (httputil/http.go).
LEMMA CodesComeBack ==
    \A code \in AskedFor : StatusFromGRPCCode(GRPCCodeFromStatus(code)) = code
<1>1. AskedFor = {400, 401, 403, 404, 409, 500, 499, 503, 504}
  BY DEF AskedFor, BadRequest, Unauthorized, Forbidden, NotFound, Conflict, InternalServer,
         ClientClosed, ServiceUnavailable, GatewayTimeout
<1>2. /\ GRPCCodeFromStatus(400) = "InvalidArgument"
      /\ GRPCCodeFromStatus(401) = "Unauthenticated"
      /\ GRPCCodeFromStatus(403) = "PermissionDenied" /\ GRPCCodeFromStatus(404) = "NotFound"
      /\ GRPCCodeFromStatus(409) = "Aborted" /\ GRPCCodeFromStatus(500) = "Internal"
      /\ GRPCCodeFromStatus(499) = "Canceled" /\ GRPCCodeFromStatus(503) = "Unavailable"
      /\ GRPCCodeFromStatus(504) = "DeadlineExceeded"
  BY DEF GRPCCodeFromStatus
<1>3. /\ StatusFromGRPCCode("InvalidArgument") = 400
      /\ StatusFromGRPCCode("Unauthenticated") = 401
      /\ StatusFromGRPCCode("PermissionDenied") = 403 /\ StatusFromGRPCCode("NotFound") = 404
      /\ StatusFromGRPCCode("Aborted") = 409 /\ StatusFromGRPCCode("Internal") = 500
      /\ StatusFromGRPCCode("Canceled") = 499 /\ StatusFromGRPCCode("Unavailable") = 503
      /\ StatusFromGRPCCode("DeadlineExceeded") = 504
  BY DEF StatusFromGRPCCode
<1>. QED BY <1>1, <1>2, <1>3

\* What FromError makes of what gRPC sends for an error (errors.go GRPCStatus, FromError).
LEMMA WireIs ==
    ASSUME NEW p, NEW e
    PROVE  /\ ~(p \in Outer \/ e.code = 200) => ForStatus(WireStatus(p, e)) =
                {Error(StatusFromGRPCCode(GRPCCodeFromStatus(e.code)),
                       e.reason, e.message, e.metadata)}
           /\ p \in Outer \/ e.code = 200 => \E m : ForStatus(WireStatus(p, e)) =
                {Error(UnknownCode, NoReason, m, NoMetadata)}
<1>1. GRPCCodeFromStatus(e.code) = "OK" <=> e.code = 200
  BY DEF GRPCCodeFromStatus
<1>2. PICK s : s = WireStatus(p, e)
  OBVIOUS
<1>3. CASE p \in Outer \/ e.code = 200
  <2>1. s.grpc = "Unknown" /\ s.message = Printed(e) /\ s.details = {}
    BY <1>1, <1>2, <1>3 DEF WireStatus, HasStatus
  <2>2. ForStatus(s) = {Error(UnknownCode, NoReason, <<"rpc error", s.grpc>> \o s.message, NoMetadata)}
    BY <2>1 DEF ForStatus
  <2>. QED BY <1>2, <1>3, <2>2
<1>4. CASE ~(p \in Outer \/ e.code = 200)
  <2>1. PICK d : d = <<e.reason, e.metadata>>
    OBVIOUS
  <2>2. /\ s.grpc = GRPCCodeFromStatus(e.code) /\ s.grpc # "OK"
        /\ s.message = e.message /\ s.details = {d}
    BY <1>1, <1>2, <1>4, <2>1 DEF WireStatus, HasStatus, GRPCStatus
  <2>3. ForStatus(s) = {Error(StatusFromGRPCCode(s.grpc), x[1], s.message, x[2]) : x \in {d}}
    BY <2>2 DEF ForStatus
  <2>4. d[1] = e.reason /\ d[2] = e.metadata
    BY <2>1
  <2>5. ForStatus(s) = {Error(StatusFromGRPCCode(s.grpc), d[1], s.message, d[2])}
    BY <2>3
  <2>. QED BY <1>2, <1>4, <2>2, <2>4, <2>5
<1>. QED BY <1>3, <1>4

\* Between any processes of either package: what arrives whole and what anonymous, which
\* error a panic is over, and what is documented (errors.go GRPCStatus, New, FromError;
\* gen.go).
THEOREM ErrorsArriveWhole == ErrorSpec => []ErrorsSurviveTheWire
<1>1. ErrorInv => ErrorsSurviveTheWire
  <2>. SUFFICES ASSUME ErrorInv PROVE ErrorsSurviveTheWire
    OBVIOUS
  <2>1. ASSUME NEW c \in carried
        PROVE  /\ c.got # {}
               /\ \A e \in c.got : IF c.from \in Outer \/ c.sent.code = 200
                                   THEN Anonymous(e) ELSE Whole(c.sent, e)
    <3>1. c.got = ForStatus(WireStatus(c.from, c.sent))
      BY DEF ErrorInv, CarriedByStatus
    <3>2. CASE c.from \in Outer \/ c.sent.code = 200
      <4>1. PICK m : c.got = {Error(UnknownCode, NoReason, m, NoMetadata)}
        BY <3>1, <3>2, WireIs
      <4>2. PICK e : c.got = {e} /\ e = Error(UnknownCode, NoReason, m, NoMetadata)
        BY <4>1
      <4>3. Anonymous(e)
        BY <4>2 DEF Error, Anonymous, Code, Reason, InternalServer, UnknownCode
      <4>. QED BY <3>2, <4>2, <4>3
    <3>3. CASE ~(c.from \in Outer \/ c.sent.code = 200)
      <4>1. PICK e : c.got = {e} /\ e = Error(StatusFromGRPCCode(GRPCCodeFromStatus(c.sent.code)),
                                              c.sent.reason, c.sent.message, c.sent.metadata)
        BY <3>1, <3>3, WireIs
      <4>2. Is(e, c.sent) /\ Is(c.sent, e) /\ Reason(e) = c.sent.reason
        BY <4>1 DEF Error, Is, Reason
      <4>3. e.message = c.sent.message /\ e.metadata = c.sent.metadata
        BY <4>1 DEF Error
      <4>4. c.sent.code \in AskedFor => Code({e}) = c.sent.code
        BY <4>1, CodesComeBack DEF Error, Code
      <4>. QED BY <3>3, <4>1, <4>2, <4>3, <4>4 DEF Whole
    <3>. QED BY <3>2, <3>3
  <2>2. ASSUME NEW c \in carried, c.ended = "panicked"
        PROVE  \E e \in c.got, h \in errorsHeld[c.to] : e.reason # NoReason /\ Key(h) = Key(e)
    <3>1. c.to \in Processes /\ KeysOf(c.got) \cap KeysOf(errorsHeld[c.to]) # {}
      BY <2>2 DEF ErrorInv, CarriedByStatus, PanicsHaveKeys, HeldAreDocumented
    <3>. QED BY <3>1 DEF KeysOf
  <2>3. ASSUME NEW b \in carried, NEW c \in carried, b.to = c.to, b.ended = "returned",
               c.ended = "returned", SameKey(b, c)
        PROVE  b = c
    <3>1. PICK d \in b.got, e \in c.got : d.reason # NoReason /\ Key(d) = Key(e)
      BY <2>3 DEF SameKey, Reason
    <3>2. e.reason = d.reason
      BY <3>1 DEF Key
    <3>3. Key(d) \in KeysOf(b.got) \cap KeysOf(c.got)
      BY <3>1, <3>2 DEF KeysOf
    <3>. QED BY <2>3, <3>3 DEF ErrorInv, OnlyTheFirst
  <2>4. \A p \in Processes : GenErrCodeDoc(p) = KeysOf(errorsHeld[p])
    BY DEF ErrorInv, HeldAreDocumented, GenErrCodeDoc
  <2>. QED BY <2>1, <2>2, <2>3, <2>4 DEF ErrorsSurviveTheWire
<1>. QED BY <1>1, ErrorInductive, PTL

----------------------------------------------------------------------------
(*************************************************************************)
(* TimeUuids, for any times, any number of calls and any width of the    *)
(* clock sequence from two bits on.                                      *)
(*                                                                       *)
(* Every UUID made so far is some increases of the sequence back, and    *)
(* its bits are the sequence's of then, up to whole rounds of the kept   *)
(* bits. No increases back means that the clock has only run on since.   *)
(*************************************************************************)

UuidTypeOK ==
    /\ clock \in Times
    /\ clockSequence \in Sequences_ \cup {Unset}
    /\ lastTime \in Nat /\ stepped \in Nat
    /\ made \subseteq [time: Nat, sequence: Nat]
    /\ clockSequence = Unset => made = {}

\* u was made d increases ago (uuid.go getStorage).
MadeAgo(u, d) ==
    /\ \E rounds \in Int : clockSequence - d - u.sequence = rounds * Kept
    /\ d = 0 => u.time <= lastTime
UuidInv ==
    /\ UuidTypeOK
    /\ \A u \in made : \E d \in 0..stepped : MadeAgo(u, d)
    /\ UuidsNeverRepeat

\* How many values the kept bits have.
LEMMA KeptIs == Kept \in Nat \ {0} /\ SequenceValues = 4 * Kept
<1>1. SequenceValues \in Nat \ {0} /\ SequenceValues % 4 = 0
  BY UuidAssumption DEF UuidAssumption
<1>. QED BY <1>1 DEF Kept

\* The kept bits of a sequence are the sequence, up to whole rounds.
LEMMA WithVariantIs ==
    ASSUME NEW s \in Nat
    PROVE  WithVariant(s) \in Nat /\ \E rounds \in Int : s - WithVariant(s) = rounds * Kept
<1>1. PICK k \in Nat \ {0} : k = Kept
  BY KeptIs
<1>2. PICK r \in Int : r = s \div k
  BY <1>1
<1>3. PICK v \in Int : v = s % k /\ v >= 0
  BY <1>1
<1>4. s = k * r + v
  BY <1>2, <1>3
<1>5. s - v = r * k
  BY <1>4
<1>. QED BY <1>1, <1>3, <1>5 DEF WithVariant

\* The sequence, increased, is one more, up to whole rounds of the kept bits.
LEMMA IncreasedIs ==
    ASSUME NEW s \in Sequences_
    PROVE  LET next == (s + 1) % SequenceValues IN
           next \in Sequences_ /\ \E rounds \in Int : next - (s + 1) = rounds * Kept
<1>1. PICK k \in Nat \ {0} : k = Kept /\ SequenceValues = 4 * k
  BY KeptIs
<1>2. s \in 0..(4 * k - 1)
  BY <1>1 DEF Sequences_
<1>3. CASE s + 1 < 4 * k
  <2>1. (s + 1) % (4 * k) = s + 1
    BY <1>1, <1>2, <1>3
  <2>2. (s + 1) - (s + 1) = 0 * k
    BY <1>1, <1>2
  <2>. QED BY <1>1, <1>2, <1>3, <2>1, <2>2 DEF Sequences_
<1>4. CASE s + 1 = 4 * k
  <2>1. (s + 1) % (4 * k) = 0
    BY <1>1, <1>2, <1>4
  <2>2. 0 - (s + 1) = (-4) * k
    BY <1>1, <1>2, <1>4
  <2>3. -4 \in Int /\ 0 \in Sequences_
    BY <1>1 DEF Sequences_
  <2>. QED BY <1>1, <2>1, <2>2, <2>3
<1>. QED BY <1>1, <1>2, <1>3, <1>4

\* Whole rounds that are at least one increase are at least one round.
LEMMA RoundsAreLong ==
    ASSUME NEW k \in Nat \ {0}, NEW r \in Int, r * k >= 1
    PROVE  r * k >= k
<1>1. CASE r >= 1
  BY <1>1
<1>2. CASE r <= 0
  <2>1. r * k <= 0
    BY <1>2
  <2>. QED BY <2>1
<1>. QED BY <1>1, <1>2

LEMMA UuidInitInv == IdInit => UuidInv
BY UuidAssumption DEF UuidAssumption, IdInit, UuidInv, UuidTypeOK, UuidsNeverRepeat, Unset,
   Sequences_

\* A call sees the clock ahead, and leaves the sequence, or behind, and increases it.
\* Before the first call there is nothing that it could repeat.
LEMMA StorageIs ==
    ASSUME UuidInv, getStorage
    PROVE  /\ made' = made => UuidTypeOK'
           /\ clockSequence' \in Sequences_ /\ lastTime' = clock /\ clock \in Nat
           /\ clock' = clock /\ stepped' \in {stepped, stepped + 1}
           /\ \A u \in made : \E d \in 0..stepped' :
                  MadeAgo(u, d)' /\ (d = 0 => u.time < clock)
<1>1. PICK k \in Nat \ {0} : k = Kept /\ SequenceValues = 4 * k
  BY KeptIs
<1>2. /\ clock \in Nat /\ lastTime \in Nat /\ stepped \in Nat /\ clock \in Times
      /\ made \subseteq [time: Nat, sequence: Nat]
      /\ clockSequence \in Sequences_ \cup {Unset}
  BY UuidAssumption DEF UuidAssumption, UuidInv, UuidTypeOK
<1>3. lastTime' = clock /\ clock' = clock /\ stepped' = (IF Behind THEN stepped + 1 ELSE stepped)
  BY DEF getStorage
<1>4. PICK s \in Sequences_ :
         /\ clockSequence' = IF Behind THEN (s + 1) % SequenceValues ELSE s
         /\ clockSequence # Unset => s = clockSequence
  BY <1>2 DEF getStorage
<1>5. s \in Int /\ Sequences_ \subseteq Nat
  BY <1>1 DEF Sequences_
<1>6. clockSequence' \in Sequences_
  BY <1>4, IncreasedIs
<1>7. ASSUME NEW u \in made
      PROVE  \E d \in 0..stepped' : MadeAgo(u, d)' /\ (d = 0 => u.time < clock)
  <2>1. clockSequence \in Sequences_ /\ s = clockSequence
    BY <1>2, <1>4 DEF UuidInv, UuidTypeOK
  <2>2. PICK d \in 0..stepped : MadeAgo(u, d)
    BY DEF UuidInv
  <2>3. d \in Nat /\ u.sequence \in Int /\ u.time \in Nat
    BY <1>2
  <2>4. \E r \in Int : s - d - u.sequence = r * k
    BY <1>1, <2>1, <2>2 DEF MadeAgo
  <2>5. CASE Behind
    <3>1. PICK n \in Int : n = (s + 1) % SequenceValues /\ clockSequence' = n
      BY <1>4, <1>5, <1>6, <2>5
    <3>2. PICK q \in Int : n - (s + 1) = q * k
      BY <1>1, <3>1, IncreasedIs
    <3>3. PICK r \in Int : s - d - u.sequence = r * k
      BY <2>4
    <3>4. n - (d + 1) - u.sequence = (q + r) * k
      BY <1>5, <2>3, <3>1, <3>2, <3>3
    <3>5. PICK m \in Int : n - (d + 1) - u.sequence = m * k
      BY <3>4
    <3>6. PICK e \in 0..stepped' : e = d + 1 /\ e # 0
      BY <1>2, <1>3, <2>3, <2>5
    <3>7. MadeAgo(u, e)'
      BY <1>1, <3>1, <3>5, <3>6 DEF MadeAgo
    <3>. QED BY <3>6, <3>7
  <2>6. CASE ~Behind
    <3>1. clockSequence' = s /\ stepped' = stepped
      BY <1>3, <1>4, <2>6
    <3>2. lastTime < clock
      BY <1>2, <2>6 DEF Behind
    <3>3. d = 0 => u.time < clock
      BY <1>2, <2>2, <2>3, <3>2 DEF MadeAgo
    <3>4. MadeAgo(u, d)'
      BY <1>1, <1>2, <1>3, <2>3, <2>4, <3>1, <3>3 DEF MadeAgo
    <3>. QED BY <3>1, <3>3, <3>4
  <2>. QED BY <2>5, <2>6
<1>8. made' = made => UuidTypeOK'
  BY <1>2, <1>3, <1>5, <1>6 DEF UuidTypeOK, Unset
<1>. QED BY <1>2, <1>3, <1>6, <1>7, <1>8

\* A UUID that is made a second time was made whole rounds ago.
LEMMA NewV1Inv ==
    ASSUME UuidInv, NewV1
    PROVE  UuidInv'
<1>1. PICK k \in Nat \ {0} : k = Kept
  BY KeptIs
<1>2. getStorage
  BY DEF NewV1
<1>3. PICK n \in Sequences_ : clockSequence' = n
  BY <1>2, StorageIs
<1>4. n \in Nat /\ n # Unset
  BY <1>3, KeptIs DEF Sequences_, Unset
<1>5. PICK v \in Nat : v = WithVariant(n) /\ \E r \in Int : n - v = r * k
  BY <1>1, <1>4, WithVariantIs
<1>6. PICK new \in [time: Nat, sequence: Nat] : new = V1(clock, clockSequence')
  BY <1>2, <1>3, <1>5, StorageIs DEF V1
<1>7. new.time = clock /\ new.sequence = v
  BY <1>3, <1>5, <1>6 DEF V1
<1>8. /\ made' = made \cup {new} /\ repeated' = (repeated \/ new \in made)
      /\ made \subseteq [time: Nat, sequence: Nat] /\ stepped \in Nat
  BY <1>6 DEF NewV1, UuidInv, UuidTypeOK
<1>9. stepped' \in Nat /\ stepped' >= stepped
  BY <1>2, <1>8, StorageIs
<1>10. UuidTypeOK'
  <2>1. made' \subseteq [time: Nat, sequence: Nat]
    BY <1>8
  <2>2. clock' = clock /\ clock \in Times /\ lastTime' \in Nat
    BY <1>2, StorageIs DEF UuidInv, UuidTypeOK
  <2>. QED BY <1>3, <1>4, <1>9, <2>1, <2>2 DEF UuidTypeOK
<1>11. MadeAgo(new, 0)'
  <2>1. n - 0 - new.sequence = n - v
    BY <1>4, <1>5, <1>7
  <2>2. new.time <= lastTime'
    BY <1>2, <1>7, StorageIs
  <2>. QED BY <1>1, <1>3, <1>5, <2>1, <2>2 DEF MadeAgo
<1>12. \A u \in made' : \E d \in 0..stepped' : MadeAgo(u, d)'
  BY <1>2, <1>8, <1>9, <1>11, StorageIs
<1>13. UuidsNeverRepeat'
  <2>1. CASE new \in made
    <3>1. PICK d \in 0..stepped' : MadeAgo(new, d)' /\ (d = 0 => new.time < clock)
      BY <1>2, <2>1, StorageIs
    <3>2. d >= 1 /\ d \in Int
      BY <1>2, <1>7, <1>9, <3>1, StorageIs
    <3>3. PICK r \in Int : n - d - v = r * k
      BY <1>1, <1>3, <1>7, <3>1 DEF MadeAgo
    <3>4. PICK q \in Int : n - v = q * k
      BY <1>5
    <3>5. d = (q - r) * k
      BY <1>4, <1>5, <3>2, <3>3, <3>4
    <3>6. PICK m \in Int : m = q - r
      OBVIOUS
    <3>7. m * k >= k
      BY <3>2, <3>5, <3>6, RoundsAreLong
    <3>8. stepped' >= k
      BY <1>9, <3>1, <3>2, <3>5, <3>6, <3>7
    <3>. QED BY <1>1, <3>8 DEF UuidsNeverRepeat
  <2>2. CASE new \notin made
    <3>1. repeated' => repeated
      BY <1>8, <2>2
    <3>. QED BY <1>8, <1>9, <3>1, KeptIs DEF UuidInv, UuidsNeverRepeat
  <2>. QED BY <2>1, <2>2
<1>. QED BY <1>10, <1>12, <1>13 DEF UuidInv

\* The inductive invariant of the generator holds (uuid.go getStorage, NewV1, NewV2).
THEOREM UuidInductive == UuidSpec => []UuidInv
<1>1. UuidInv /\ [IdNext]_idVars => UuidInv'
  <2>. SUFFICES ASSUME UuidInv, [IdNext]_idVars PROVE UuidInv'
    OBVIOUS
  <2>1. CASE ClockMoves
    BY <2>1 DEF ClockMoves, UuidInv, UuidTypeOK, MadeAgo, UuidsNeverRepeat, Kept, Sequences_
  <2>2. CASE NewV2
    <3>1. getStorage /\ made' = made /\ repeated' = repeated
      BY <2>2 DEF NewV2
    <3>2. UuidTypeOK' /\ \A u \in made' : \E d \in 0..stepped' : MadeAgo(u, d)'
      BY <3>1, StorageIs
    <3>3. UuidsNeverRepeat'
      <4>1. stepped' >= stepped /\ stepped \in Nat /\ stepped' \in Nat
        BY <3>1, StorageIs DEF UuidInv, UuidTypeOK
      <4>2. repeated' => repeated
        BY <3>1
      <4>. QED BY <4>1, <4>2, KeptIs DEF UuidInv, UuidsNeverRepeat
    <3>. QED BY <3>2, <3>3 DEF UuidInv
  <2>3. CASE UNCHANGED idVars
    BY <2>3 DEF idVars, UuidInv, UuidTypeOK, MadeAgo, UuidsNeverRepeat, Kept, Sequences_
  <2>. QED BY <2>1, <2>2, <2>3, NewV1Inv DEF IdNext
<1>. QED BY <1>1, UuidInitInv, PTL DEF UuidSpec

\* NewV1 makes no UUID twice until the clock sequence has been increased as often as
\* its kept bits have values, however the clock moves (uuid.go getStorage).
THEOREM UuidsComeOnce == UuidSpec => []UuidsNeverRepeat
<1>1. UuidInv => UuidsNeverRepeat
  BY DEF UuidInv
<1>. QED BY <1>1, UuidInductive, PTL

----------------------------------------------------------------------------
(*************************************************************************)
(* Induction over the naturals for a set, which the provers can apply     *)
(* where they cannot instantiate a predicate: the intervals 1..n are      *)
(* finite sets, and inclusion is well-founded on those. With it come the  *)
(* facts about FlattenSeq, which is defined by recursion.                 *)
(*************************************************************************)

\* Every set of naturals but the empty one has a least element.
LEMMA LeastNat ==
  ASSUME NEW T \in SUBSET Nat, T # {}
  PROVE  \E x \in T : \A y \in T : x <= y
<1> DEFINE Up == {1..n : n \in T}
<1>1. \A n \in T : n \in Nat OBVIOUS
<1>2. Up \subseteq FiniteSubsetsOf(Nat)
  <2> SUFFICES ASSUME NEW n \in T PROVE 1..n \in FiniteSubsetsOf(Nat)
    OBVIOUS
  <2>1. IsFiniteSet(1..n) BY <1>1, FS_Interval
  <2>2. 1..n \subseteq Nat BY <1>1
  <2> QED BY <2>1, <2>2 DEF FiniteSubsetsOf
<1>3. Up # {} OBVIOUS
<1> HIDE DEF Up
<1>4. IsWellFoundedOn(StrictSubsetOrdering(Nat), FiniteSubsetsOf(Nat))
  BY FS_StrictSubsetOrderingWellFounded
<1>5. PICK u \in Up : \A v \in Up : <<v, u>> \notin StrictSubsetOrdering(Nat)
  BY <1>2, <1>3, <1>4, WFMin
<1>6. PICK x \in T : u = 1..x BY DEF Up
<1>7. \A y \in T : x <= y
  <2> SUFFICES ASSUME NEW y \in T, y < x PROVE FALSE BY <1>1
  <2>1. y \in Nat /\ x \in Nat BY <1>1
  <2>2. 1..y \in Up BY DEF Up
  <2>3. 1..y \subseteq 1..x /\ 1..y # 1..x
    <3>1. x \in 1..x /\ x \notin 1..y BY <2>1
    <3> QED BY <2>1, <3>1
  <2>4. 1..y \in SUBSET Nat /\ 1..x \in SUBSET Nat BY <2>1
  <2> QED BY <1>5, <1>6, <2>2, <2>3, <2>4 DEF StrictSubsetOrdering
<1> QED BY <1>7

\* Induction over the naturals, for a set instead of a predicate.
LEMMA NatSetInduction ==
  ASSUME NEW S \in SUBSET Nat, 0 \in S, \A n \in S : n + 1 \in S
  PROVE  S = Nat
<1> SUFFICES ASSUME Nat \ S # {} PROVE FALSE OBVIOUS
<1>1. Nat \ S \in SUBSET Nat OBVIOUS
<1>2. PICK x \in Nat \ S : \A y \in Nat \ S : x <= y BY <1>1, LeastNat
<1>3. x # 0 OBVIOUS
<1>4. x - 1 \in Nat BY <1>3
<1>5. x - 1 \notin Nat \ S BY <1>2, <1>4
<1>6. (x - 1) + 1 \in S BY <1>4, <1>5
<1> QED BY <1>4, <1>6

\* The function that FlattenSeq defines, up to n.
Joins(g, ss, n) == g = [i \in 1..n |-> IF i = 1 THEN ss[i] ELSE g[i-1] \o ss[i]]

LEMMA JoinExists ==
  ASSUME NEW ss, NEW n \in Nat
  PROVE  \E g : Joins(g, ss, n)
<1> DEFINE S == {m \in Nat : \E g : Joins(g, ss, m)}
<1>1. 0 \in S
  <2>1. Joins(<<>>, ss, 0) BY DEF Joins
  <2> QED BY <2>1
<1>2. ASSUME NEW m \in S PROVE m + 1 \in S
  <2>1. m \in Nat OBVIOUS
  <2>2. PICK g : Joins(g, ss, m) OBVIOUS
  <2>3. g = [i \in 1..m |-> IF i = 1 THEN ss[i] ELSE g[i-1] \o ss[i]] BY <2>2 DEF Joins
  <2> DEFINE h == [i \in 1..(m + 1) |-> IF i = 1 THEN ss[i] ELSE g[i-1] \o ss[i]]
  <2>4. ASSUME NEW i \in 1..m PROVE h[i] = g[i]
    <3>1. g[i] = IF i = 1 THEN ss[i] ELSE g[i-1] \o ss[i] BY <2>3
    <3>2. i \in 1..(m + 1) BY <2>1
    <3>3. h[i] = IF i = 1 THEN ss[i] ELSE g[i-1] \o ss[i] BY <3>2
    <3> QED BY <3>1, <3>3
  <2>5. ASSUME NEW i \in 1..(m + 1), i # 1 PROVE g[i-1] = h[i-1]
    <3>1. i - 1 \in 1..m BY <2>1, <2>5
    <3> QED BY <2>4, <3>1
  <2>6. h = [i \in 1..(m + 1) |-> IF i = 1 THEN ss[i] ELSE h[i-1] \o ss[i]]
    BY <2>5
  <2> HIDE DEF h
  <2>7. Joins(h, ss, m + 1) BY <2>6 DEF Joins
  <2> QED BY <2>1, <2>7
<1> HIDE DEF S
<1>3. S \in SUBSET Nat BY DEF S
<1>4. S = Nat BY <1>1, <1>2, <1>3, NatSetInduction
<1> QED BY <1>4 DEF S

LEMMA FlattenIsJoin ==
  ASSUME NEW ss, Len(ss) \in Nat \ {0}
  PROVE  \E g : Joins(g, ss, Len(ss)) /\ FlattenSeq(ss) = g[Len(ss)]
<1>1. \E g : Joins(g, ss, Len(ss)) BY JoinExists
<1> DEFINE f == CHOOSE g : Joins(g, ss, Len(ss))
<1>2. Joins(f, ss, Len(ss)) BY <1>1
<1>3. FlattenSeq(ss) = f[Len(ss)] BY DEF FlattenSeq, Joins
<1> QED BY <1>2, <1>3

----------------------------------------------------------------------------
(*************************************************************************)
(* Settings, for any configuration file, environment and interfaces.      *)
(*                                                                       *)
(* ConfigureWithViper derives settings from settings: every one is        *)
(* followed through the steps in their order, from its default by way of  *)
(* the file to where it rests.                                            *)
(*************************************************************************)

LEMMA KeysApart ==
    /\ \A k \in FlagKeys : k \notin TextKeys
    /\ \A k \in NumberKeys : k \notin TextKeys /\ k \notin FlagKeys
    /\ \A k \in OtherSettings : k \notin SettingKeys
<1>1. \A k \in FlagKeys : k \notin TextKeys
  BY DEF FlagKeys, TrueByDefault, FalseByDefault, TextKeys, DefaultedTexts, OtherTexts
<1>2. \A k \in NumberKeys : k \notin TextKeys
  BY DEF NumberKeys, TextKeys, DefaultedTexts, OtherTexts
<1>3. \A k \in NumberKeys : k \notin FlagKeys
  BY DEF NumberKeys, FlagKeys, TrueByDefault, FalseByDefault
<1>4. \A k \in OtherSettings : k \notin SettingKeys
  <2>1. \A k \in OtherSettings : k \notin TextKeys
    BY DEF OtherSettings, TextKeys, DefaultedTexts, OtherTexts
  <2>2. \A k \in OtherSettings : k \notin FlagKeys
    BY DEF OtherSettings, FlagKeys, TrueByDefault, FalseByDefault
  <2>3. \A k \in OtherSettings : k \notin NumberKeys
    BY DEF OtherSettings, NumberKeys
  <2> QED BY <2>1, <2>2, <2>3 DEF SettingKeys
<1> QED BY <1>1, <1>2, <1>3, <1>4

AllSettings == SettingKeys \cup OtherSettings

LEMMA NamedSettings ==
    /\ Derived \subseteq TextKeys
    /\ {"welcomeMessage", "fileService", "application.appName", "rootDir",
        "application.environment"} \subseteq TextKeys
    /\ Derived \cup {"welcomeMessage"} \subseteq AllSettings
    /\ OtherSettings \subseteq AllSettings
<1>1. Derived \subseteq TextKeys BY DEF Derived, TextKeys, OtherTexts
<1>2. {"welcomeMessage", "fileService", "application.appName", "rootDir",
       "application.environment"} \subseteq TextKeys
  BY DEF TextKeys, OtherTexts, DefaultedTexts
<1> QED BY <1>1, <1>2 DEF AllSettings, SettingKeys

LEMMA NewSettingsAre ==
    /\ DOMAIN NewSettings = AllSettings
    /\ \A k \in TextKeys : NewSettings[k] = DefaultText(k)
    /\ \A k \in {"External.H5BaseURL", "External.APIBaseURL"} : NewSettings[k] = Blank
<1>1. DOMAIN NewSettings = AllSettings BY DEF NewSettings, AllSettings
<1>2. \A k \in TextKeys : NewSettings[k] = DefaultText(k)
  BY KeysApart DEF NewSettings, SettingKeys, OtherSettings
<1>3. \A k \in {"External.H5BaseURL", "External.APIBaseURL"} :
        k \in OtherSettings /\ k \notin SettingKeys
  BY KeysApart DEF OtherSettings
<1>4. \A k \in {"External.H5BaseURL", "External.APIBaseURL"} : NewSettings[k] = Blank
  BY <1>3 DEF NewSettings, SettingKeys
<1> QED BY <1>1, <1>2, <1>4

LEMMA ReadKeysAre ==
  ASSUME NEW f, NEW c, DOMAIN c = AllSettings
  PROVE  /\ DOMAIN ReadKeys(f, c) = AllSettings
         /\ \A k \in TextKeys : ReadKeys(f, c)[k] = getString(f, k, Fallback(c, k))
         /\ \A k \in FlagKeys : ReadKeys(f, c)[k] = getBool(f, k, c[k])
         /\ \A k \in NumberKeys : ReadKeys(f, c)[k] = getInt(f, k, c[k])
         /\ \A k \in OtherSettings : ReadKeys(f, c)[k] = c[k]
<1>1. DOMAIN ReadKeys(f, c) = AllSettings BY DEF ReadKeys
<1>2. \A k \in TextKeys : ReadKeys(f, c)[k] = getString(f, k, Fallback(c, k))
  BY KeysApart DEF ReadKeys, AllSettings, SettingKeys
<1>3. \A k \in FlagKeys : ReadKeys(f, c)[k] = getBool(f, k, c[k])
  BY KeysApart DEF ReadKeys, AllSettings, SettingKeys
<1>4. \A k \in NumberKeys : ReadKeys(f, c)[k] = getInt(f, k, c[k])
  BY KeysApart DEF ReadKeys, AllSettings, SettingKeys
<1>5. \A k \in OtherSettings : ReadKeys(f, c)[k] = c[k]
  BY KeysApart DEF ReadKeys, AllSettings, SettingKeys
<1> QED BY <1>1, <1>2, <1>3, <1>4, <1>5

\* The steps of ConfigureWithViper after the file is read, one after the other.
LEMMA DerivedAre ==
  ASSUME NEW f, NEW c, NEW ip, DOMAIN c = AllSettings,
         NEW r, r = FileServices(configureLog(f, External(Welcome(c), ip)))
  PROVE  /\ \A k \in SettingKeys \ (Derived \cup {"welcomeMessage"}) : r[k] = c[k]
         /\ r["welcomeMessage"] = Filled(c["welcomeMessage"], c["application.appName"])
         /\ r["external.ip"] = OrElse(c["external.ip"], ip)
         /\ r["external.baseURL"] =
              OrElse(c["external.baseURL"], <<"http://">> \o r["external.ip"] \o <<":8090">>)
         /\ r["external.webLoginURL"] =
              OrElse(c["external.webLoginURL"], <<"http://">> \o r["external.ip"] \o <<":82">>)
         /\ r["External.H5BaseURL"] =
              OrElse(c["External.H5BaseURL"], r["external.baseURL"] \o <<"/web">>)
         /\ r["External.APIBaseURL"] =
              OrElse(c["External.APIBaseURL"], r["external.baseURL"] \o <<"/v1">>)
         /\ r["minio.url"] =
              IF r["fileService"] = <<"minio">>
              THEN OrElse(c["minio.url"], <<"http://">> \o r["external.ip"] \o <<":9000">>)
              ELSE c["minio.url"]
         /\ \A k \in {"minio.uploadURL", "minio.downloadURL"} :
              r[k] = OrElse(c[k], r["minio.url"])
<1> DEFINE w == Welcome(c)
           e == External(w, ip)
           l == configureLog(f, e)
<1> USE NamedSettings
<1>1. /\ DOMAIN w = AllSettings
      /\ \A k \in AllSettings \ {"welcomeMessage"} : w[k] = c[k]
      /\ w["welcomeMessage"] = Filled(c["welcomeMessage"], c["application.appName"])
  BY DEF Welcome
<1> HIDE DEF w
<1>2. \A k \in {"external.ip", "external.webLoginURL", "external.baseURL",
                "External.H5BaseURL", "External.APIBaseURL"} : k \in AllSettings
  BY DEF Derived, OtherSettings
<1>3. /\ DOMAIN e = AllSettings
      /\ e["external.ip"] = OrElse(w["external.ip"], ip)
      /\ e["external.baseURL"] =
           OrElse(w["external.baseURL"], <<"http://">> \o e["external.ip"] \o <<":8090">>)
      /\ e["external.webLoginURL"] =
           OrElse(w["external.webLoginURL"], <<"http://">> \o e["external.ip"] \o <<":82">>)
      /\ e["External.H5BaseURL"] =
           OrElse(w["External.H5BaseURL"], e["external.baseURL"] \o <<"/web">>)
      /\ e["External.APIBaseURL"] =
           OrElse(w["External.APIBaseURL"], e["external.baseURL"] \o <<"/v1">>)
      /\ \A k \in AllSettings \ {"external.ip", "external.webLoginURL", "external.baseURL",
                                 "External.H5BaseURL", "External.APIBaseURL"} : e[k] = w[k]
  BY <1>1, <1>2 DEF External
<1> HIDE DEF e
<1>4. /\ DOMAIN l = AllSettings
      /\ \A k \in AllSettings \ {"logger.level", "logger.dir", "logger.lineNum"} : l[k] = e[k]
  BY <1>3 DEF configureLog
<1> HIDE DEF l
<1>5. r = FileServices(l) BY DEF l, e, w
<1>6. /\ {"minio.url", "minio.uploadURL", "minio.downloadURL", "fileService",
          "external.ip"} \subseteq AllSettings
      /\ "fileService" \notin {"minio.url", "minio.uploadURL", "minio.downloadURL"}
  BY DEF Derived, AllSettings, SettingKeys
<1>7. /\ r["minio.url"] =
           IF l["fileService"] = <<"minio">>
           THEN OrElse(l["minio.url"], <<"http://">> \o l["external.ip"] \o <<":9000">>)
           ELSE l["minio.url"]
      /\ r["minio.uploadURL"] = OrElse(l["minio.uploadURL"], r["minio.url"])
      /\ r["minio.downloadURL"] = OrElse(l["minio.downloadURL"], r["minio.url"])
      /\ \A k \in AllSettings \ {"minio.url", "minio.uploadURL", "minio.downloadURL"} : r[k] = l[k]
  BY <1>4, <1>5, <1>6 DEF FileServices
<1>8. \A k \in SettingKeys \ (Derived \cup {"welcomeMessage"}) : r[k] = c[k]
  <2> SUFFICES ASSUME NEW k \in SettingKeys \ (Derived \cup {"welcomeMessage"}) PROVE r[k] = c[k]
    OBVIOUS
  <2>1. k \in AllSettings /\ k \notin OtherSettings BY KeysApart DEF AllSettings
  <2>2. r[k] = l[k] BY <1>7, <2>1 DEF Derived
  <2>3. l[k] = e[k] BY <1>4, <2>1 DEF OtherSettings
  <2>4. e[k] = w[k] BY <1>3, <2>1 DEF OtherSettings, Derived
  <2> QED BY <1>1, <2>1, <2>2, <2>3, <2>4
<1>9. \A k \in {"welcomeMessage", "external.ip", "external.webLoginURL", "external.baseURL",
                "External.H5BaseURL", "External.APIBaseURL"} : r[k] = e[k]
  BY <1>2, <1>4, <1>7
<1>10. \A k \in {"external.ip", "external.webLoginURL", "external.baseURL",
                 "External.H5BaseURL", "External.APIBaseURL"} : w[k] = c[k]
  BY <1>1, <1>2
<1>11. \A k \in {"minio.url", "minio.uploadURL", "minio.downloadURL"} : l[k] = c[k]
  BY <1>1, <1>3, <1>4, <1>6
<1>12. l["fileService"] = r["fileService"] /\ l["external.ip"] = r["external.ip"]
  BY <1>6, <1>7
<1>13. r["welcomeMessage"] = Filled(c["welcomeMessage"], c["application.appName"])
  BY <1>1, <1>3, <1>9
<1> QED BY <1>3, <1>7, <1>8, <1>9, <1>10, <1>11, <1>12, <1>13

----------------------------------------------------------------------------

LEMMA TextIsSeq ==
  ASSUME NEW t, IsText(t), NEW S, Range(t) \subseteq S
  PROVE  t \in Seq(S)
<1>1. t \in Seq(Range(t)) BY DEF IsText
<1> HIDE DEF Range
<1> QED BY <1>1

LEMMA SeqIsText ==
  ASSUME NEW S, NEW t \in Seq(S)
  PROVE  IsText(t)
<1>1. Len(t) \in Nat /\ t = [i \in 1..Len(t) |-> t[i]] OBVIOUS
<1>2. \A i \in 1..Len(t) : t[i] \in Range(t) BY DEF Range
<1>3. t \in [1..Len(t) -> Range(t)] BY <1>1, <1>2
<1> QED BY <1>1, <1>3 DEF IsText

LEMMA TuplesAreTexts ==
    IsText(<<>>) /\ \A x, y : IsText(<<x>>) /\ IsText(<<x, y>>)
<1>1. <<>> \in Seq({}) OBVIOUS
<1>2. ASSUME NEW x, NEW y PROVE <<x>> \in Seq({x, y}) /\ <<x, y>> \in Seq({x, y})
  OBVIOUS
<1> QED BY <1>1, <1>2, SeqIsText

LEMMA JoinIsText ==
  ASSUME NEW s, NEW t, IsText(s), IsText(t)
  PROVE  IsText(s \o t)
<1> DEFINE S == Range(s) \cup Range(t)
<1>1. s \in Seq(S) /\ t \in Seq(S) BY TextIsSeq
<1> HIDE DEF S
<1>2. s \o t \in Seq(S) BY <1>1
<1> QED BY <1>2, SeqIsText

LEMMA FlattenSeqType ==
  ASSUME NEW S, NEW ss \in Seq(Seq(S))
  PROVE  FlattenSeq(ss) \in Seq(S)
<1>1. CASE Len(ss) = 0
  <2>1. ss = <<>> BY <1>1
  <2> QED BY <1>1, <2>1 DEF FlattenSeq
<1>2. CASE Len(ss) # 0
  <2>1. Len(ss) \in Nat \ {0} BY <1>2
  <2>2. PICK g : Joins(g, ss, Len(ss)) /\ FlattenSeq(ss) = g[Len(ss)]
    BY <2>1, FlattenIsJoin
  <2>3. \A i \in 1..Len(ss) : g[i] = IF i = 1 THEN ss[i] ELSE g[i-1] \o ss[i]
    BY <2>2 DEF Joins
  <2> DEFINE T == {m \in Nat : m + 1 \in 1..Len(ss) => g[m + 1] \in Seq(S)}
  <2>4. 0 \in T BY <2>1, <2>3
  <2>5. ASSUME NEW m \in T PROVE m + 1 \in T
    <3>1. m \in Nat OBVIOUS
    <3> SUFFICES ASSUME (m + 1) + 1 \in 1..Len(ss) PROVE g[(m + 1) + 1] \in Seq(S) BY <3>1
    <3>2. m + 1 \in 1..Len(ss) BY <2>1, <3>1
    <3>3. g[m + 1] \in Seq(S) BY <3>2
    <3>4. (m + 1) + 1 # 1 /\ ((m + 1) + 1) - 1 = m + 1 BY <3>1
    <3>5. g[(m + 1) + 1] = g[m + 1] \o ss[(m + 1) + 1] BY <2>3, <3>4
    <3>6. ss[(m + 1) + 1] \in Seq(S) OBVIOUS
    <3> QED BY <3>3, <3>5, <3>6
  <2> HIDE DEF T
  <2>6. T = Nat
    <3>1. T \in SUBSET Nat BY DEF T
    <3> QED BY <2>4, <2>5, <3>1, NatSetInduction
  <2>7. Len(ss) - 1 \in T BY <2>1, <2>6
  <2>8. (Len(ss) - 1) + 1 = Len(ss) /\ Len(ss) \in 1..Len(ss) BY <2>1
  <2> QED BY <2>2, <2>7, <2>8 DEF T
<1> QED BY <1>1, <1>2

LEMMA FilledHasNoSlot ==
  ASSUME NEW t, IsText(t), NEW name, IsText(name),
         \A i \in DOMAIN name : name[i] # AppNameSlot
  PROVE  AppNameSlot \notin Range(Filled(t, name))
<1> DEFINE All == Range(t) \cup Range(name)
           Others == All \ {AppNameSlot}
           ss == [i \in DOMAIN t |-> IF t[i] = AppNameSlot THEN name ELSE <<t[i]>>]
<1>0. t \in Seq(All) /\ name \in Seq(All) BY TextIsSeq
<1> HIDE DEF All
<1>1. name \in Seq(Others)
  <2>1. name \in [1..Len(name) -> All] /\ DOMAIN name = 1..Len(name) /\ Len(name) \in Nat
    BY <1>0
  <2>2. \A i \in 1..Len(name) : name[i] \in Others BY <2>1
  <2> QED BY <2>1, <2>2
<1>2. \A i \in DOMAIN t : ss[i] \in Seq(Others)
  <2> SUFFICES ASSUME NEW i \in DOMAIN t PROVE ss[i] \in Seq(Others) OBVIOUS
  <2>1. t[i] \in All BY <1>0
  <2>2. CASE t[i] = AppNameSlot BY <1>1, <2>2
  <2>3. CASE t[i] # AppNameSlot
    <3>1. t[i] \in Others BY <2>1, <2>3
    <3>2. ss[i] = <<t[i]>> BY <2>3
    <3> HIDE DEF Others
    <3> QED BY <3>1, <3>2
  <2> QED BY <2>2, <2>3
<1>3. ss \in Seq(Seq(Others))
  <2>1. DOMAIN ss = 1..Len(t) /\ Len(t) \in Nat BY <1>0
  <2> HIDE DEF Others
  <2> QED BY <1>2, <2>1
<1> HIDE DEF ss
<1>4. Filled(t, name) \in Seq(Others)
  <2>1. Filled(t, name) = FlattenSeq(ss) BY DEF Filled, ss
  <2> HIDE DEF Others
  <2> QED BY <1>3, <2>1, FlattenSeqType
<1>5. \A i \in DOMAIN Filled(t, name) : Filled(t, name)[i] \in Others
  <2> HIDE DEF Others
  <2> QED BY <1>4
<1> QED BY <1>5 DEF Range

----------------------------------------------------------------------------
\* What ConfigureWithViper leaves, for any file and any interface.

IsConfigured(f, ip) ==
    f \in Files /\ ip \in IntranetIPs /\ settings = Configured(f, NewSettings, ip) /\ file = f

LEMMA DefaultsAreTexts ==
    \A k \in TextKeys : IsText(DefaultText(k))
BY TuplesAreTexts DEF DefaultText, Blank

LEMMA DerivedAreBlank ==
    \A k \in Derived : DefaultText(k) = Blank /\ Fallback(NewSettings, k) = Blank
<1> SUFFICES ASSUME NEW k \in Derived
             PROVE  DefaultText(k) = Blank /\ Fallback(NewSettings, k) = Blank
  OBVIOUS
<1>1. DefaultText(k) = Blank BY DEF DefaultText, Derived, DefaultedTexts
<1>2. k # "application.environment" /\ k # "server.grpc.port" BY DEF Derived
<1>3. NewSettings[k] = Blank BY <1>1, NamedSettings, NewSettingsAre
<1> QED BY <1>1, <1>2, <1>3 DEF Fallback

\* Every text that the file and the defaults give is a text.
LEMMA ReadTextsAreTexts ==
  ASSUME NEW f \in Files
  PROVE  \A k \in TextKeys : IsText(ReadKeys(f, NewSettings)[k])
<1> SUFFICES ASSUME NEW k \in TextKeys PROVE IsText(ReadKeys(f, NewSettings)[k])
  OBVIOUS
<1>1. ReadKeys(f, NewSettings)[k] = getString(f, k, Fallback(NewSettings, k))
  BY NewSettingsAre, ReadKeysAre
<1>2. IsText(NewSettings[k]) BY NewSettingsAre, DefaultsAreTexts
<1>3. IsText(<<"0.0.0.0">> \o NewSettings[k]) BY <1>2, TuplesAreTexts, JoinIsText
<1>4. IsText(Fallback(NewSettings, k)) BY <1>2, <1>3, TuplesAreTexts DEF Fallback
<1>5. k \in DOMAIN f => IsText(f[k]) BY SettingsAssumption
<1> QED BY <1>1, <1>4, <1>5 DEF getString

LEMMA ConfiguredHearsFile ==
  ASSUME NEW f, NEW ip, IsConfigured(f, ip)
  PROVE  FileIsHeard
<1> DEFINE c == ReadKeys(f, NewSettings)
<1> SUFFICES ASSUME NEW k \in SettingKeys \ {"welcomeMessage"}, Says(k)
             PROVE  settings[k] = f[k]
  BY DEF FileIsHeard, IsConfigured
<1>1. file = f /\ settings = FileServices(configureLog(f, External(Welcome(c), ip)))
  BY DEF IsConfigured, Configured
<1>2. DOMAIN c = AllSettings BY NewSettingsAre, ReadKeysAre
<1>3. c[k] = f[k]
  <2>1. CASE k \in TextKeys
    BY <1>1, <2>1, NewSettingsAre, ReadKeysAre DEF getString, Says
  <2>2. CASE k \in FlagKeys
    BY <1>1, <2>2, NewSettingsAre, ReadKeysAre DEF getBool, Says
  <2>3. CASE k \in NumberKeys
    BY <1>1, <2>3, NewSettingsAre, ReadKeysAre DEF getInt, Says
  <2> QED BY <2>1, <2>2, <2>3 DEF SettingKeys
<1> HIDE DEF c
<1>4. CASE k \notin Derived BY <1>1, <1>2, <1>3, <1>4, DerivedAre
<1>5. CASE k \in Derived
  <2>1. ~IsBlank(c[k])
    <3>1. k \in TextKeys BY <1>5, NamedSettings
    <3> QED BY <1>1, <1>3, <1>5, <3>1 DEF Says, IsBlank
  <2>2. \A other : OrElse(c[k], other) = c[k] BY <2>1 DEF OrElse
  <2>3. settings[k] = c[k]
    <3>1. CASE k \in {"minio.uploadURL", "minio.downloadURL"}
      BY <1>1, <1>2, <2>2, <3>1, DerivedAre
    <3>2. CASE k = "minio.url" BY <1>1, <1>2, <2>2, <3>2, DerivedAre
    <3>3. CASE k \in {"external.ip", "external.webLoginURL", "external.baseURL"}
      BY <1>1, <1>2, <2>2, <3>3, DerivedAre
    <3> QED BY <1>5, <3>1, <3>2, <3>3 DEF Derived
  <2> QED BY <1>3, <2>3
<1> QED BY <1>4, <1>5

\* A key the file is silent about rests on what it falls back on.
LEMMA SilentFallsBack ==
  ASSUME NEW f, NEW ip, IsConfigured(f, ip),
         NEW k \in SettingKeys \ (Derived \cup {"welcomeMessage"}), ~ Says(k)
  PROVE  settings[k] = Fallback(NewSettings, k)
<1> DEFINE c == ReadKeys(f, NewSettings)
<1>1. file = f /\ settings = FileServices(configureLog(f, External(Welcome(c), ip)))
  BY DEF IsConfigured, Configured
<1>2. DOMAIN c = AllSettings BY NewSettingsAre, ReadKeysAre
<1>3. settings[k] = c[k]
  <2> HIDE DEF c
  <2> QED BY <1>1, <1>2, DerivedAre
<1>4. CASE k \in TextKeys
  <2>1. c[k] = getString(f, k, Fallback(NewSettings, k)) BY <1>4, NewSettingsAre, ReadKeysAre
  <2>2. k \notin NumberKeys BY <1>4, KeysApart
  <2>3. ~ (k \in DOMAIN f /\ f[k] # Blank) BY <1>1, <2>2 DEF Says
  <2> QED BY <1>3, <2>1, <2>3 DEF getString
<1>5. CASE k \in FlagKeys \cup NumberKeys
  <2>1. k \notin TextKeys BY <1>5, KeysApart
  <2>2. Fallback(NewSettings, k) = NewSettings[k]
    <3>1. "application.environment" \in TextKeys /\ "server.grpc.port" \in TextKeys
      BY DEF TextKeys, OtherTexts, DefaultedTexts
    <3>2. k # "application.environment" /\ k # "server.grpc.port" BY <2>1, <3>1
    <3> QED BY <3>2 DEF Fallback
  <2>3. CASE k \in FlagKeys
    <3>1. c[k] = getBool(f, k, NewSettings[k]) BY <2>3, NewSettingsAre, ReadKeysAre
    <3>2. k \notin NumberKeys BY <2>3, KeysApart
    <3>3. k \notin DOMAIN f BY <1>1, <2>1, <3>2 DEF Says
    <3> QED BY <1>3, <2>2, <3>1, <3>3 DEF getBool
  <2>4. CASE k \in NumberKeys
    <3>1. c[k] = getInt(f, k, NewSettings[k]) BY <2>4, NewSettingsAre, ReadKeysAre
    <3>2. ~ (k \in DOMAIN f /\ f[k] # 0) BY <1>1, <2>1 DEF Says
    <3> QED BY <1>3, <2>2, <3>1, <3>2 DEF getInt
  <2> QED BY <1>5, <2>3, <2>4
<1> QED BY <1>4, <1>5 DEF SettingKeys

LEMMA NumbersAre ==
    /\ NewSettings["avatar.partition"] = 100 /\ NewSettings["zincSearch.syncCount"] = 0
    /\ {"avatar.partition", "zincSearch.syncCount"} \subseteq NumberKeys
    /\ \A k \in {"avatar.partition", "zincSearch.syncCount"} :
         k \in SettingKeys \ (Derived \cup {"welcomeMessage"}) /\ k \notin TextKeys
<1>1. {"avatar.partition", "zincSearch.syncCount"} \subseteq NumberKeys BY DEF NumberKeys
<1>2. \A k \in NumberKeys : NewSettings[k] = DefaultNumber(k)
  BY KeysApart DEF NewSettings, SettingKeys, OtherSettings
<1>3. DefaultNumber("avatar.partition") = 100 /\ DefaultNumber("zincSearch.syncCount") = 0
  BY DEF DefaultNumber
<1>4. \A k \in NumberKeys : k \in SettingKeys \ (Derived \cup {"welcomeMessage"}) /\ k \notin TextKeys
  BY KeysApart, NamedSettings DEF SettingKeys
<1> QED BY <1>1, <1>2, <1>3, <1>4

LEMMA ConfiguredHasDefaults ==
  ASSUME NEW f, NEW ip, IsConfigured(f, ip)
  PROVE  DefaultsElsewhere
<1> DEFINE c == ReadKeys(f, NewSettings)
<1>1. f \in Files /\ file = f /\ settings = FileServices(configureLog(f, External(Welcome(c), ip)))
  BY DEF IsConfigured, Configured
<1>2. DOMAIN c = AllSettings BY NewSettingsAre, ReadKeysAre
<1>3. ASSUME NEW k \in SettingKeys \ (Derived \cup {"welcomeMessage", "application.environment",
                                                   "server.grpc.port"}), ~ Says(k)
      PROVE  settings[k] = NewSettings[k]
  <2>1. settings[k] = Fallback(NewSettings, k) BY <1>3, SilentFallsBack
  <2> QED BY <2>1 DEF Fallback
<1>4. /\ "application.environment" \in SettingKeys \ (Derived \cup {"welcomeMessage"})
      /\ "server.grpc.port" \in SettingKeys \ (Derived \cup {"welcomeMessage"})
  BY DEF SettingKeys, TextKeys, OtherTexts, DefaultedTexts, Derived
<1>5. ASSUME ~ Says("application.environment")
      PROVE  settings["application.environment"] = <<"debug">>
  <2>1. settings["application.environment"] = Fallback(NewSettings, "application.environment")
    BY <1>4, <1>5, SilentFallsBack
  <2> QED BY <2>1 DEF Fallback
<1>6. ASSUME ~ Says("server.grpc.port")
      PROVE  settings["server.grpc.port"] = <<"0.0.0.0">> \o NewSettings["server.grpc.port"]
  <2>1. settings["server.grpc.port"] = Fallback(NewSettings, "server.grpc.port")
    BY <1>4, <1>6, SilentFallsBack
  <2> QED BY <2>1 DEF Fallback
<1>7. /\ settings["welcomeMessage"] = Filled(c["welcomeMessage"], c["application.appName"])
      /\ settings["application.appName"] = c["application.appName"]
  <2>1. "application.appName" \in SettingKeys \ (Derived \cup {"welcomeMessage"})
    BY NamedSettings DEF SettingKeys, Derived
  <2> HIDE DEF c
  <2> QED BY <1>1, <1>2, <2>1, DerivedAre
<1>8. c["welcomeMessage"] = getString(f, "welcomeMessage", NewSettings["welcomeMessage"])
  <2>1. Fallback(NewSettings, "welcomeMessage") = NewSettings["welcomeMessage"] BY DEF Fallback
  <2> QED BY <2>1, NamedSettings, NewSettingsAre, ReadKeysAre
<1>9. settings["welcomeMessage"] =
        Filled(getString(file, "welcomeMessage", NewSettings["welcomeMessage"]),
               settings["application.appName"])
  <2> HIDE DEF c
  <2> QED BY <1>1, <1>7, <1>8
<1>10. AppNameSlot \notin Range(settings["welcomeMessage"])
  <2>1. IsText(c["welcomeMessage"]) /\ IsText(c["application.appName"])
    BY <1>1, NamedSettings, ReadTextsAreTexts
  <2>2. c["application.appName"] =
          getString(f, "application.appName", <<"default", "application.appName">>)
    <3>1. Fallback(NewSettings, "application.appName") = NewSettings["application.appName"]
      BY DEF Fallback
    <3>2. DefaultText("application.appName") = <<"default", "application.appName">>
      BY DEF DefaultText, DefaultedTexts
    <3> QED BY <3>1, <3>2, NamedSettings, NewSettingsAre, ReadKeysAre
  <2>3. \A i \in DOMAIN c["application.appName"] : c["application.appName"][i] # AppNameSlot
    <3>1. CASE c["application.appName"] = <<"default", "application.appName">>
      <4>1. DOMAIN <<"default", "application.appName">> = 1..2 OBVIOUS
      <4>2. /\ <<"default", "application.appName">>[1] # AppNameSlot
            /\ <<"default", "application.appName">>[2] # AppNameSlot
        BY DEF AppNameSlot
      <4>3. \A i \in 1..2 : i = 1 \/ i = 2 OBVIOUS
      <4> HIDE DEF c
      <4> QED BY <3>1, <4>1, <4>2, <4>3
    <3>2. CASE c["application.appName"] # <<"default", "application.appName">>
      BY <1>1, <2>2, <3>2, SettingsAssumption DEF getString
    <3> QED BY <3>1, <3>2
  <2> HIDE DEF c
  <2> QED BY <1>7, <2>1, <2>3, FilledHasNoSlot
<1>11. settings["avatar.partition"] # 0
  <2>1. CASE ~ Says("avatar.partition")
    <3>1. settings["avatar.partition"] = Fallback(NewSettings, "avatar.partition")
      BY <2>1, NumbersAre, SilentFallsBack
    <3> QED BY <3>1, NumbersAre DEF Fallback
  <2>2. CASE Says("avatar.partition")
    <3>1. FileIsHeard BY ConfiguredHearsFile
    <3>2. settings["avatar.partition"] = file["avatar.partition"]
      BY <2>2, <3>1, NumbersAre DEF FileIsHeard
    <3> QED BY <2>2, <3>2, NumbersAre DEF Says
  <2> QED BY <2>1, <2>2
<1> HIDE DEF c
<1> QED BY <1>3, <1>5, <1>6, <1>9, <1>10, <1>11 DEF DefaultsElsewhere

LEMMA ConfiguredLeavesEmpty ==
  ASSUME NEW f, NEW ip, IsConfigured(f, ip)
  PROVE  LeftEmpty
<1>1. /\ "db.asynctaskRedisAddr" \in TextKeys /\ "redis.addr" \in TextKeys
      /\ "db.asynctaskRedisAddr" \in SettingKeys \ (Derived \cup {"welcomeMessage"})
      /\ "redis.addr" \in SettingKeys \ (Derived \cup {"welcomeMessage"})
  BY DEF SettingKeys, TextKeys, OtherTexts, DefaultedTexts, Derived
<1>2. /\ Fallback(NewSettings, "db.asynctaskRedisAddr") = Blank
      /\ Fallback(NewSettings, "redis.addr") # Blank
  <2>1. DefaultText("db.asynctaskRedisAddr") = Blank BY DEF DefaultText, DefaultedTexts
  <2>2. DefaultText("redis.addr") = <<"default", "redis.addr">> BY DEF DefaultText, DefaultedTexts
  <2> QED BY <1>1, <2>1, <2>2, NewSettingsAre DEF Fallback, Blank
<1>3. settings["redis.addr"] # Blank
  <2>1. CASE ~ Says("redis.addr") BY <1>1, <1>2, <2>1, SilentFallsBack
  <2>2. CASE Says("redis.addr")
    <3>1. FileIsHeard BY ConfiguredHearsFile
    <3> QED BY <1>1, <2>2, <3>1 DEF FileIsHeard, Says
  <2> QED BY <2>1, <2>2
<1>4. ~ Says("db.asynctaskRedisAddr") => settings["db.asynctaskRedisAddr"] = Blank
  BY <1>1, <1>2, SilentFallsBack
<1>5. ~ Says("zincSearch.syncCount") => settings["zincSearch.syncCount"] = 0
  <2>1. ~ Says("zincSearch.syncCount") =>
          settings["zincSearch.syncCount"] = Fallback(NewSettings, "zincSearch.syncCount")
    BY NumbersAre, SilentFallsBack
  <2> QED BY <2>1, NumbersAre DEF Fallback
<1> QED BY <1>3, <1>4, <1>5 DEF LeftEmpty

LEMMA ConfiguredAddressesAgree ==
  ASSUME NEW f, NEW ip, IsConfigured(f, ip)
  PROVE  AddressesAgree
<1> DEFINE c == ReadKeys(f, NewSettings)
           On(port) == <<"http://">> \o settings["external.ip"] \o port
<1>1. /\ f \in Files /\ ip \in IntranetIPs
      /\ file = f /\ settings = FileServices(configureLog(f, External(Welcome(c), ip)))
  BY DEF IsConfigured, Configured
<1>2. DOMAIN c = AllSettings BY NewSettingsAre, ReadKeysAre
<1>3. ASSUME NEW k \in Derived, NEW address
      PROVE  OrElse(c[k], address) = IF Says(k) THEN file[k] ELSE address
  <2>1. k \in TextKeys /\ k \notin NumberKeys BY NamedSettings, KeysApart
  <2>2. c[k] = getString(f, k, Blank) BY <2>1, DerivedAreBlank, NewSettingsAre, ReadKeysAre
  <2>3. Says(k) <=> k \in DOMAIN f /\ f[k] # Blank /\ f[k] # Spaces BY <1>1, <2>1 DEF Says
  <2> HIDE DEF c
  <2>4. CASE Says(k)
    <3>1. c[k] = f[k] /\ ~ IsBlank(c[k]) BY <2>2, <2>3, <2>4 DEF getString, IsBlank
    <3> QED BY <1>1, <2>4, <3>1 DEF OrElse
  <2>5. CASE ~ Says(k)
    <3>1. IsBlank(c[k]) BY <2>2, <2>3, <2>5 DEF getString, IsBlank
    <3> QED BY <2>5, <3>1 DEF OrElse
  <2> QED BY <2>4, <2>5
<1>4. c["External.H5BaseURL"] = Blank /\ c["External.APIBaseURL"] = Blank
  <2>1. "External.H5BaseURL" \in OtherSettings /\ "External.APIBaseURL" \in OtherSettings
    BY DEF OtherSettings
  <2> QED BY <2>1, NewSettingsAre, ReadKeysAre
<1> HIDE DEF c
<1>5. /\ settings["external.ip"] = OrElse(c["external.ip"], ip)
      /\ settings["external.webLoginURL"] = OrElse(c["external.webLoginURL"], On(<<":82">>))
      /\ settings["external.baseURL"] = OrElse(c["external.baseURL"], On(<<":8090">>))
      /\ settings["External.H5BaseURL"] =
           OrElse(c["External.H5BaseURL"], settings["external.baseURL"] \o <<"/web">>)
      /\ settings["External.APIBaseURL"] =
           OrElse(c["External.APIBaseURL"], settings["external.baseURL"] \o <<"/v1">>)
      /\ settings["fileService"] = <<"minio">> =>
           settings["minio.url"] = OrElse(c["minio.url"], On(<<":9000">>))
      /\ \A k \in {"minio.uploadURL", "minio.downloadURL"} :
           settings[k] = OrElse(c[k], settings["minio.url"])
  BY <1>1, <1>2, DerivedAre
<1> HIDE DEF On
<1>6. /\ settings["External.H5BaseURL"] = settings["external.baseURL"] \o <<"/web">>
      /\ settings["External.APIBaseURL"] = settings["external.baseURL"] \o <<"/v1">>
  BY <1>4, <1>5 DEF OrElse, IsBlank
<1>7. \A k \in Derived : \A address :
         settings[k] = OrElse(c[k], address) => GivenOr(k, address)
  BY <1>3 DEF GivenOr
<1>8. {"external.ip", "external.webLoginURL", "external.baseURL", "minio.url",
       "minio.uploadURL", "minio.downloadURL"} = Derived
  BY DEF Derived
<1>9. /\ GivenOr("external.ip", ip)
      /\ GivenOr("external.webLoginURL", On(<<":82">>))
      /\ GivenOr("external.baseURL", On(<<":8090">>))
  BY <1>5, <1>7, <1>8
<1>10. settings["fileService"] = <<"minio">> => GivenOr("minio.url", On(<<":9000">>))
  BY <1>5, <1>7, <1>8
<1>11. \A k \in {"minio.uploadURL", "minio.downloadURL"} : GivenOr(k, settings["minio.url"])
  BY <1>5, <1>7, <1>8
<1> QED BY <1>1, <1>6, <1>9, <1>10, <1>11 DEF AddressesAgree, On

\* The helpers that read a variable of the environment agree on every value.
LEMMA EnvironmentIsAlwaysHeard == EnvironmentIsHeard
<1> SUFFICES ASSUME NEW b \in BOOLEAN
             PROVE  /\ GetEnvBool(environment, b) = BoolEnv(b, environment)
                    /\ IsBlank(environment) => GetEnvBool(environment, b) = b
                    /\ GetEnv(environment, <<"x">>) = OrElse(StringEnv(<<"x">>, environment), <<"x">>)
                    /\ GetEnvInt(environment, 3) # 3 => ~ IsBlank(environment)
  BY DEF EnvironmentIsHeard
<1>1. GetEnvBool(environment, b) = BoolEnv(b, environment) BY DEF GetEnvBool, BoolEnv
<1>2. IsBlank(environment) => GetEnvBool(environment, b) = b BY DEF GetEnvBool
<1>3. GetEnv(environment, <<"x">>) = OrElse(StringEnv(<<"x">>, environment), <<"x">>)
  BY DEF GetEnv, OrElse, StringEnv, IsBlank
<1>4. GetEnvInt(environment, 3) # 3 => ~ IsBlank(environment) BY DEF GetEnvInt
<1> QED BY <1>1, <1>2, <1>3, <1>4

\* No two uploads share a path, whatever the checksums and the partition.
LEMMA PathsAreApart ==
    /\ \A no : Cardinality(PathsOf(no)) = 5
    /\ \A no, other : no # other => PathsOf(no) \cap PathsOf(other) = {}
<1>1. ASSUME NEW no PROVE Cardinality(PathsOf(no)) = 5
  <2> DEFINE a == GetAvatarPath(no)
             b == GetGroupAvatarFilePath(no)
             c == GetCommunityAvatarFilePath(no)
             d == GetCommunityCoverFilePath(no)
             e == GetOrganizationLogoFilePath(no)
  <2>1. /\ a.folder = "users" /\ b.folder = "group" /\ c.folder = "community"
        /\ d.folder = "community" /\ e.folder = "organization/logo"
        /\ c.name = ".png" /\ d.name = "_cover.png"
    BY DEF GetAvatarPath, GetGroupAvatarFilePath, GetCommunityAvatarFilePath,
           GetCommunityCoverFilePath, GetOrganizationLogoFilePath
  <2>2. PathsOf(no) = {a, b, c, d, e} BY DEF PathsOf
  <2> HIDE DEF a, b, c, d, e
  <2>3. /\ a \notin {} /\ b \notin {a} /\ c \notin {a, b} /\ d \notin {a, b, c}
        /\ e \notin {a, b, c, d}
    BY <2>1
  <2>4. IsFiniteSet({}) /\ Cardinality({}) = 0 BY FS_EmptySet
  <2>5. /\ {} \cup {a} = {a} /\ {a} \cup {b} = {a, b} /\ {a, b} \cup {c} = {a, b, c}
        /\ {a, b, c} \cup {d} = {a, b, c, d} /\ {a, b, c, d} \cup {e} = {a, b, c, d, e}
    OBVIOUS
  <2>6. IsFiniteSet({a}) /\ Cardinality({a}) = 1 BY <2>3, <2>4, <2>5, FS_AddElement
  <2>7. IsFiniteSet({a, b}) /\ Cardinality({a, b}) = 2 BY <2>3, <2>5, <2>6, FS_AddElement
  <2>8. IsFiniteSet({a, b, c}) /\ Cardinality({a, b, c}) = 3
    BY <2>3, <2>5, <2>7, FS_AddElement
  <2>9. IsFiniteSet({a, b, c, d}) /\ Cardinality({a, b, c, d}) = 4
    BY <2>3, <2>5, <2>8, FS_AddElement
  <2>10. Cardinality({a, b, c, d, e}) = 5 BY <2>3, <2>5, <2>9, FS_AddElement
  <2> QED BY <2>2, <2>10
<1>2. ASSUME NEW no, NEW p \in PathsOf(no) PROVE p.owner = no
  BY DEF PathsOf, GetAvatarPath, GetGroupAvatarFilePath, GetCommunityAvatarFilePath,
         GetCommunityCoverFilePath, GetOrganizationLogoFilePath
<1> QED BY <1>1, <1>2

\* The settings are the defaults until the file is read, and then what the file
\* and the interfaces make of them (config.go New, ConfigureWithViper).
SettingsInv ==
    /\ stage = "new" => settings = NewSettings
    /\ stage \in {"configured", "running"} =>
         \E f \in Files, ip \in IntranetIPs : IsConfigured(f, ip)

LEMMA SettingsInvHolds == SettingsSpec => []SettingsInv
<1>1. SettingsInit => SettingsInv BY DEF SettingsInit, SettingsInv
<1>2. SettingsInv /\ [SettingsNext]_settingVars => SettingsInv'
  <2> SUFFICES ASSUME SettingsInv, [SettingsNext]_settingVars PROVE SettingsInv'
    OBVIOUS
  <2> USE DEF SettingsInv
  <2>1. environment' = environment =>
          NewSettings' = NewSettings
    BY DEF NewSettings
  <2>2. CASE NewConfig BY <2>1, <2>2 DEF NewConfig
  <2>3. CASE \E f \in Files, ip \in IntranetIPs : ConfigureWithViper(f, ip)
    <3>1. PICK f \in Files, ip \in IntranetIPs : ConfigureWithViper(f, ip) BY <2>3
    <3>2. stage = "new" /\ file' = f /\ environment' = environment
      BY <3>1 DEF ConfigureWithViper
    <3>3. CASE ip = <<"error">> BY <3>1, <3>3 DEF ConfigureWithViper
    <3>4. CASE ip # <<"error">>
      <4>1. stage' = "configured" /\ settings' = Configured(f, settings, ip)
        BY <3>1, <3>4 DEF ConfigureWithViper
      <4>2. IsConfigured(f, ip)' BY <2>1, <3>2, <4>1 DEF IsConfigured
      <4> QED BY <4>1, <4>2
    <3> QED BY <3>3, <3>4
  <2>4. CASE NewContext
    <3>1. /\ stage = "configured" /\ stage' \in {"running", "panicked"}
          /\ settings' = settings /\ file' = file /\ environment' = environment
      BY <2>4 DEF NewContext
    <3>2. PICK f \in Files, ip \in IntranetIPs : IsConfigured(f, ip) BY <3>1
    <3>3. IsConfigured(f, ip)' BY <2>1, <3>1, <3>2 DEF IsConfigured
    <3> QED BY <3>1, <3>3
  <2>5. CASE UNCHANGED settingVars
    <3>1. /\ stage' = stage /\ settings' = settings /\ file' = file
          /\ environment' = environment
      BY <2>5 DEF settingVars
    <3>2. ASSUME NEW f \in Files, NEW ip \in IntranetIPs, IsConfigured(f, ip)
          PROVE  IsConfigured(f, ip)'
      BY <2>1, <3>1, <3>2 DEF IsConfigured
    <3> QED BY <2>1, <3>1, <3>2
  <2> QED BY <2>2, <2>3, <2>4, <2>5 DEF SettingsNext
<1> QED BY <1>1, <1>2, PTL DEF SettingsSpec

\* For every configuration file, environment and interface: ConfigureWithViper
\* leaves every setting with the file's value, New's default or, if derived, the
\* address made for it, and the two of LeftEmpty empty (SettingsAreComplete).
THEOREM SettingsComplete == SettingsSpec => []SettingsAreComplete
<1>1. SettingsInv => SettingsAreComplete
  <2> SUFFICES ASSUME SettingsInv, stage \in {"configured", "running"}
               PROVE  /\ FileIsHeard /\ DefaultsElsewhere /\ LeftEmpty /\ AddressesAgree
                      /\ EnvironmentIsHeard
                      /\ \A no \in OwnerNos : Cardinality(PathsOf(no)) = 5
                      /\ \A no, other \in OwnerNos :
                           no # other => PathsOf(no) \cap PathsOf(other) = {}
    BY DEF SettingsAreComplete
  <2>1. PICK f \in Files, ip \in IntranetIPs : IsConfigured(f, ip) BY DEF SettingsInv
  <2>2. FileIsHeard BY <2>1, ConfiguredHearsFile
  <2>3. DefaultsElsewhere /\ LeftEmpty
    BY <2>1, ConfiguredHasDefaults, ConfiguredLeavesEmpty
  <2>4. AddressesAgree BY <2>1, ConfiguredAddressesAgree
  <2> QED BY <2>2, <2>3, <2>4, EnvironmentIsAlwaysHeard, PathsAreApart
<1> QED BY <1>1, SettingsInvHolds, PTL

----------------------------------------------------------------------------
(*************************************************************************)
(* Dispatcher, for any jobs, senders and number of workers.               *)
(*                                                                       *)
(* The dispatching goroutine waits for a worker, and the workers' jobs    *)
(* may wait for it. As a job is in one place only, and those a sender     *)
(* waits with are running jobs' children, that is the only way to get     *)
(* stuck; it takes a sender on every worker, and it lasts.                *)
(*************************************************************************)

PoolTypeOK ==
    /\ sending \in Seq(Jobs)
    /\ inHand = <<>> \/ \E j \in Jobs : inHand = <<j>>
    /\ running \subseteq Jobs
    /\ finished \subseteq Jobs

\* A job is where the dispatcher has brought it, and nowhere else (dispatcher.go).
PoolInv == PoolTypeOK /\ JobsRunOnce

LEMMA ToSetAppend ==
  ASSUME NEW S, NEW s \in Seq(S), NEW e \in S
  PROVE  ToSet(Append(s, e)) = ToSet(s) \cup {e}
<1>1. /\ Len(s) \in Nat /\ DOMAIN s = 1..Len(s)
      /\ DOMAIN Append(s, e) = 1..(Len(s) + 1)
      /\ \A i \in 1..Len(s) : Append(s, e)[i] = s[i]
      /\ Append(s, e)[Len(s) + 1] = e
  OBVIOUS
<1>2. \A i : i \in 1..(Len(s) + 1) <=> i \in 1..Len(s) \/ i = Len(s) + 1 BY <1>1
<1> QED BY <1>1, <1>2 DEF ToSet

LEMMA ToSetTail ==
  ASSUME NEW S, NEW s \in Seq(S), s # <<>>
  PROVE  /\ Head(s) \in S /\ Tail(s) \in Seq(S)
         /\ ToSet(s) = {Head(s)} \cup ToSet(Tail(s))
<1>1. /\ Len(s) \in Nat \ {0} /\ DOMAIN s = 1..Len(s) /\ Head(s) = s[1]
      /\ Head(s) \in S /\ Tail(s) \in Seq(S)
      /\ DOMAIN Tail(s) = 1..(Len(s) - 1)
      /\ \A i \in 1..(Len(s) - 1) : Tail(s)[i] = s[i + 1]
  OBVIOUS
<1>2. ASSUME NEW i \in 1..Len(s)
      PROVE  s[i] = Head(s) \/ \E k \in 1..(Len(s) - 1) : s[i] = Tail(s)[k]
  <2>1. CASE i = 1 BY <1>1, <2>1
  <2>2. CASE i # 1
    <3>1. i - 1 \in 1..(Len(s) - 1) /\ (i - 1) + 1 = i BY <1>1, <2>2
    <3> QED BY <1>1, <3>1
  <2> QED BY <2>1, <2>2
<1>3. ASSUME NEW k \in 1..(Len(s) - 1) PROVE \E i \in 1..Len(s) : Tail(s)[k] = s[i]
  <2>1. k + 1 \in 1..Len(s) BY <1>1
  <2> QED BY <1>1, <2>1
<1>4. 1 \in 1..Len(s) /\ Head(s) = s[1] BY <1>1
<1>5. ToSet(s) = {s[i] : i \in 1..Len(s)} BY <1>1 DEF ToSet
<1>6. ToSet(Tail(s)) = {Tail(s)[i] : i \in 1..(Len(s) - 1)} BY <1>1 DEF ToSet
<1>7. ToSet(s) \subseteq {Head(s)} \cup ToSet(Tail(s)) BY <1>2, <1>5, <1>6
<1>8. {Head(s)} \cup ToSet(Tail(s)) \subseteq ToSet(s) BY <1>3, <1>4, <1>5, <1>6
<1> QED BY <1>1, <1>7, <1>8

LEMMA ToSetShort == ToSet(<<>>) = {} /\ \A e : ToSet(<<e>>) = {e}
<1>1. DOMAIN <<>> = {} OBVIOUS
<1>2. ASSUME NEW e PROVE DOMAIN <<e>> = {1} /\ <<e>>[1] = e OBVIOUS
<1> QED BY <1>1, <1>2 DEF ToSet

LEMMA RunningIsFinite ==
  ASSUME PoolTypeOK
  PROVE  IsFiniteSet(running) /\ Cardinality(running) \in Nat
BY PoolAssumption, FS_Subset, FS_CardinalityType DEF PoolTypeOK

LEMMA PoolInitHolds == PoolInit => PoolInv
<1> SUFFICES ASSUME PoolInit PROVE PoolInv OBVIOUS
<1> USE DEF PoolInit
<1>1. PoolTypeOK BY DEF PoolTypeOK
<1>2. Cardinality(running) <= PoolSize BY FS_EmptySet, PoolAssumption
<1>3. DOMAIN sending = {} OBVIOUS
<1> QED BY <1>1, <1>2, <1>3, ToSetShort DEF PoolInv, JobsRunOnce

LEMMA SendJobKeeps ==
  ASSUME PoolInv, NEW j \in Jobs, SendJob(j)
  PROVE  PoolInv'
<1> USE DEF PoolInv
<1>1. /\ j \notin sent /\ (Parent[j] # j => Parent[j] \in running)
      /\ sent' = sent \cup {j} /\ sending' = Append(sending, j)
      /\ inHand' = inHand /\ running' = running /\ finished' = finished
  BY DEF SendJob
<1>2. PoolTypeOK' BY <1>1 DEF PoolTypeOK
<1>3. sending \in Seq(Jobs) BY DEF PoolTypeOK
<1>4. ToSet(sending') = ToSet(sending) \cup {j} BY <1>1, <1>3, ToSetAppend
<1>5. ToSet(inHand') = ToSet(inHand) BY <1>1
<1>6. \A i, k \in DOMAIN sending' : sending'[i] = sending'[k] => i = k
  <2>1. /\ Len(sending) \in Nat /\ DOMAIN sending = 1..Len(sending)
        /\ DOMAIN sending' = 1..(Len(sending) + 1)
        /\ \A i \in 1..Len(sending) : sending'[i] = sending[i]
        /\ sending'[Len(sending) + 1] = j
    BY <1>1, <1>3
  <2>2. \A i \in 1..Len(sending) : sending[i] # j
    BY <1>1, <2>1 DEF JobsRunOnce, ToSet
  <2>3. \A i \in 1..(Len(sending) + 1) : i \in 1..Len(sending) \/ i = Len(sending) + 1
    BY <2>1
  <2>4. \A i, k \in 1..Len(sending) : sending[i] = sending[k] => i = k
    BY <2>1 DEF JobsRunOnce
  <2> QED BY <2>1, <2>2, <2>3, <2>4
<1>7. Cardinality(running') <= PoolSize BY <1>1 DEF JobsRunOnce
<1>8. JobsRunOnce' BY <1>1, <1>4, <1>5, <1>6, <1>7 DEF JobsRunOnce
<1> QED BY <1>2, <1>8

LEMMA PopKeeps ==
  ASSUME PoolInv, Pop
  PROVE  PoolInv'
<1> USE DEF PoolInv
<1>1. /\ inHand = <<>> /\ sending # <<>>
      /\ inHand' = <<Head(sending)>> /\ sending' = Tail(sending)
      /\ running' = running /\ finished' = finished /\ sent' = sent
  BY DEF Pop
<1>2. sending \in Seq(Jobs) BY DEF PoolTypeOK
<1>3. /\ Head(sending) \in Jobs /\ Tail(sending) \in Seq(Jobs)
      /\ ToSet(sending) = {Head(sending)} \cup ToSet(sending')
  BY <1>1, <1>2, ToSetTail
<1>4. ToSet(inHand') = {Head(sending)} /\ ToSet(inHand) = {} BY <1>1, ToSetShort
<1>5. PoolTypeOK' BY <1>1, <1>3 DEF PoolTypeOK
<1>6. /\ Len(sending) \in Nat \ {0} /\ DOMAIN sending = 1..Len(sending)
      /\ Head(sending) = sending[1]
      /\ DOMAIN sending' = 1..(Len(sending) - 1)
      /\ \A i \in 1..(Len(sending) - 1) : sending'[i] = sending[i + 1]
  BY <1>1, <1>2
<1>7. \A i, k \in 1..Len(sending) : sending[i] = sending[k] => i = k
  BY <1>6 DEF JobsRunOnce
<1>8. \A i, k \in DOMAIN sending' : sending'[i] = sending'[k] => i = k
  <2> SUFFICES ASSUME NEW i \in 1..(Len(sending) - 1), NEW k \in 1..(Len(sending) - 1),
                      sending'[i] = sending'[k]
               PROVE  i = k
    BY <1>6
  <2>1. i + 1 \in 1..Len(sending) /\ k + 1 \in 1..Len(sending) BY <1>6
  <2>2. sending[i + 1] = sending[k + 1] BY <1>6
  <2>3. i + 1 = k + 1 BY <1>7, <2>1, <2>2
  <2> QED BY <1>6, <2>3
<1>9. Head(sending) \notin ToSet(sending')
  <2> SUFFICES ASSUME NEW i \in 1..(Len(sending) - 1), sending'[i] = Head(sending)
               PROVE  FALSE
    BY <1>6 DEF ToSet
  <2>1. i + 1 \in 1..Len(sending) /\ 1 \in 1..Len(sending) /\ i + 1 # 1 BY <1>6
  <2> QED BY <1>6, <1>7, <2>1
<1>10. Cardinality(running') <= PoolSize BY <1>1 DEF JobsRunOnce
<1>11. JobsRunOnce' BY <1>1, <1>3, <1>4, <1>8, <1>9, <1>10 DEF JobsRunOnce
<1> QED BY <1>5, <1>11

LEMMA SubmitKeeps ==
  ASSUME PoolInv, Submit
  PROVE  PoolInv'
<1> USE DEF PoolInv
<1>1. /\ inHand # <<>> /\ Cardinality(running) < PoolSize
      /\ running' = running \cup {Head(inHand)} /\ inHand' = <<>>
      /\ sending' = sending /\ finished' = finished /\ sent' = sent
  BY DEF Submit, Free
<1>2. PICK j \in Jobs : inHand = <<j>> BY <1>1 DEF PoolTypeOK
<1>3. Head(inHand) = j BY <1>2
<1>4. ToSet(inHand) = {j} /\ ToSet(inHand') = {} BY <1>1, <1>2, ToSetShort
<1>5. PoolTypeOK' BY <1>1, <1>3 DEF PoolTypeOK
<1>6. Cardinality(running') <= PoolSize
  <2>1. j \notin running BY <1>4 DEF JobsRunOnce
  <2>2. Cardinality(running') = Cardinality(running) + 1
    BY <1>1, <1>3, <2>1, RunningIsFinite, FS_AddElement
  <2> QED BY <1>1, <2>2, RunningIsFinite, PoolAssumption
<1>7. ToSet(sending') = ToSet(sending) BY <1>1
<1>8. \A i, k \in DOMAIN sending' : sending'[i] = sending'[k] => i = k
  BY <1>1 DEF JobsRunOnce
<1>9. JobsRunOnce' BY <1>1, <1>3, <1>4, <1>6, <1>7, <1>8 DEF JobsRunOnce
<1> QED BY <1>5, <1>9

LEMMA FinishKeeps ==
  ASSUME PoolInv, NEW j \in Jobs, Finish(j)
  PROVE  PoolInv'
<1> USE DEF PoolInv
<1>1. /\ j \in running /\ ~Blocked(j)
      /\ running' = running \ {j} /\ finished' = finished \cup {j}
      /\ sending' = sending /\ inHand' = inHand /\ sent' = sent
  BY DEF Finish
<1>2. PoolTypeOK' BY <1>1 DEF PoolTypeOK
<1>3. ToSet(sending') = ToSet(sending) /\ ToSet(inHand') = ToSet(inHand) BY <1>1
<1>4. Cardinality(running') <= PoolSize
  <2>1. Cardinality(running') <= Cardinality(running)
    BY <1>1, RunningIsFinite, FS_Subset
  <2>2. IsFiniteSet(running') BY <1>1, RunningIsFinite, FS_Subset
  <2>3. Cardinality(running') \in Nat BY <2>2, FS_CardinalityType
  <2> QED BY <2>1, <2>3, RunningIsFinite, PoolAssumption DEF JobsRunOnce
<1>5. \A i, k \in DOMAIN sending' : sending'[i] = sending'[k] => i = k
  BY <1>1 DEF JobsRunOnce
<1>6. ASSUME NEW k \in ToSet(sending), Parent[k] # k PROVE Parent[k] \in running'
  <2>1. Parent[k] \in running BY <1>6 DEF JobsRunOnce
  <2>2. k \in Jobs BY DEF PoolTypeOK, ToSet
  <2>3. Parent[k] # j BY <1>1, <1>6, <2>2 DEF Blocked
  <2> QED BY <1>1, <2>1, <2>3
<1>7. JobsRunOnce' BY <1>1, <1>3, <1>4, <1>5, <1>6 DEF JobsRunOnce
<1> QED BY <1>2, <1>7

LEMMA PoolInvHolds == PoolSpec => []PoolInv
<1>1. PoolInv /\ [PoolNext]_poolVars => PoolInv'
  <2> SUFFICES ASSUME PoolInv, [PoolNext]_poolVars PROVE PoolInv' OBVIOUS
  <2>1. CASE UNCHANGED poolVars
    <3>1. /\ sending' = sending /\ inHand' = inHand /\ running' = running
          /\ finished' = finished /\ sent' = sent
      BY <2>1 DEF poolVars
    <3>2. ToSet(sending') = ToSet(sending) /\ ToSet(inHand') = ToSet(inHand) BY <3>1
    <3> QED BY <3>1, <3>2 DEF PoolInv, PoolTypeOK, JobsRunOnce
  <2> QED BY <2>1, PopKeeps, SubmitKeeps, SendJobKeeps, FinishKeeps DEF PoolNext
<1> QED BY <1>1, PoolInitHolds, PTL DEF PoolSpec

\* A job goes from its sender by way of the dispatching goroutine to one worker and
\* is done: it never runs twice, and never beside more jobs than there are workers
\* (JobsRunOnce: loopPop, Submit).
THEOREM PoolRunsJobsOnce == PoolSpec => []JobsRunOnce
BY PoolInvHolds, PTL DEF PoolInv

\* For any number of workers, jobs and senders: the pool is stuck only when every
\* worker's job waits to send and the dispatching goroutine for a worker, which
\* takes as many senders as workers (StuckOnlyWhenJammed: loopPop, Submit).
THEOREM PoolStopsOnlyWhenJammed == PoolSpec => []StuckOnlyWhenJammed
<1>1. PoolInv => StuckOnlyWhenJammed
  <2> SUFFICES ASSUME PoolInv PROVE StuckOnlyWhenJammed OBVIOUS
  <2> USE DEF PoolInv
  <2>1. ASSUME ~(sent \subseteq finished), ~(inHand = <<>> /\ sending # <<>>),
               ~(inHand # <<>> /\ Free), ~Jammed
        PROVE  \E j \in running :
                 /\ ~Blocked(j)
                 /\ \/ \E k \in Jobs \ {j} : Parent[k] = j /\ k \notin sent
                    \/ \A k \in Jobs \ {j} : Parent[k] = j => k \in sent
    <3>1. \E j \in running : ~Blocked(j)
      <4>1. CASE inHand = <<>>
        <5>1. sending = <<>> BY <2>1, <4>1
        <5>2. ToSet(sending) = {} /\ ToSet(inHand) = {} BY <4>1, <5>1, ToSetShort
        <5>3. PICK j \in running : TRUE BY <2>1, <5>2 DEF JobsRunOnce
        <5>4. ~Blocked(j) BY <5>2 DEF Blocked
        <5> QED BY <5>4
      <4>2. CASE inHand # <<>> BY <2>1, <4>2 DEF Jammed
      <4> QED BY <4>1, <4>2
    <3> QED BY <3>1
  <2>2. ASSUME Jammed PROVE PoolSize <= Cardinality(Senders)
    <3>1. running \subseteq Senders
      <4>1. ASSUME NEW j \in running PROVE j \in Senders
        <5>1. PICK k \in Jobs \ {j} : Parent[k] = j BY <2>2 DEF Jammed, Blocked
        <5> QED BY <5>1 DEF Senders
      <4> QED BY <4>1
    <3>2. IsFiniteSet(Senders) /\ Cardinality(Senders) \in Nat
      <4>1. Senders \subseteq Jobs BY PoolAssumption DEF Senders
      <4> QED BY <4>1, PoolAssumption, FS_Subset, FS_CardinalityType
    <3>3. Cardinality(running) <= Cardinality(Senders) BY <3>1, <3>2, FS_Subset
    <3>4. ~(Cardinality(running) < PoolSize) BY <2>2 DEF Jammed, Free
    <3> QED BY <3>2, <3>3, <3>4, RunningIsFinite, PoolAssumption
  <2> QED BY <2>1, <2>2 DEF StuckOnlyWhenJammed
<1> QED BY <1>1, PoolInvHolds, PTL

\* For any number of workers, jobs and senders: a jammed pool stays jammed, nobody
\* returns, sends or takes a job any more (JamsLast: loopPop, Submit).
THEOREM JammedForEver == PoolSpec => JamsLast
<1>1. PoolInv /\ [PoolNext]_poolVars => (Jammed => Jammed')
  <2> SUFFICES ASSUME PoolInv, [PoolNext]_poolVars, Jammed PROVE Jammed' OBVIOUS
  <2> USE DEF PoolInv
  <2>1. inHand # <<>> /\ ~(Cardinality(running) < PoolSize) /\ \A j \in running : Blocked(j)
    BY DEF Jammed, Free
  <2>2. CASE Pop BY <2>1, <2>2 DEF Pop
  <2>3. CASE Submit BY <2>1, <2>3 DEF Submit, Free
  <2>4. CASE \E j \in Jobs : Finish(j) BY <2>1, <2>4 DEF Finish
  <2>5. CASE \E j \in Jobs : SendJob(j)
    <3>1. PICK j \in Jobs : SendJob(j) BY <2>5
    <3>2. /\ sending' = Append(sending, j) /\ inHand' = inHand /\ running' = running
      BY <3>1 DEF SendJob
    <3>3. ToSet(sending) \subseteq ToSet(sending')
      <4>1. sending \in Seq(Jobs) BY DEF PoolTypeOK
      <4> QED BY <3>2, <4>1, ToSetAppend
    <3>4. ASSUME NEW i \in running PROVE Blocked(i)'
      BY <2>1, <3>3 DEF Blocked
    <3> QED BY <2>1, <3>2, <3>4 DEF Jammed, Free
  <2>6. CASE UNCHANGED poolVars
    <3>1. sending' = sending /\ inHand' = inHand /\ running' = running
      BY <2>6 DEF poolVars
    <3> QED BY <2>1, <3>1 DEF Jammed, Free, Blocked
  <2> QED BY <2>2, <2>3, <2>4, <2>5, <2>6 DEF PoolNext
<1>2. PoolInv /\ [PoolNext]_poolVars => [Jammed => Jammed']_poolVars BY <1>1
<1> QED BY <1>2, PoolInvHolds, PTL DEF PoolSpec, JamsLast

----------------------------------------------------------------------------
(* Decimals: arithmetic on integers.                                        *)

LEMMA MulInt == ASSUME NEW a \in Int, NEW b \in Int PROVE a * b \in Int
OBVIOUS
LEMMA MulAssociates ==
  ASSUME NEW a \in Int, NEW b \in Int, NEW c \in Int
  PROVE  a * (b * c) = (a * b) * c
OBVIOUS
LEMMA MulDistributes ==
  ASSUME NEW a \in Int, NEW b \in Int, NEW c \in Int
  PROVE  (a + b) * c = a * c + b * c /\ (a - b) * c = a * c - b * c /\ (-a) * c = -(a * c)
OBVIOUS
LEMMA MulPositive ==
  ASSUME NEW a \in Int, NEW b \in Int, a > 0, b > 0 PROVE a * b > 0
OBVIOUS
LEMMA MulLess ==
  ASSUME NEW a \in Int, NEW b \in Int, NEW c \in Int, a < b, c > 0 PROVE a * c < b * c
OBVIOUS
LEMMA MulLeq ==
  ASSUME NEW a \in Int, NEW b \in Int, NEW c \in Int, a <= b, c > 0 PROVE a * c <= b * c
BY MulLess

LEMMA MulSign ==
  ASSUME NEW a \in Int, NEW c \in Int, c > 0
  PROVE  /\ a * c < 0 <=> a < 0
         /\ a * c = 0 <=> a = 0
         /\ SignOf(a * c) = SignOf(a)
         /\ Size(a * c) = Size(a) * c
<1>1. CASE a < 0
  <2>1. a * c < 0 * c BY <1>1, MulLess
  <2>2. 0 * c = 0 OBVIOUS
  <2>3. a * c < 0 BY <2>1, <2>2, MulInt
  <2>4. (-a) * c = -(a * c) BY MulDistributes
  <2> QED BY <1>1, <2>3, <2>4, MulInt DEF SignOf, Size
<1>2. CASE a = 0
  <2>1. a * c = 0 BY <1>2
  <2> QED BY <1>2, <2>1 DEF SignOf, Size
<1>3. CASE a > 0
  <2>1. a * c > 0 BY <1>3, MulPositive
  <2> QED BY <1>3, <2>1, MulInt DEF SignOf, Size
<1> QED BY <1>1, <1>2, <1>3

LEMMA DivMod ==
  ASSUME NEW a \in Int, NEW b \in Int, b > 0, NEW q, NEW r, q = a \div b, r = a % b
  PROVE  a = b * q + r
OBVIOUS
LEMMA DivFacts ==
  ASSUME NEW a \in Int, NEW b \in Int, b > 0
  PROVE  /\ a \div b \in Int
         /\ b * (a \div b) <= a
         /\ a < b * (a \div b) + b
         /\ a % b = a - b * (a \div b)
<1> DEFINE q == a \div b
           r == a % b
           m == b * q
<1>1. q \in Int /\ r \in 0..(b - 1) OBVIOUS
<1>2. a = b * q + r BY DivMod
<1> HIDE DEF q, r
<1>3. m \in Int /\ a = m + r BY <1>1, <1>2, MulInt
<1> HIDE DEF m
<1>4. m <= a /\ a < m + b /\ r = a - m BY <1>1, <1>3
<1> QED BY <1>1, <1>4 DEF q, r, m

\* Quo leaves a remainder smaller than the divisor, on the side of a.
LEMMA QuoFacts ==
  ASSUME NEW a \in Int, NEW b \in Int, b # 0
  PROVE  /\ Quo(a, b) \in Int
         /\ Quo(a, b) * b \in Int
         /\ Size(a - Quo(a, b) * b) < Size(b)
         /\ SignOf(a - Quo(a, b) * b) \in {0, SignOf(a)}
<1> DEFINE n == Size(a) \div Size(b)
<1>1. Size(a) \in Int /\ Size(b) \in Int /\ Size(b) > 0 BY DEF Size
<1>2. /\ n \in Int
      /\ Size(b) * n <= Size(a) /\ Size(a) < Size(b) * n + Size(b)
  BY <1>1, DivFacts
<1>3. Quo(a, b) = SignOf(a) * SignOf(b) * n BY DEF Quo
<1> HIDE DEF n
<1> DEFINE m == Size(b) * n
<1>4. m \in Int BY <1>1, <1>2, MulInt
<1>5. m <= Size(a) /\ Size(a) < m + Size(b) BY <1>2
<1>6. Quo(a, b) \in Int
  <2>1. SignOf(a) * SignOf(b) \in Int BY DEF SignOf
  <2> QED BY <1>2, <1>3, <2>1, MulInt
<1>7. Quo(a, b) * b = SignOf(a) * m
  <2>1. CASE SignOf(a) = 0
    <3>1. Quo(a, b) = 0
      <4>1. SignOf(a) * SignOf(b) = 0 BY <2>1 DEF SignOf
      <4> QED BY <1>2, <1>3, <4>1
    <3>2. SignOf(a) * m = 0 BY <1>4, <2>1
    <3> QED BY <3>1, <3>2
  <2>2. CASE SignOf(a) = 1 /\ b > 0
    <3>1. Quo(a, b) = n BY <1>2, <1>3, <2>2 DEF SignOf
    <3>2. n * b = m BY <1>2, <2>2 DEF Size
    <3> QED BY <1>4, <2>2, <3>1, <3>2
  <2>3. CASE SignOf(a) = 1 /\ b < 0
    <3>1. Quo(a, b) = -n BY <1>2, <1>3, <2>3 DEF SignOf
    <3>2. (-n) * b = m BY <1>2, <2>3 DEF Size
    <3> QED BY <1>4, <2>3, <3>1, <3>2
  <2>4. CASE SignOf(a) = -1 /\ b > 0
    <3>1. Quo(a, b) = -n BY <1>2, <1>3, <2>4 DEF SignOf
    <3>2. (-n) * b = -m BY <1>2, <2>4 DEF Size
    <3> QED BY <1>4, <2>4, <3>1, <3>2
  <2>5. CASE SignOf(a) = -1 /\ b < 0
    <3>1. Quo(a, b) = n BY <1>2, <1>3, <2>5 DEF SignOf
    <3>2. n * b = -m BY <1>2, <2>5 DEF Size
    <3> QED BY <1>4, <2>5, <3>1, <3>2
  <2> QED BY <2>1, <2>2, <2>3, <2>4, <2>5 DEF SignOf
<1> HIDE DEF m
<1>8. Quo(a, b) * b \in Int BY <1>6, MulInt
<1>9. a - SignOf(a) * m \in Int /\ Size(a - SignOf(a) * m) < Size(b)
      /\ SignOf(a - SignOf(a) * m) \in {0, SignOf(a)}
  BY <1>4, <1>5 DEF Size, SignOf
<1> QED BY <1>6, <1>7, <1>8, <1>9

----------------------------------------------------------------------------
(* Decimals: the powers of ten.                                             *)

Powers(g, n) == /\ g \in [0..n -> Nat \ {0}]
                /\ g[0] = 1
                /\ \A i \in 1..n : g[i] = 10 * g[i - 1]

LEMMA PowersExist == ASSUME NEW n \in Nat PROVE \E g : Powers(g, n)
<1> DEFINE S == {m \in Nat : \E g : Powers(g, m)}
<1>1. 0 \in S
  <2>1. Powers([i \in 0..0 |-> 1], 0) BY DEF Powers
  <2> QED BY <2>1
<1>2. ASSUME NEW m \in S PROVE m + 1 \in S
  <2>1. m \in Nat OBVIOUS
  <2>2. PICK g : Powers(g, m) OBVIOUS
  <2> DEFINE h == [i \in 0..(m + 1) |-> IF i = m + 1 THEN 10 * g[m] ELSE g[i]]
  <2>3. \A i \in 0..m : h[i] = g[i] /\ g[i] \in Nat \ {0} BY <2>1, <2>2 DEF Powers
  <2>4. h[m + 1] = 10 * g[m] BY <2>1
  <2>5. \A i \in 1..(m + 1) : h[i] = 10 * h[i - 1]
    <3> SUFFICES ASSUME NEW i \in 1..(m + 1) PROVE h[i] = 10 * h[i - 1]
      OBVIOUS
    <3>1. CASE i = m + 1
      <4>1. m \in 0..m /\ i - 1 = m BY <2>1, <3>1
      <4> QED BY <2>3, <2>4, <3>1, <4>1
    <3>2. CASE i \in 1..m
      <4>1. i \in 0..m /\ i - 1 \in 0..m BY <2>1, <3>2
      <4>2. g[i] = 10 * g[i - 1] BY <2>2, <3>2 DEF Powers
      <4> QED BY <2>3, <4>1, <4>2
    <3> QED BY <2>1, <3>1, <3>2
  <2>6. h \in [0..(m + 1) -> Nat \ {0}]
    <3>1. \A i \in 0..(m + 1) : h[i] \in Nat \ {0}
      <4>1. m \in 0..m BY <2>1
      <4>2. 10 * g[m] \in Nat \ {0}
        <5>1. g[m] \in Nat \ {0} BY <2>3, <4>1
        <5>2. \A x \in Nat \ {0} : 10 * x \in Nat \ {0} OBVIOUS
        <5> QED BY <5>1, <5>2
      <4> SUFFICES ASSUME NEW i \in 0..(m + 1) PROVE h[i] \in Nat \ {0}
        OBVIOUS
      <4>3. i = m + 1 \/ i \in 0..m BY <2>1
      <4> HIDE DEF h
      <4> QED BY <2>3, <2>4, <4>2, <4>3
    <3> QED BY <3>1
  <2>7. h[0] = 1 BY <2>1, <2>2, <2>3 DEF Powers
  <2> HIDE DEF h
  <2>8. Powers(h, m + 1) BY <2>5, <2>6, <2>7 DEF Powers
  <2> QED BY <2>1, <2>8
<1> HIDE DEF S
<1>3. S \in SUBSET Nat BY DEF S
<1>4. S = Nat BY <1>1, <1>2, <1>3, NatSetInduction
<1> QED BY <1>4 DEF S

LEMMA PowersAgree ==
  ASSUME NEW n \in Nat, NEW m \in Nat, n <= m, NEW g, NEW h, Powers(g, n), Powers(h, m)
  PROVE  g[n] = h[n]
<1> DEFINE S == {i \in Nat : i <= n => g[i] = h[i]}
<1>1. 0 \in S BY DEF Powers
<1>2. ASSUME NEW i \in S PROVE i + 1 \in S
  <2> SUFFICES ASSUME i + 1 <= n PROVE g[i + 1] = h[i + 1]
    OBVIOUS
  <2>1. i + 1 \in 1..n /\ i + 1 \in 1..m /\ (i + 1) - 1 = i OBVIOUS
  <2>2. g[i + 1] = 10 * g[i] /\ h[i + 1] = 10 * h[i] BY <2>1 DEF Powers
  <2>3. g[i] = h[i] OBVIOUS
  <2> QED BY <2>2, <2>3
<1> HIDE DEF S
<1>3. S \in SUBSET Nat BY DEF S
<1>4. S = Nat BY <1>1, <1>2, <1>3, NatSetInduction
<1> QED BY <1>4 DEF S

LEMMA TenIsRecursive ==
  Ten = [n \in Nat |-> IF n = 0 THEN 1 ELSE 10 * Ten[n - 1]]
<1> DEFINE G(n) == CHOOSE g : Powers(g, n)
           p == [n \in Nat |-> G(n)[n]]
<1>1. \A n \in Nat : Powers(G(n), n) BY PowersExist
<1> HIDE DEF G
<1>2. \A n \in Nat : p[n] = IF n = 0 THEN 1 ELSE 10 * p[n - 1]
  <2> SUFFICES ASSUME NEW n \in Nat PROVE p[n] = IF n = 0 THEN 1 ELSE 10 * p[n - 1]
    OBVIOUS
  <2>1. CASE n = 0 BY <1>1, <2>1 DEF Powers
  <2>2. CASE n # 0
    <3>1. n - 1 \in Nat /\ n \in 1..n /\ n - 1 <= n BY <2>2
    <3>2. G(n)[n] = 10 * G(n)[n - 1] BY <1>1, <3>1 DEF Powers
    <3>3. G(n - 1)[n - 1] = G(n)[n - 1] BY <1>1, <3>1, PowersAgree
    <3>4. p[n - 1] = G(n - 1)[n - 1] BY <3>1
    <3> QED BY <2>2, <3>2, <3>3, <3>4
  <2> QED BY <2>1, <2>2
<1>3. p = [n \in Nat |-> IF n = 0 THEN 1 ELSE 10 * p[n - 1]] BY <1>2
<1> HIDE DEF p
<1>4. \E f : f = [n \in Nat |-> IF n = 0 THEN 1 ELSE 10 * f[n - 1]] BY <1>3
<1> QED BY <1>4 DEF Ten

LEMMA TenSteps ==
  ASSUME NEW n \in Nat PROVE Ten[0] = 1 /\ Ten[n + 1] = 10 * Ten[n]
<1>1. \A m \in Nat : Ten[m] = IF m = 0 THEN 1 ELSE 10 * Ten[m - 1] BY TenIsRecursive
<1>2. n + 1 \in Nat /\ n + 1 # 0 /\ (n + 1) - 1 = n OBVIOUS
<1> QED BY <1>1, <1>2

LEMMA TenPositive == ASSUME NEW n \in Nat PROVE Ten[n] \in Int /\ Ten[n] > 0
<1> DEFINE S == {m \in Nat : Ten[m] \in Int /\ Ten[m] > 0}
<1>1. 0 \in S BY TenSteps
<1>2. ASSUME NEW m \in S PROVE m + 1 \in S
  <2>1. Ten[m + 1] = 10 * Ten[m] BY TenSteps
  <2> QED BY <2>1
<1> HIDE DEF S
<1>3. S \in SUBSET Nat BY DEF S
<1>4. S = Nat BY <1>1, <1>2, <1>3, NatSetInduction
<1> QED BY <1>4 DEF S

LEMMA TenAdds ==
  ASSUME NEW m \in Nat, NEW n \in Nat PROVE Ten[m + n] = Ten[m] * Ten[n]
<1> DEFINE S == {k \in Nat : Ten[m + k] = Ten[m] * Ten[k]}
<1>1. 0 \in S
  <2>1. Ten[0] = 1 /\ Ten[m] \in Int BY TenSteps, TenPositive
  <2>2. m + 0 = m OBVIOUS
  <2> QED BY <2>1, <2>2
<1>2. ASSUME NEW k \in S PROVE k + 1 \in S
  <2>1. k \in Nat /\ m + k \in Nat /\ m + (k + 1) = (m + k) + 1 OBVIOUS
  <2>2. Ten[m + (k + 1)] = 10 * Ten[m + k] BY <2>1, TenSteps
  <2>3. Ten[k + 1] = 10 * Ten[k] BY <2>1, TenSteps
  <2>4. Ten[m] \in Int /\ Ten[k] \in Int BY <2>1, TenPositive
  <2>5. Ten[m + k] = Ten[m] * Ten[k] OBVIOUS
  <2>6. \A a, b \in Int : 10 * (a * b) = a * (10 * b) OBVIOUS
  <2>7. Ten[m + (k + 1)] = Ten[m] * Ten[k + 1] BY <2>2, <2>3, <2>4, <2>5, <2>6
  <2> QED BY <2>1, <2>7
<1> HIDE DEF S
<1>3. S \in SUBSET Nat BY DEF S
<1>4. S = Nat BY <1>1, <1>2, <1>3, NatSetInduction
<1> QED BY <1>4 DEF S

----------------------------------------------------------------------------
(* Decimals: a decimal in units of a power of ten.                          *)

Decimals == [value : Int, exp : Int]
\* What d is in units of 10 ^ unit: an integer once the unit is small enough.
Amount(d, unit) == d.value * Ten[d.exp - unit]

LEMMA DecimalFields ==
  ASSUME NEW d \in Decimals
  PROVE  d.value \in Int /\ d.exp \in Int /\ d = New(d.value, d.exp)
BY DEF Decimals, New
LEMMA NewIsDecimal ==
  ASSUME NEW v \in Int, NEW x \in Int
  PROVE  New(v, x) \in Decimals /\ New(v, x).value = v /\ New(v, x).exp = x
BY DEF Decimals, New

LEMMA AmountInt ==
  ASSUME NEW d \in Decimals, NEW u \in Int, u <= d.exp PROVE Amount(d, u) \in Int
<1>1. d.exp - u \in Nat /\ d.value \in Int BY DecimalFields
<1> QED BY <1>1, TenPositive, MulInt DEF Amount

LEMMA AmountOwnUnit == ASSUME NEW d \in Decimals PROVE Amount(d, d.exp) = d.value
<1>1. d.exp - d.exp = 0 /\ d.value \in Int BY DecimalFields
<1>2. 0 \in Nat OBVIOUS
<1>3. Ten[0] = 1 BY <1>2, TenSteps
<1> QED BY <1>1, <1>3 DEF Amount

\* A smaller unit multiplies all by the same power.
LEMMA AmountSmaller ==
  ASSUME NEW d \in Decimals, NEW base \in Int, NEW u \in Int, u <= base, base <= d.exp
  PROVE  Amount(d, u) = Amount(d, base) * Ten[base - u]
<1>1. d.exp - base \in Nat /\ base - u \in Nat /\ d.value \in Int BY DecimalFields
<1>2. d.exp - u = (d.exp - base) + (base - u) BY DecimalFields
<1>3. Ten[d.exp - u] = Ten[d.exp - base] * Ten[base - u] BY <1>1, <1>2, TenAdds
<1>4. Ten[d.exp - base] \in Int /\ Ten[base - u] \in Int BY <1>1, TenPositive
<1> QED BY <1>1, <1>3, <1>4, MulAssociates DEF Amount

LEMMA AmountNew ==
  ASSUME NEW v \in Int, NEW x \in Int, NEW u \in Int, u <= x
  PROVE  Amount(New(v, x), u) = v * Ten[x - u]
BY NewIsDecimal DEF Amount

\* Rescaling to a smaller exponent keeps the number.
LEMMA RescaleDown ==
  ASSUME NEW d \in Decimals, NEW base \in Int, base <= d.exp
  PROVE  rescale(d, base) = New(Amount(d, base), base)
BY DecimalFields DEF rescale, Amount

LEMMA LesserFacts ==
  ASSUME NEW x \in Int, NEW y \in Int
  PROVE  /\ Lesser(x, y) \in Int /\ Lesser(x, y) <= x /\ Lesser(x, y) <= y
         /\ \A u \in Int : u <= x /\ u <= y => u <= Lesser(x, y)
BY DEF Lesser

\* Two decimals at the unit of the finer one, and at any smaller one.
AmountBase(d, e, u, base) ==
    /\ base \in Int /\ u <= base
    /\ Amount(d, base) \in Int /\ Amount(e, base) \in Int
    /\ rescale(d, base).value = Amount(d, base) /\ rescale(e, base).value = Amount(e, base)
    /\ Ten[base - u] \in Int /\ Ten[base - u] > 0
    /\ Amount(d, u) = Amount(d, base) * Ten[base - u]
    /\ Amount(e, u) = Amount(e, base) * Ten[base - u]

LEMMA BaseFacts ==
  ASSUME NEW d \in Decimals, NEW e \in Decimals, NEW u \in Int, u <= d.exp, u <= e.exp,
         NEW base, base = Lesser(d.exp, e.exp)
  PROVE  AmountBase(d, e, u, base)
<1>1. d.exp \in Int /\ e.exp \in Int BY DecimalFields
<1>2. base \in Int /\ base <= d.exp /\ base <= e.exp /\ u <= base BY <1>1, LesserFacts
<1>3. Amount(d, base) \in Int /\ Amount(e, base) \in Int BY <1>2, AmountInt
<1>4. rescale(d, base).value = Amount(d, base) /\ rescale(e, base).value = Amount(e, base)
  BY <1>2, <1>3, RescaleDown, NewIsDecimal
<1>5. base - u \in Nat BY <1>2
<1> QED BY <1>2, <1>3, <1>4, <1>5, TenPositive, AmountSmaller DEF AmountBase

LEMMA AddExact ==
  ASSUME NEW d \in Decimals, NEW e \in Decimals, NEW u \in Int, u <= d.exp, u <= e.exp
  PROVE  /\ Add(d, e) \in Decimals /\ u <= Add(d, e).exp
         /\ Amount(Add(d, e), u) = Amount(d, u) + Amount(e, u)
<1> DEFINE base == Lesser(d.exp, e.exp)
<1>1. AmountBase(d, e, u, base) BY BaseFacts
<1>2. Add(d, e) = New(rescale(d, base).value + rescale(e, base).value, base) BY DEF Add
<1> HIDE DEF base
<1>3. Add(d, e) = New(Amount(d, base) + Amount(e, base), base) BY <1>1, <1>2 DEF AmountBase
<1>4. Amount(d, base) + Amount(e, base) \in Int BY <1>1 DEF AmountBase
<1>5. Amount(Add(d, e), u) = (Amount(d, base) + Amount(e, base)) * Ten[base - u]
  BY <1>1, <1>3, <1>4, AmountNew DEF AmountBase
<1> QED BY <1>1, <1>3, <1>4, <1>5, MulDistributes, NewIsDecimal DEF AmountBase

LEMMA SubExact ==
  ASSUME NEW d \in Decimals, NEW e \in Decimals, NEW u \in Int, u <= d.exp, u <= e.exp
  PROVE  /\ Sub(d, e) \in Decimals /\ u <= Sub(d, e).exp
         /\ Amount(Sub(d, e), u) = Amount(d, u) - Amount(e, u)
<1> DEFINE base == Lesser(d.exp, e.exp)
<1>1. AmountBase(d, e, u, base) BY BaseFacts
<1>2. Sub(d, e) = New(rescale(d, base).value - rescale(e, base).value, base) BY DEF Sub
<1> HIDE DEF base
<1>3. Sub(d, e) = New(Amount(d, base) - Amount(e, base), base) BY <1>1, <1>2 DEF AmountBase
<1>4. Amount(d, base) - Amount(e, base) \in Int BY <1>1 DEF AmountBase
<1>5. Amount(Sub(d, e), u) = (Amount(d, base) - Amount(e, base)) * Ten[base - u]
  BY <1>1, <1>3, <1>4, AmountNew DEF AmountBase
<1> QED BY <1>1, <1>3, <1>4, <1>5, MulDistributes, NewIsDecimal DEF AmountBase

LEMMA CmpExact ==
  ASSUME NEW d \in Decimals, NEW e \in Decimals, NEW u \in Int, u <= d.exp, u <= e.exp
  PROVE  Cmp(d, e) = SignOf(Amount(d, u) - Amount(e, u))
<1> DEFINE base == Lesser(d.exp, e.exp)
<1>1. AmountBase(d, e, u, base) BY BaseFacts
<1>2. Cmp(d, e) = SignOf(rescale(d, base).value - rescale(e, base).value) BY DEF Cmp
<1> HIDE DEF base
<1>3. Cmp(d, e) = SignOf(Amount(d, base) - Amount(e, base)) BY <1>1, <1>2 DEF AmountBase
<1>4. Amount(d, u) - Amount(e, u) = (Amount(d, base) - Amount(e, base)) * Ten[base - u]
  BY <1>1, MulDistributes DEF AmountBase
<1>5. Amount(d, base) - Amount(e, base) \in Int BY <1>1 DEF AmountBase
<1> QED BY <1>1, <1>3, <1>4, <1>5, MulSign DEF AmountBase

LEMMA MulSwaps ==
  ASSUME NEW p \in Int, NEW q \in Int, NEW r \in Int, NEW s \in Int
  PROVE  (p * q) * (r * s) = (p * r) * (q * s)
OBVIOUS

LEMMA MulExact ==
  ASSUME NEW d \in Decimals, NEW e \in Decimals,
         NEW u \in Int, NEW w \in Int, u <= d.exp, w <= e.exp
  PROVE  /\ Mul(d, e) \in Decimals /\ u + w <= Mul(d, e).exp
         /\ Amount(Mul(d, e), u + w) = Amount(d, u) * Amount(e, w)
<1>1. d.value \in Int /\ e.value \in Int /\ d.exp - u \in Nat /\ e.exp - w \in Nat
      /\ d.exp \in Int /\ e.exp \in Int
  BY DecimalFields
<1> DEFINE a == Ten[d.exp - u]
           b == Ten[e.exp - w]
<1>2. a \in Int /\ b \in Int BY <1>1, TenPositive
<1>3. Ten[(d.exp - u) + (e.exp - w)] = a * b BY <1>1, TenAdds
<1>4. (d.exp + e.exp) - (u + w) = (d.exp - u) + (e.exp - w) BY <1>1
<1>5. d.value * e.value \in Int /\ d.exp + e.exp \in Int /\ u + w \in Int
      /\ u + w <= d.exp + e.exp
  BY <1>1, MulInt
<1>6. Mul(d, e) = New(d.value * e.value, d.exp + e.exp) BY DEF Mul
<1>7. Amount(Mul(d, e), u + w) = (d.value * e.value) * (a * b)
  BY <1>3, <1>4, <1>5, <1>6, AmountNew
<1>8. Amount(d, u) = d.value * a /\ Amount(e, w) = e.value * b BY DEF Amount
<1> HIDE DEF a, b
<1>9. PICK p \in Int, q \in Int : p = d.value /\ q = e.value BY <1>1
<1>10. (p * q) * (a * b) = (p * a) * (q * b) BY <1>2, MulSwaps
<1>11. Mul(d, e) \in Decimals /\ u + w <= Mul(d, e).exp
  <2>1. PICK v \in Int : v = d.value * e.value BY <1>5, Zenon
  <2> QED BY <1>5, <1>6, <2>1, NewIsDecimal
<1> QED BY <1>7, <1>8, <1>9, <1>10, <1>11, Zenon

LEMMA AbsExact ==
  ASSUME NEW d \in Decimals, NEW u \in Int, u <= d.exp
  PROVE  /\ Abs(d) \in Decimals /\ Abs(d).exp = d.exp /\ Amount(Abs(d), u) = Size(Amount(d, u))
         /\ Neg(d) \in Decimals /\ Neg(d).exp = d.exp /\ Amount(Neg(d), u) = -Amount(d, u)
         /\ Sign(d) = SignOf(Amount(d, u))
<1>1. d.value \in Int /\ d.exp \in Int /\ d.exp - u \in Nat BY DecimalFields
<1>2. Ten[d.exp - u] \in Int /\ Ten[d.exp - u] > 0 BY <1>1, TenPositive
<1>3. Size(d.value) \in Int /\ -d.value \in Int BY <1>1 DEF Size
<1>4. Amount(Abs(d), u) = Size(d.value) * Ten[d.exp - u] BY <1>1, <1>3, AmountNew DEF Abs
<1>5. Amount(Neg(d), u) = (-d.value) * Ten[d.exp - u] BY <1>1, <1>3, AmountNew DEF Neg
<1>6. Amount(d, u) = d.value * Ten[d.exp - u] BY DEF Amount
<1>7. Size(Amount(d, u)) = Size(d.value) * Ten[d.exp - u] /\ SignOf(Amount(d, u)) = SignOf(d.value)
  <2>1. PICK v \in Int, t \in Int : v = d.value /\ t = Ten[d.exp - u] BY <1>1, <1>2
  <2>2. SignOf(v * t) = SignOf(v) /\ Size(v * t) = Size(v) * t BY <1>2, <2>1, MulSign
  <2> QED BY <1>6, <2>1, <2>2
<1>8. (-d.value) * Ten[d.exp - u] = -(d.value * Ten[d.exp - u])
  BY <1>1, <1>2, MulDistributes
<1> QED BY <1>1, <1>3, <1>4, <1>5, <1>6, <1>7, <1>8, NewIsDecimal DEF Abs, Neg, Sign

----------------------------------------------------------------------------
(* Decimals: sums, products and comparisons.                                *)

(* Add, Sub, Mul, Neg and Abs give the exact result whatever the exponents  *)
(* of the two decimals are, and the comparisons are those of the numbers.   *)
THEOREM DecimalArithmeticIsExact ==
  ASSUME NEW d \in Decimals, NEW e \in Decimals, NEW u \in Int, u <= d.exp, u <= e.exp
  PROVE  /\ Amount(Add(d, e), u) = Amount(d, u) + Amount(e, u)
         /\ Amount(Sub(d, e), u) = Amount(d, u) - Amount(e, u)
         /\ Amount(Mul(d, e), u + u) = Amount(d, u) * Amount(e, u)
         /\ Amount(Neg(d), u) = -Amount(d, u)
         /\ Amount(Abs(d), u) = Size(Amount(d, u))
         /\ Equal(d, e) <=> Amount(d, u) = Amount(e, u)
         /\ LessThan(d, e) <=> Amount(d, u) < Amount(e, u)
         /\ LessThanOrEqual(d, e) <=> Amount(d, u) <= Amount(e, u)
         /\ GreaterThan(d, e) <=> Amount(d, u) > Amount(e, u)
         /\ GreaterThanOrEqual(d, e) <=> Amount(d, u) >= Amount(e, u)
         /\ Sign(d) = SignOf(Amount(d, u))
<1>1. Amount(d, u) \in Int /\ Amount(e, u) \in Int BY AmountInt
<1>2. Cmp(d, e) = SignOf(Amount(d, u) - Amount(e, u)) BY CmpExact
<1>3. /\ Equal(d, e) <=> Amount(d, u) = Amount(e, u)
      /\ LessThan(d, e) <=> Amount(d, u) < Amount(e, u)
      /\ LessThanOrEqual(d, e) <=> Amount(d, u) <= Amount(e, u)
      /\ GreaterThan(d, e) <=> Amount(d, u) > Amount(e, u)
      /\ GreaterThanOrEqual(d, e) <=> Amount(d, u) >= Amount(e, u)
  BY <1>1, <1>2
     DEF Equal, LessThan, LessThanOrEqual, GreaterThan, GreaterThanOrEqual, SignOf
<1>4. Amount(Add(d, e), u) = Amount(d, u) + Amount(e, u) BY AddExact
<1>5. Amount(Sub(d, e), u) = Amount(d, u) - Amount(e, u) BY SubExact
<1>6. Amount(Mul(d, e), u + u) = Amount(d, u) * Amount(e, u) BY MulExact
<1> QED BY <1>3, <1>4, <1>5, <1>6, AbsExact

----------------------------------------------------------------------------
(* Decimals: division.                                                      *)

\* The integers a and b that QuoRem divides: d and a share of e, in a unit w.
QuoRemParts(d, e, p, u, a, b, w, x) ==
    /\ a \in Int /\ b \in Int /\ b # 0 /\ x \in Int /\ u <= x
    /\ w = Ten[x - u]
    /\ QuoRem(d, e, p) = <<New(Quo(a, b), -p), New(a - Quo(a, b) * b, x)>>
    /\ Amount(d, u) = a * w
    /\ Amount(e, u + p) = b * w

LEMMA QuoRemHasParts ==
  ASSUME NEW d \in Decimals, NEW e \in Decimals, e.value # 0,
         NEW p \in Int, NEW u \in Int, u <= d.exp, u <= e.exp - p
  PROVE  \E a, b, w, x : QuoRemParts(d, e, p, u, a, b, w, x)
<1>1. /\ d.value \in Int /\ d.exp \in Int /\ e.value \in Int /\ e.exp \in Int
  BY DecimalFields
<1> DEFINE s == d.exp - e.exp + p
<1>2. s \in Int BY <1>1
<1>3. CASE s >= 0
  <2> DEFINE a == d.value * Ten[s]
             b == e.value
             x == e.exp - p
  <2>1. s \in Nat /\ x - u \in Nat /\ x \in Int /\ u <= x BY <1>1, <1>3
  <2>2. Ten[s] \in Int /\ Ten[x - u] \in Int BY <2>1, TenPositive
  <2>3. d.exp - u = s + (x - u) /\ e.exp - (u + p) = x - u BY <1>1
  <2>4. Amount(d, u) = d.value * (Ten[s] * Ten[x - u]) BY <2>1, <2>3, TenAdds DEF Amount
  <2>5. Amount(d, u) = a * Ten[x - u] BY <1>1, <2>2, <2>4, MulAssociates
  <2>6. Amount(e, u + p) = b * Ten[x - u] BY <2>3 DEF Amount
  <2>7. QuoRem(d, e, p) = <<New(Quo(a, b), -p), New(a - Quo(a, b) * b, x)>>
    BY <1>2, <1>3 DEF QuoRem
  <2>8. a \in Int /\ b \in Int BY <1>1, <2>2, MulInt
  <2> HIDE DEF a, x
  <2>9. QuoRemParts(d, e, p, u, a, b, Ten[x - u], x)
    BY <2>1, <2>5, <2>6, <2>7, <2>8 DEF QuoRemParts
  <2> QED BY <2>9
<1>4. CASE s < 0
  <2> DEFINE a == d.value
             b == e.value * Ten[-s]
             x == d.exp
  <2>1. -s \in Nat /\ x - u \in Nat /\ x \in Int /\ u <= x BY <1>1, <1>4
  <2>2. Ten[-s] \in Int /\ Ten[-s] > 0 /\ Ten[x - u] \in Int BY <2>1, TenPositive
  <2>3. e.exp - (u + p) = (-s) + (x - u) BY <1>1
  <2>4. Amount(e, u + p) = e.value * (Ten[-s] * Ten[x - u]) BY <2>1, <2>3, TenAdds DEF Amount
  <2>5. Amount(e, u + p) = b * Ten[x - u] BY <1>1, <2>2, <2>4, MulAssociates
  <2>6. Amount(d, u) = a * Ten[x - u] BY DEF Amount
  <2>7. QuoRem(d, e, p) = <<New(Quo(a, b), -p), New(a - Quo(a, b) * b, x)>>
    BY <1>2, <1>4 DEF QuoRem
  <2>8. a \in Int /\ b \in Int /\ b # 0
    <3>1. PICK t \in Int : t = Ten[-s] /\ t > 0 BY <2>2
    <3>2. e.value * t = 0 <=> e.value = 0 BY <1>1, <3>1, MulSign
    <3> QED BY <1>1, <3>1, <3>2, MulInt
  <2> HIDE DEF b
  <2>9. QuoRemParts(d, e, p, u, a, b, Ten[x - u], x)
    BY <2>1, <2>5, <2>6, <2>7, <2>8 DEF QuoRemParts
  <2> QED BY <2>9
<1> QED BY <1>2, <1>3, <1>4

(* QuoRem: d is the quotient's share of e and a remainder smaller than that *)
(* share of e and on the side of d, as its comment says.                    *)
THEOREM QuoRemIsExact ==
  ASSUME NEW d \in Decimals, NEW e \in Decimals, e.value # 0,
         NEW p \in Int, NEW u \in Int, u <= d.exp, u <= e.exp - p
  PROVE  LET q == QuoRem(d, e, p)[1]
             r == QuoRem(d, e, p)[2]
             share == Amount(e, u + p)
         IN  /\ q \in Decimals /\ q.exp = -p
             /\ r \in Decimals /\ u <= r.exp
             /\ share \in Int /\ share # 0 /\ q.value * share \in Int
             /\ Amount(d, u) = q.value * share + Amount(r, u)
             /\ Size(Amount(r, u)) < Size(share)
             /\ SignOf(Amount(r, u)) \in {0, SignOf(Amount(d, u))}
             /\ SignOf(share) = SignOf(e.value)
<1>1. PICK a, b, w, x : QuoRemParts(d, e, p, u, a, b, w, x) BY QuoRemHasParts
<1>2. a \in Int /\ b \in Int /\ b # 0 /\ x \in Int /\ u <= x BY <1>1 DEF QuoRemParts
<1>3. w \in Int /\ w > 0
  <2>1. x - u \in Nat BY <1>2
  <2> QED BY <1>1, <2>1, TenPositive DEF QuoRemParts
<1> DEFINE n == Quo(a, b)
           m == n * b
           z == a - m
<1>4. n \in Int /\ m \in Int /\ z \in Int /\ Size(z) < Size(b) /\ SignOf(z) \in {0, SignOf(a)}
  BY <1>2, QuoFacts
<1>5. QuoRem(d, e, p) = <<New(n, -p), New(z, x)>> BY <1>1 DEF QuoRemParts
<1>6. Amount(d, u) = a * w /\ Amount(e, u + p) = b * w /\ w = Ten[x - u] BY <1>1 DEF QuoRemParts
<1> HIDE DEF z
<1>7. QuoRem(d, e, p)[1] = New(n, -p) /\ QuoRem(d, e, p)[2] = New(z, x) BY <1>5
<1>8. Amount(New(z, x), u) = z * w BY <1>2, <1>4, <1>6, AmountNew
<1>9. a = m + z BY <1>2, <1>4 DEF z
<1> HIDE DEF n
<1>10. a * w = n * (b * w) + z * w
  <2>1. (m + z) * w = m * w + z * w BY <1>3, <1>4, MulDistributes
  <2>2. n * (b * w) = (n * b) * w BY <1>2, <1>3, <1>4, MulAssociates
  <2> QED BY <1>9, <2>1, <2>2
<1>11. /\ b * w \in Int /\ z * w \in Int /\ b * w # 0 /\ n * (b * w) \in Int
  BY <1>2, <1>3, <1>4, MulInt, MulSign
<1>12. Size(z * w) < Size(b * w)
  <2>1. Size(z * w) = Size(z) * w /\ Size(b * w) = Size(b) * w
    BY <1>2, <1>3, <1>4, MulSign
  <2>2. Size(z) \in Int /\ Size(b) \in Int BY <1>2, <1>4 DEF Size
  <2> QED BY <1>3, <1>4, <2>1, <2>2, MulLess
<1>13. SignOf(z * w) \in {0, SignOf(a * w)}
  <2>1. SignOf(z * w) = SignOf(z) /\ SignOf(a * w) = SignOf(a)
    BY <1>2, <1>3, <1>4, MulSign
  <2> QED BY <1>4, <2>1
<1>14. SignOf(b * w) = SignOf(e.value)
  <2>1. e.exp - (u + p) \in Nat /\ e.value \in Int BY DecimalFields
  <2>2. PICK t \in Int : t = Ten[e.exp - (u + p)] /\ t > 0 BY <2>1, TenPositive
  <2>3. SignOf(e.value * t) = SignOf(e.value) BY <2>1, <2>2, MulSign
  <2> QED BY <1>6, <2>2, <2>3 DEF Amount
<1>15. -p \in Int OBVIOUS
<1>16. /\ New(n, -p) \in Decimals /\ New(n, -p).exp = -p /\ New(n, -p).value = n
       /\ New(z, x) \in Decimals /\ New(z, x).exp = x
  BY <1>2, <1>4, <1>15, NewIsDecimal
<1> QED BY <1>2, <1>6, <1>7, <1>8, <1>10, <1>11, <1>12, <1>13, <1>14, <1>16

\* r is as near to x as half a unit, and on a tie away from zero.
NearestAway(r, x, unit) ==
    /\ 2 * Size(r - x) <= unit
    /\ 2 * Size(r - x) = unit => Size(r) > Size(x)

\* The rounding decision of DivRound, on integers: share goes k times into
\* x, c is left.
LEMMA RoundedQuotient ==
  ASSUME NEW x \in Int, NEW k \in Int, NEW c \in Int, NEW share \in Int, share # 0,
         x = k + c, Size(c) < Size(share), SignOf(c) \in {0, SignOf(x)}
  PROVE  /\ 2 * Size(c) < Size(share) => NearestAway(k, x, Size(share))
         /\ /\ 2 * Size(c) >= Size(share)
            /\ SignOf(x) * SignOf(share) < 0
            => NearestAway(k - share, x, Size(share))
         /\ /\ 2 * Size(c) >= Size(share)
            /\ ~(SignOf(x) * SignOf(share) < 0)
            => NearestAway(k + share, x, Size(share))
<1>1. x < 0 \/ x = 0 \/ x > 0 OBVIOUS
<1>2. CASE x = 0 BY <1>2 DEF NearestAway, Size, SignOf
<1>3. CASE x > 0 /\ share > 0 BY <1>3 DEF NearestAway, Size, SignOf
<1>4. CASE x > 0 /\ share < 0 BY <1>4 DEF NearestAway, Size, SignOf
<1>5. CASE x < 0 /\ share > 0 BY <1>5 DEF NearestAway, Size, SignOf
<1>6. CASE x < 0 /\ share < 0 BY <1>6 DEF NearestAway, Size, SignOf
<1> QED BY <1>1, <1>2, <1>3, <1>4, <1>5, <1>6

\* One more or one less in a quotient of the same exponent.
LEMMA OneMore ==
  ASSUME NEW q \in Decimals
  PROVE  /\ Add(q, New(1, q.exp)) = New(q.value + 1, q.exp)
         /\ Sub(q, New(1, q.exp)) = New(q.value - 1, q.exp)
<1>1. q.value \in Int /\ q.exp \in Int BY DecimalFields
<1> DEFINE one == New(1, q.exp)
<1>2. one \in Decimals /\ one.value = 1 /\ one.exp = q.exp BY <1>1, NewIsDecimal
<1>3. Lesser(q.exp, one.exp) = q.exp BY <1>1, <1>2 DEF Lesser
<1>4. rescale(q, q.exp).value = q.value
  BY <1>1, RescaleDown, AmountOwnUnit, NewIsDecimal
<1>5. rescale(one, q.exp).value = 1
  <2>1. Amount(one, q.exp) = 1 BY <1>2, AmountOwnUnit
  <2>2. rescale(one, q.exp) = New(Amount(one, q.exp), q.exp) BY <1>1, <1>2, RescaleDown
  <2> QED BY <2>1, <2>2, <1>1, NewIsDecimal
<1> HIDE DEF one
<1> QED BY <1>3, <1>4, <1>5 DEF Add, Sub, one

(* DivRound: of the multiples of its unit the result is the one nearest to  *)
(* the quotient; a tie goes away from zero, as its comment says.            *)
THEOREM DivRoundIsNearest ==
  ASSUME NEW d \in Decimals, NEW e \in Decimals, e.value # 0,
         NEW p \in Int, NEW u \in Int, u <= d.exp, u <= e.exp - p
  PROVE  LET z == DivRound(d, e, p)
             share == Amount(e, u + p)
         IN  /\ z \in Decimals /\ z.exp = -p
             /\ NearestAway(z.value * share, Amount(d, u), Size(share))
<1> DEFINE q == QuoRem(d, e, p)[1]
           r == QuoRem(d, e, p)[2]
           share == Amount(e, u + p)
           x == Amount(d, u)
           c == Amount(r, u)
           k == q.value * share
           twice == New(2 * Size(r.value), r.exp + p)
<1>1. /\ q \in Decimals /\ q.exp = -p
      /\ r \in Decimals /\ u <= r.exp
      /\ share \in Int /\ share # 0 /\ k \in Int
      /\ x = k + c
      /\ Size(c) < Size(share)
      /\ SignOf(c) \in {0, SignOf(x)}
      /\ SignOf(share) = SignOf(e.value)
  BY QuoRemIsExact
<1>2. DivRound(d, e, p) =
        IF Cmp(twice, Abs(e)) < 0 THEN q
        ELSE IF SignOf(d.value) * SignOf(e.value) < 0 THEN Sub(q, New(1, -p))
        ELSE Add(q, New(1, -p))
  BY DEF DivRound
<1> HIDE DEF q, r
<1>3. x \in Int /\ c \in Int BY <1>1, AmountInt
<1>4. SignOf(x) = SignOf(d.value) BY AbsExact DEF Sign
<1>5. Cmp(twice, Abs(e)) < 0 <=> 2 * Size(c) < Size(share)
  <2>1. r.value \in Int /\ r.exp \in Int /\ e.exp \in Int BY <1>1, DecimalFields
  <2>2. Size(r.value) \in Int /\ 2 * Size(r.value) \in Int BY <2>1 DEF Size
  <2>3. r.exp + p \in Int /\ u + p \in Int /\ u + p <= r.exp + p /\ u + p <= e.exp
    BY <1>1, <2>1
  <2>4. twice \in Decimals /\ twice.exp = r.exp + p BY <2>2, <2>3, NewIsDecimal
  <2>5. Amount(twice, u + p) = (2 * Size(r.value)) * Ten[(r.exp + p) - (u + p)]
    BY <2>2, <2>3, AmountNew
  <2>6. (r.exp + p) - (u + p) = r.exp - u /\ r.exp - u \in Nat BY <1>1, <2>1
  <2>7. PICK w \in Int : w = Ten[r.exp - u] /\ w > 0 BY <2>6, TenPositive
  <2>8. Size(c) = Size(r.value) * w
    <3>1. Size(r.value * w) = Size(r.value) * w BY <2>1, <2>7, MulSign
    <3> QED BY <2>7, <3>1 DEF Amount
  <2>9. Amount(twice, u + p) = 2 * Size(c)
    <3>1. \A a, b \in Int : (2 * a) * b = 2 * (a * b) OBVIOUS
    <3> QED BY <2>2, <2>5, <2>6, <2>7, <2>8, <3>1
  <2>10. Abs(e) \in Decimals /\ Abs(e).exp = e.exp /\ Amount(Abs(e), u + p) = Size(share)
    BY <2>3, AbsExact
  <2> HIDE DEF twice, share, c
  <2>11. Cmp(twice, Abs(e)) = SignOf(2 * Size(c) - Size(share))
    BY <2>3, <2>4, <2>9, <2>10, CmpExact
  <2>12. Size(c) \in Int /\ Size(share) \in Int BY <1>1, <1>3 DEF Size
  <2> QED BY <2>11, <2>12 DEF SignOf
<1>6. q.value \in Int /\ -p \in Int BY <1>1, DecimalFields
<1>7. /\ Add(q, New(1, -p)) = New(q.value + 1, -p)
      /\ Sub(q, New(1, -p)) = New(q.value - 1, -p)
  BY <1>1, OneMore
<1> HIDE DEF share, x, c, twice
<1>8. /\ (q.value + 1) * share = k + share
      /\ (q.value - 1) * share = k - share
  <2>1. 1 * share = share BY <1>1
  <2> QED BY <1>1, <1>6, <2>1, MulDistributes
<1>9. /\ New(q.value + 1, -p) \in Decimals /\ New(q.value + 1, -p).exp = -p
      /\ New(q.value + 1, -p).value = q.value + 1
      /\ New(q.value - 1, -p) \in Decimals /\ New(q.value - 1, -p).exp = -p
      /\ New(q.value - 1, -p).value = q.value - 1
  <2>1. q.value + 1 \in Int /\ q.value - 1 \in Int BY <1>6
  <2> QED BY <1>6, <2>1, NewIsDecimal
<1> HIDE DEF k
<1>10. /\ 2 * Size(c) < Size(share) => NearestAway(k, x, Size(share))
       /\ /\ 2 * Size(c) >= Size(share)
          /\ SignOf(x) * SignOf(share) < 0
          => NearestAway(k - share, x, Size(share))
       /\ /\ 2 * Size(c) >= Size(share)
          /\ ~(SignOf(x) * SignOf(share) < 0)
          => NearestAway(k + share, x, Size(share))
  BY <1>1, <1>3, RoundedQuotient
<1>11. Size(c) \in Int /\ Size(share) \in Int BY <1>1, <1>3 DEF Size
<1>12. CASE 2 * Size(c) < Size(share)
  <2>1. DivRound(d, e, p) = q BY <1>2, <1>5, <1>12
  <2>2. NearestAway(q.value * share, x, Size(share)) BY <1>10, <1>12 DEF k
  <2> QED BY <1>1, <2>1, <2>2 DEF share, x
<1>13. CASE 2 * Size(c) >= Size(share) /\ SignOf(x) * SignOf(share) < 0
  <2>1. DivRound(d, e, p) = New(q.value - 1, -p)
    BY <1>1, <1>2, <1>4, <1>5, <1>7, <1>11, <1>13
  <2>2. NearestAway((q.value - 1) * share, x, Size(share)) BY <1>8, <1>10, <1>13
  <2> QED BY <1>9, <2>1, <2>2 DEF share, x
<1>14. CASE 2 * Size(c) >= Size(share) /\ ~(SignOf(x) * SignOf(share) < 0)
  <2>1. DivRound(d, e, p) = New(q.value + 1, -p)
    BY <1>1, <1>2, <1>4, <1>5, <1>7, <1>11, <1>14
  <2>2. NearestAway((q.value + 1) * share, x, Size(share)) BY <1>8, <1>10, <1>14
  <2> QED BY <1>9, <2>1, <2>2 DEF share, x
<1> QED BY <1>11, <1>12, <1>13, <1>14

----------------------------------------------------------------------------
(* Decimals: rounding.                                                      *)

\* Rescaling, to any exponent: t times the new unit, and what is cut off is
\* smaller than that unit and on the side of the number.
Cuts(d, base, u, t, c) ==
    /\ t \in Int /\ c \in Int
    /\ rescale(d, base) = New(t, base)
    /\ Ten[base - u] \in Int /\ Ten[base - u] > 0
    /\ t * Ten[base - u] \in Int
    /\ Amount(d, u) = t * Ten[base - u] + c
    /\ Size(c) < Ten[base - u]
    /\ SignOf(c) \in {0, SignOf(Amount(d, u))}

LEMMA RescaleCuts ==
  ASSUME NEW d \in Decimals, NEW base \in Int, NEW u \in Int, u <= d.exp, u <= base
  PROVE  \E t, c : Cuts(d, base, u, t, c)
<1>1. d.value \in Int /\ d.exp \in Int /\ base - u \in Nat /\ d.exp - u \in Nat
  BY DecimalFields
<1>2. PICK w \in Int : w = Ten[base - u] /\ w > 0 BY <1>1, TenPositive
<1>3. CASE base <= d.exp
  <2>1. PICK t \in Int : t = Amount(d, base) BY <1>3, AmountInt
  <2>2. rescale(d, base) = New(t, base) BY <1>3, <2>1, RescaleDown
  <2>3. Amount(d, u) = t * w BY <1>2, <1>3, <2>1, AmountSmaller
  <2>4. t * w \in Int BY <2>1, <1>2, MulInt
  <2>5. Amount(d, u) = t * w + 0 BY <2>3, <2>4
  <2>6. Size(0) < w /\ SignOf(0) = 0 BY <1>2 DEF Size, SignOf
  <2>7. Cuts(d, base, u, t, 0) BY <1>2, <2>1, <2>2, <2>4, <2>5, <2>6 DEF Cuts
  <2> QED BY <2>7
<1>4. CASE base > d.exp
  <2>1. base - d.exp \in Nat /\ base - u = (base - d.exp) + (d.exp - u) BY <1>1, <1>4
  <2>2. PICK f \in Int : f = Ten[base - d.exp] /\ f > 0 BY <2>1, TenPositive
  <2>3. PICK v \in Int : v = Ten[d.exp - u] /\ v > 0 BY <1>1, TenPositive
  <2>4. w = f * v BY <1>1, <1>2, <2>1, <2>2, <2>3, TenAdds
  <2>5. PICK a \in Int : a = d.value BY <1>1
  <2>6. PICK t : t = Quo(a, f) OBVIOUS
  <2>7. t \in Int /\ t * f \in Int /\ Size(a - t * f) < Size(f)
        /\ SignOf(a - t * f) \in {0, SignOf(a)}
    BY <2>2, <2>6, QuoFacts
  <2>8. PICK r \in Int : r = a - t * f BY <2>7
  <2>9. a = t * f + r BY <2>7, <2>8
  <2>10. Amount(d, u) = a * v BY <2>3, <2>5 DEF Amount
  <2>11. a * v = t * w + r * v
    <3>1. (t * f + r) * v = (t * f) * v + r * v BY <2>3, <2>7, MulDistributes
    <3>2. (t * f) * v = t * (f * v) BY <2>2, <2>3, <2>7, MulAssociates
    <3> QED BY <2>4, <2>9, <3>1, <3>2
  <2>12. r * v \in Int /\ t * w \in Int BY <1>2, <2>3, <2>7, MulInt
  <2>13. Size(r * v) < w
    <3>1. Size(r * v) = Size(r) * v BY <2>3, MulSign
    <3>2. Size(r) < f /\ Size(r) \in Int BY <2>2, <2>7, <2>8 DEF Size
    <3> QED BY <2>2, <2>3, <2>4, <3>1, <3>2, MulLess
  <2>14. SignOf(r * v) \in {0, SignOf(a * v)}
    <3>1. SignOf(r * v) = SignOf(r) /\ SignOf(a * v) = SignOf(a) BY <2>3, MulSign
    <3> QED BY <2>7, <2>8, <3>1
  <2>15. rescale(d, base) = New(t, base)
    BY <1>4, <2>2, <2>5, <2>6 DEF rescale
  <2>16. Cuts(d, base, u, t, r * v)
    BY <1>2, <2>7, <2>10, <2>11, <2>12, <2>13, <2>14, <2>15 DEF Cuts
  <2> QED BY <2>16
<1> QED BY <1>1, <1>3, <1>4

\* The last digit of t is rounded off: half up, for a negative t half down.
RoundedOff(t) ==
    LET half == IF t < 0 THEN t - 5 ELSE t + 5
        floor == half \div 10
    IN  IF floor < 0 /\ half % 10 # 0 THEN floor + 1 ELSE floor

LEMMA RoundedOffFacts ==
  ASSUME NEW t \in Int
  PROVE  /\ RoundedOff(t) \in Int
         /\ t >= 0 => /\ RoundedOff(t) >= 0
                      /\ 10 * RoundedOff(t) - 5 <= t /\ t <= 10 * RoundedOff(t) + 4
         /\ t < 0 => /\ RoundedOff(t) <= 0
                     /\ 10 * RoundedOff(t) - 4 <= t /\ t <= 10 * RoundedOff(t) + 5
<1> DEFINE half == IF t < 0 THEN t - 5 ELSE t + 5
           floor == half \div 10
           rest == half % 10
<1>1. half \in Int OBVIOUS
<1>2. RoundedOff(t) = IF floor < 0 /\ rest # 0 THEN floor + 1 ELSE floor
  BY DEF RoundedOff
<1>3. /\ t < 0 => half = t - 5
      /\ t >= 0 => half = t + 5
  OBVIOUS
<1> HIDE DEF half
<1>4. floor \in Int /\ 10 * floor <= half /\ half < 10 * floor + 10
      /\ rest = half - 10 * floor
  BY <1>1, DivFacts
<1> HIDE DEF floor, rest
<1> QED BY <1>1, <1>2, <1>3, <1>4

LEMMA TenTimes ==
  ASSUME NEW n \in Nat PROVE Ten[n + 1] = 10 * Ten[n] /\ Ten[n] \in Int /\ Ten[n] > 0
BY TenSteps, TenPositive

\* A number of w that lies between two digits, and what is left of it.
LEMMA DigitNearest ==
  ASSUME NEW t \in Int, NEW z \in Int, NEW c \in Int, NEW w \in Int, NEW x \in Int, w > 0,
         x = t * w + c, Size(c) < w, SignOf(c) \in {0, SignOf(x)},
         t >= 0 => z >= 0 /\ 10 * z - 5 <= t /\ t <= 10 * z + 4,
         t < 0 => z <= 0 /\ 10 * z - 4 <= t /\ t <= 10 * z + 5
  PROVE  NearestAway(z * (10 * w), x, 10 * w)
<1> DEFINE m == t * w
           k == z * w
<1>1. m \in Int /\ k \in Int BY MulInt
<1>2. z * (10 * w) = 10 * k
  <2>1. \A a, b \in Int : a * (10 * b) = 10 * (a * b) OBVIOUS
  <2> QED BY <2>1
<1>3. /\ (10 * z - 5) * w = 10 * k - 5 * w /\ (10 * z + 5) * w = 10 * k + 5 * w
      /\ (10 * z - 4) * w = 10 * k - 4 * w /\ (10 * z + 4) * w = 10 * k + 4 * w
  <2>1. \A a, b \in Int : /\ (10 * a - 5) * b = 10 * (a * b) - 5 * b
                          /\ (10 * a + 5) * b = 10 * (a * b) + 5 * b
                          /\ (10 * a - 4) * b = 10 * (a * b) - 4 * b
                          /\ (10 * a + 4) * b = 10 * (a * b) + 4 * b
    OBVIOUS
  <2> QED BY <2>1
<1>4. x = m + c OBVIOUS
<1>5. CASE t >= 0
  <2>1. 10 * k - 5 * w <= m /\ m <= 10 * k + 4 * w
    <3>1. 10 * z - 5 \in Int /\ 10 * z + 4 \in Int OBVIOUS
    <3>2. (10 * z - 5) * w <= t * w /\ t * w <= (10 * z + 4) * w
      BY <1>5, <3>1, MulLeq
    <3> QED BY <1>3, <3>2
  <2>2. (m = 0 \/ m >= w) /\ (k = 0 \/ k >= w)
    <3>1. t = 0 \/ 1 * w <= t * w BY <1>5, MulLeq
    <3>2. z = 0 \/ 1 * w <= z * w BY <1>5, MulLeq
    <3> QED BY <3>1, <3>2
  <2> HIDE DEF m, k
  <2>3. NearestAway(10 * k, x, 10 * w)
    BY <1>1, <1>4, <2>1, <2>2 DEF NearestAway, Size, SignOf
  <2> QED BY <1>2, <2>3
<1>6. CASE t < 0
  <2>1. 10 * k - 4 * w <= m /\ m <= 10 * k + 5 * w
    <3>1. 10 * z - 4 \in Int /\ 10 * z + 5 \in Int OBVIOUS
    <3>2. (10 * z - 4) * w <= t * w /\ t * w <= (10 * z + 5) * w
      BY <1>6, <3>1, MulLeq
    <3> QED BY <1>3, <3>2
  <2>2. m <= -w /\ k <= 0
    <3>1. t * w <= (-1) * w /\ z * w <= 0 * w BY <1>6, MulLeq
    <3> QED BY <3>1
  <2> HIDE DEF m, k
  <2>3. NearestAway(10 * k, x, 10 * w)
    BY <1>1, <1>4, <2>1, <2>2 DEF NearestAway, Size, SignOf
  <2> QED BY <1>2, <2>3
<1> QED BY <1>5, <1>6

(* Round: of the multiples of its unit the result is the one nearest to the *)
(* number, for places before and after the point; a tie goes away from 0.   *)
THEOREM RoundIsNearest ==
  ASSUME NEW d \in Decimals, NEW n \in Int, NEW u \in Int, u <= d.exp, u <= -n - 1
  PROVE  /\ Round(d, n) \in Decimals /\ Round(d, n).exp = -n
         /\ NearestAway(Amount(Round(d, n), u), Amount(d, u), Ten[-n - u])
<1> DEFINE base == -n - 1
           x == Amount(d, u)
<1>1. base \in Int /\ base - u \in Nat /\ -n \in Int /\ u <= -n OBVIOUS
<1>2. PICK t, c : Cuts(d, base, u, t, c) BY <1>1, RescaleCuts
<1>3. /\ t \in Int /\ c \in Int /\ rescale(d, base) = New(t, base)
      /\ x = t * Ten[base - u] + c
      /\ Size(c) < Ten[base - u]
      /\ SignOf(c) \in {0, SignOf(x)}
  BY <1>2 DEF Cuts
<1>4. Round(d, n) = New(RoundedOff(t), -n)
  <2>1. rescale(d, base).value = t BY <1>1, <1>3, NewIsDecimal
  <2> QED BY <2>1 DEF Round, RoundedOff
<1>5. PICK w \in Int : w = Ten[base - u] /\ w > 0 BY <1>1, TenPositive
<1>6. Ten[-n - u] = 10 * w
  <2>1. -n - u = (base - u) + 1 OBVIOUS
  <2> QED BY <1>1, <1>5, <2>1, TenSteps
<1>7. x \in Int BY AmountInt
<1>8. PICK z \in Int : z = RoundedOff(t) BY <1>3, RoundedOffFacts
<1> HIDE DEF x
<1>9. NearestAway(z * (10 * w), x, 10 * w)
  <2>1. /\ t >= 0 => z >= 0 /\ 10 * z - 5 <= t /\ t <= 10 * z + 4
        /\ t < 0 => z <= 0 /\ 10 * z - 4 <= t /\ t <= 10 * z + 5
    BY <1>3, <1>8, RoundedOffFacts
  <2>2. x = t * w + c /\ Size(c) < w /\ SignOf(c) \in {0, SignOf(x)} BY <1>3, <1>5
  <2>3. t \in Int /\ c \in Int BY <1>3
  <2> HIDE DEF base
  <2> QED BY <1>5, <1>7, <1>8, <2>1, <2>2, <2>3, DigitNearest
<1>10. Amount(Round(d, n), u) = z * (10 * w)
  <2>1. Amount(New(z, -n), u) = z * Ten[-n - u] BY <1>1, AmountNew
  <2> QED BY <1>4, <1>6, <1>8, <2>1
<1> QED BY <1>1, <1>4, <1>6, <1>8, <1>9, <1>10, NewIsDecimal DEF x

\* A tie between two multiples of ten w, rounded away from zero: one step
\* back is as near.
LEMMA StepBack ==
  ASSUME NEW z \in Int, NEW w \in Int, NEW x \in Int, w > 0,
         NearestAway(z * (10 * w), x, 10 * w),
         2 * Size(z * (10 * w) - x) = 10 * w
  PROVE  /\ z < 0 => 2 * Size((z + 1) * (10 * w) - x) <= 10 * w
         /\ z > 0 => 2 * Size((z - 1) * (10 * w) - x) <= 10 * w
         /\ z # 0
<1> DEFINE v == 10 * w
           k == z * v
<1>1. v \in Int /\ v > 0 OBVIOUS
<1>2. k \in Int BY <1>1, MulInt
<1>3. (z + 1) * v = k + v /\ (z - 1) * v = k - v
  <2>1. 1 * v = v BY <1>1
  <2> HIDE DEF v
  <2> QED BY <1>1, <2>1, MulDistributes
<1>4. (z < 0 => k < 0) /\ (z = 0 <=> k = 0)
  <2> HIDE DEF v
  <2> QED BY <1>1, MulSign
<1>5. Size(k) > Size(x) /\ 2 * Size(k - x) = v BY DEF NearestAway
<1> HIDE DEF k, v
<1>6. z > 0 => k > 0 BY <1>1, MulPositive DEF k
<1>7. /\ k < 0 => 2 * Size((k + v) - x) <= v
      /\ k > 0 => 2 * Size((k - v) - x) <= v
      /\ k # 0
  BY <1>1, <1>2, <1>5 DEF Size
<1>8. /\ z < 0 => 2 * Size((z + 1) * v - x) <= v
      /\ z > 0 => 2 * Size((z - 1) * v - x) <= v
      /\ z # 0
  BY <1>3, <1>4, <1>6, <1>7
<1> QED BY <1>8 DEF v

(* RoundBank: a nearest multiple of its unit too, and of the two of a tie   *)
(* the even one, on either side of zero.                                    *)
THEOREM RoundBankIsEven ==
  ASSUME NEW d \in Decimals, NEW n \in Int, NEW u \in Int, u <= d.exp, u <= -n - 1
  PROVE  LET bank == RoundBank(d, n)
             miss == 2 * Size(Amount(bank, u) - Amount(d, u))
         IN  /\ bank \in Decimals /\ bank.exp = -n
             /\ miss <= Ten[-n - u]
             /\ miss = Ten[-n - u] => bank.value % 2 = 0
<1> DEFINE round == Round(d, n)
           x == Amount(d, u)
           five == New(5, -n - 1)
<1>1. /\ round \in Decimals /\ round.exp = -n
      /\ NearestAway(Amount(round, u), x, Ten[-n - u])
  BY RoundIsNearest
<1>2. -n \in Int /\ -n - 1 \in Int /\ u <= -n /\ (-n - 1) - u \in Nat OBVIOUS
<1>3. PICK w \in Int : w = Ten[(-n - 1) - u] /\ w > 0 BY <1>2, TenPositive
<1>4. Ten[-n - u] = 10 * w
  <2>1. -n - u = ((-n - 1) - u) + 1 OBVIOUS
  <2> QED BY <1>2, <1>3, <2>1, TenSteps
<1>5. x \in Int BY AmountInt
<1>6. RoundBank(d, n) =
        IF Cmp(Abs(Sub(d, round)), five) # 0 \/ round.value % 2 = 0 THEN round
        ELSE New(round.value - (IF round.value < 0 THEN -1 ELSE 1), -n)
  BY DEF RoundBank
<1> HIDE DEF round
<1>7. PICK z \in Int : z = round.value BY <1>1, DecimalFields
<1>8. Amount(round, u) = z * (10 * w) BY <1>1, <1>4, <1>7 DEF Amount
<1>9. z * (10 * w) \in Int /\ 10 * w \in Int BY <1>3, <1>7, MulInt
<1>10. Cmp(Abs(Sub(d, round)), five) = 0 <=> 2 * Size(z * (10 * w) - x) = 10 * w
  <2>1. /\ Sub(d, round) \in Decimals /\ u <= Sub(d, round).exp
        /\ Amount(Sub(d, round), u) = x - z * (10 * w)
    BY <1>1, <1>2, <1>8, SubExact
  <2>2. /\ Abs(Sub(d, round)) \in Decimals /\ u <= Abs(Sub(d, round)).exp
        /\ Amount(Abs(Sub(d, round)), u) = Size(x - z * (10 * w))
    BY <2>1, AbsExact
  <2>3. five \in Decimals /\ five.exp = -n - 1 /\ Amount(five, u) = 5 * w
    <3>1. five \in Decimals /\ five.exp = -n - 1 /\ five.value = 5 BY <1>2, NewIsDecimal
    <3> HIDE DEF five
    <3> QED BY <1>3, <3>1 DEF Amount
  <2> HIDE DEF five, x
  <2>4. Cmp(Abs(Sub(d, round)), five) = SignOf(Size(x - z * (10 * w)) - 5 * w)
    BY <1>2, <2>2, <2>3, CmpExact
  <2>5. PICK m \in Int : m = z * (10 * w) BY <1>9
  <2>6. SignOf(Size(x - m) - 5 * w) = 0 <=> 2 * Size(m - x) = 10 * w
    BY <1>3, <1>5, <2>5 DEF Size, SignOf
  <2> QED BY <2>4, <2>5, <2>6
<1> HIDE DEF x, five
<1>11. CASE Cmp(Abs(Sub(d, round)), five) # 0
  <2>1. RoundBank(d, n) = round BY <1>6, <1>11
  <2> QED BY <1>1, <1>4, <1>8, <1>10, <1>11, <2>1 DEF NearestAway, x
<1>12. CASE round.value % 2 = 0
  <2>1. RoundBank(d, n) = round BY <1>6, <1>12
  <2> QED BY <1>1, <1>12, <2>1 DEF NearestAway, x
<1>13. CASE Cmp(Abs(Sub(d, round)), five) = 0 /\ round.value % 2 # 0
  <2>1. /\ z < 0 => 2 * Size((z + 1) * (10 * w) - x) <= 10 * w
        /\ z > 0 => 2 * Size((z - 1) * (10 * w) - x) <= 10 * w
        /\ z # 0
    BY <1>1, <1>3, <1>4, <1>5, <1>7, <1>8, <1>10, <1>13, StepBack
  <2> DEFINE y == IF z < 0 THEN z + 1 ELSE z - 1
  <2>2. y \in Int /\ 2 * Size(y * (10 * w) - x) <= 10 * w BY <1>7, <2>1
  <2>3. y % 2 = 0 BY <1>7, <1>13
  <2>4. RoundBank(d, n) = New(y, -n)
    <3>1. z - (IF z < 0 THEN -1 ELSE 1) = y BY <1>7
    <3> HIDE DEF y
    <3> QED BY <1>6, <1>7, <1>13, <3>1
  <2> HIDE DEF y
  <2>5. Amount(New(y, -n), u) = y * (10 * w) BY <1>2, <1>4, <2>2, AmountNew
  <2> QED BY <1>2, <1>4, <2>2, <2>3, <2>4, <2>5, NewIsDecimal DEF x
<1> QED BY <1>11, <1>12, <1>13

(* Truncate cuts towards zero, by less than a unit, and leaves a decimal    *)
(* that has no more places than asked for; places before the point it       *)
(* leaves alone.                                                            *)
THEOREM TruncateCutsTowardsZero ==
  ASSUME NEW d \in Decimals, NEW n \in Int, NEW u \in Int, u <= d.exp, u <= -n
  PROVE  LET cut == Truncate(d, n)
         IN  /\ cut \in Decimals /\ u <= cut.exp
             /\ n < 0 => cut = d
             /\ n >= 0 => /\ -n <= cut.exp
                          /\ Size(Amount(cut, u)) <= Size(Amount(d, u))
                          /\ Size(Amount(d, u)) < Size(Amount(cut, u)) + Ten[-n - u]
                          /\ SignOf(Amount(cut, u)) \in {0, SignOf(Amount(d, u))}
<1>1. -n \in Int /\ -n - u \in Nat /\ d.exp \in Int BY DecimalFields
<1>2. PICK w \in Int : w = Ten[-n - u] /\ w > 0 BY <1>1, TenPositive
<1>3. PICK x \in Int : x = Amount(d, u) BY AmountInt
<1>4. CASE ~(n >= 0 /\ -n > d.exp)
  <2>1. Truncate(d, n) = d BY <1>4 DEF Truncate
  <2>2. Size(x) < Size(x) + w BY <1>2, <1>3 DEF Size
  <2>3. Size(x) <= Size(x) BY <1>3 DEF Size
  <2> QED BY <1>1, <1>2, <1>3, <1>4, <2>1, <2>2, <2>3
<1>5. CASE n >= 0 /\ -n > d.exp
  <2>1. PICK t, c : Cuts(d, -n, u, t, c) BY <1>1, RescaleCuts
  <2>2. Truncate(d, n) = New(t, -n) BY <1>5, <2>1 DEF Truncate, Cuts
  <2>3. t \in Int /\ c \in Int /\ t * w \in Int
        /\ x = t * w + c /\ Size(c) < w /\ SignOf(c) \in {0, SignOf(x)}
    BY <1>2, <1>3, <2>1 DEF Cuts
  <2>4. Amount(New(t, -n), u) = t * w BY <1>1, <1>2, <2>3, AmountNew
  <2>5. (t >= 0 => t * w >= 0) /\ (t > 0 => t * w >= w) /\ (t < 0 => t * w <= -w)
    <3>1. t >= 0 => 0 * w <= t * w BY <1>2, <2>3, MulLeq
    <3>2. t > 0 => 1 * w <= t * w BY <1>2, <2>3, MulLeq
    <3>3. t < 0 => t * w <= (-1) * w BY <1>2, <2>3, MulLeq
    <3> QED BY <1>2, <3>1, <3>2, <3>3
  <2>6. PICK m \in Int : m = t * w BY <2>3
  <2>7. t = 0 => m = 0 BY <1>2, <2>6
  <2>8. /\ Size(m) <= Size(x) /\ Size(x) < Size(m) + w
        /\ SignOf(m) \in {0, SignOf(x)}
    BY <1>2, <1>3, <2>3, <2>5, <2>6, <2>7 DEF Size, SignOf
  <2> QED BY <1>1, <1>2, <1>3, <1>5, <2>2, <2>3, <2>4, <2>6, <2>8, NewIsDecimal
<1> QED BY <1>4, <1>5

(* Floor and Ceil are the integers next to the number, below and above it,  *)
(* for negative numbers too.                                                *)
THEOREM FloorAndCeilEnclose ==
  ASSUME NEW d \in Decimals, NEW u \in Int, u <= d.exp, u <= 0
  PROVE  /\ Floor(d) \in Decimals /\ Floor(d).exp >= 0
         /\ Amount(Floor(d), u) <= Amount(d, u) /\ Amount(d, u) < Amount(Floor(d), u) + Ten[-u]
         /\ Ceil(d) \in Decimals /\ Ceil(d).exp >= 0
         /\ Amount(Ceil(d), u) - Ten[-u] < Amount(d, u) /\ Amount(d, u) <= Amount(Ceil(d), u)
<1>1. d.value \in Int /\ d.exp \in Int /\ d.exp - u \in Nat /\ -u \in Nat /\ 0 - u = -u
  BY DecimalFields
<1>2. PICK v \in Int : v = Ten[-u] /\ v > 0 BY <1>1, TenPositive
<1>3. PICK x \in Int : x = Amount(d, u) BY AmountInt
<1>4. CASE d.exp >= 0
  <2>1. Floor(d) = d /\ Ceil(d) = d BY <1>4 DEF Floor, Ceil
  <2>2. x <= x /\ x < x + v /\ x - v < x BY <1>2, <1>3
  <2> QED BY <1>2, <1>3, <1>4, <2>1, <2>2
<1>5. CASE d.exp < 0
  <2>1. -d.exp \in Nat /\ -u = (-d.exp) + (d.exp - u) BY <1>1, <1>5
  <2>2. PICK f \in Int : f = Ten[-d.exp] /\ f > 0 BY <2>1, TenPositive
  <2>3. PICK w \in Int : w = Ten[d.exp - u] /\ w > 0 BY <1>1, TenPositive
  <2>4. v = f * w BY <1>1, <1>2, <2>1, <2>2, <2>3, TenAdds
  <2>5. PICK a \in Int : a = d.value BY <1>1
  <2>6. x = a * w BY <1>3, <2>3, <2>5 DEF Amount
  <2>7. PICK q, r : q = a \div f /\ r = a % f OBVIOUS
  <2>8. q \in Int /\ f * q <= a /\ a < f * q + f /\ r = a - f * q
    BY <2>2, <2>5, <2>7, DivFacts
  <2>9. PICK m \in Int : m = f * q BY <2>2, <2>8, MulInt
  <2>10. q * v = m * w
    <3>1. \A i, j, k \in Int : i * (j * k) = (j * i) * k OBVIOUS
    <3> QED BY <2>2, <2>3, <2>4, <2>8, <2>9, <3>1
  <2>11. (q + 1) * v = (m + f) * w
    <3>1. (q + 1) * v = q * v + 1 * v BY <1>2, <2>8, MulDistributes
    <3>2. (m + f) * w = m * w + f * w BY <2>2, <2>3, <2>9, MulDistributes
    <3> QED BY <1>2, <2>4, <2>10, <3>1, <3>2
  <2>12. Floor(d) = New(q, 0)
         /\ Ceil(d) = New(q + (IF r # 0 THEN 1 ELSE 0), 0)
    BY <1>1, <1>5, <2>2, <2>5, <2>7 DEF Floor, Ceil
  <2>13. Amount(New(q, 0), u) = q * v BY <1>1, <1>2, <2>8, AmountNew
  <2>14. Amount(New(q + 1, 0), u) = (q + 1) * v
    <3>1. PICK y \in Int : y = q + 1 BY <2>8
    <3>2. Amount(New(y, 0), u) = y * v BY <1>1, <1>2, AmountNew
    <3> QED BY <3>1, <3>2
  <2>15. q * v \in Int /\ (q + 1) * v = q * v + v
    <3>1. (q + 1) * v = q * v + 1 * v BY <1>2, <2>8, MulDistributes
    <3> QED BY <1>2, <2>8, <3>1, MulInt
  <2>16. q * v <= x /\ x < q * v + v
    <3>1. m * w <= a * w BY <2>3, <2>5, <2>8, <2>9, MulLeq
    <3>2. a * w < (m + f) * w
      <4>1. m + f \in Int /\ a < m + f BY <2>2, <2>5, <2>8, <2>9
      <4> QED BY <2>3, <2>5, <4>1, MulLess
    <3> QED BY <2>6, <2>10, <2>11, <2>15, <3>1, <3>2
  <2>17. /\ Amount(Floor(d), u) = q * v /\ Floor(d) \in Decimals /\ Floor(d).exp = 0
    BY <2>8, <2>12, <2>13, NewIsDecimal
  <2>18. CASE r = 0
    <3>1. Ceil(d) = New(q, 0) BY <2>8, <2>12, <2>18
    <3>2. x = q * v BY <2>2, <2>6, <2>8, <2>9, <2>10, <2>18, <2>5
    <3> QED BY <1>2, <1>3, <2>8, <2>13, <2>15, <2>16, <2>17, <3>1, <3>2, NewIsDecimal
  <2>19. CASE r # 0
    <3>1. Ceil(d) = New(q + 1, 0) BY <2>12, <2>19
    <3>2. q + 1 \in Int BY <2>8
    <3>3. x > q * v
      <4>1. m < a BY <2>2, <2>5, <2>8, <2>9, <2>19
      <4>2. m * w < a * w BY <2>3, <2>5, <2>9, <4>1, MulLess
      <4> QED BY <2>6, <2>10, <4>2
    <3> QED BY <1>2, <1>3, <2>14, <2>15, <2>16, <2>17, <3>1, <3>2, <3>3, NewIsDecimal
  <2> QED BY <2>18, <2>19
<1> QED BY <1>1, <1>4, <1>5

----------------------------------------------------------------------------
(* Ids: bytes.                                                              *)

LEMMA ByteParts ==
  ASSUME NEW byte \in Bytes, NEW m \in {16, 64}
  PROVE  byte % m \in 0..(m - 1)
BY DEF Bytes

\* A stamp in the high bits, over a remainder of the low ones.
LEMMA StampParts ==
  ASSUME NEW r \in 0..15, NEW v \in 3..5, NEW s \in 0..63
  PROVE  /\ r + ((v * 16) % 256) = r + v * 16
         /\ (r + v * 16) \div 16 = v /\ (r + v * 16) % 16 = r
         /\ (s + 128) % 64 = s
OBVIOUS

\* SetVersion and SetVariant are read by Version and Variant, whatever the byte was.
LEMMA StampsRead == StampsAreRead
<1> SUFFICES ASSUME NEW byte \in Bytes, NEW v \in 3..5,
                    NEW u, u = Stamped([i \in 1..16 |-> byte], v)
             PROVE  /\ Version(u[7]) = v /\ u[7] % 16 = byte % 16
                    /\ Variant(u[9]) = VariantRFC4122 /\ u[9] % 64 = byte % 64
  BY DEF StampsAreRead
<1>1. u[7] = SetVersion(byte, v) /\ u[9] = SetVariant(byte) BY DEF Stamped
<1>2. PICK r \in 0..15 : r = byte % 16 BY ByteParts
<1>3. PICK s \in 0..63 : s = byte % 64 BY ByteParts
<1>4. u[7] = r + v * 16 BY <1>1, <1>2, StampParts DEF SetVersion
<1>5. Version(u[7]) = v /\ u[7] % 16 = r BY <1>4, StampParts DEF Version
<1>6. u[9] = s + 128 BY <1>1, <1>3 DEF SetVariant
<1>7. Variant(u[9]) = VariantRFC4122 BY <1>6 DEF Variant
<1>8. u[9] % 64 = s BY <1>6, StampParts
<1> QED BY <1>2, <1>3, <1>5, <1>7, <1>8

----------------------------------------------------------------------------
(* Ids: channels.                                                           *)

LEMMA JoinOfOnes == ASSUME NEW p, NEW q PROVE <<p>> \o <<q>> = <<p, q>>
<1> DEFINE S == {p, q}
           s == <<p>>
           t == <<q>>
           w == <<p, q>>
<1>1. /\ s \in Seq(S) /\ Len(s) = 1 /\ s[1] = p
      /\ t \in Seq(S) /\ Len(t) = 1 /\ t[1] = q
      /\ w \in Seq(S) /\ Len(w) = 2 /\ w[1] = p /\ w[2] = q
  OBVIOUS
<1> HIDE DEF S, s, t, w
<1>2. /\ s \o t \in Seq(S) /\ Len(s \o t) = 1 + 1
      /\ \A i \in 1..2 : (s \o t)[i] = IF i <= 1 THEN s[i] ELSE t[i - 1]
  BY <1>1, ConcatProperties
<1>3. (s \o t)[1] = w[1] /\ (s \o t)[2] = w[2] BY <1>1, <1>2
<1>4. \A i \in 1..2 : i = 1 \/ i = 2 OBVIOUS
<1>5. s \o t = w BY <1>1, <1>2, <1>3, <1>4, SeqEqual
<1> QED BY <1>5 DEF s, t, w

\* Sequences of one part each are joined, and taken apart again.
LEMMA PairParts ==
  ASSUME NEW S, NEW a \in Seq(S), NEW b \in Seq(S), Len(a) = 1, Len(b) = 1
  PROVE  /\ a = <<a[1]>> /\ b = <<b[1]>>
         /\ Len(a \o b) = 2 /\ (a \o b)[1] = a[1] /\ (a \o b)[2] = b[1]
<1>1. a = <<a[1]>> /\ b = <<b[1]>> OBVIOUS
<1>2. PICK p, q : a = <<p>> /\ b = <<q>> BY <1>1
<1> QED BY <1>1, <1>2, JoinOfOnes

\* A join of two uids has two parts only if each of them has one.
LEMMA JoinOfTwo ==
  ASSUME NEW S, NEW u \in Seq(S), NEW v \in Seq(S), NEW a \in Seq(S), NEW b \in Seq(S),
         u # <<>>, v # <<>>, Len(a) = 1, Len(b) = 1, u \o v = a \o b
  PROVE  u = a /\ v = b
<1>1. Len(u) # 0 /\ Len(v) # 0 /\ Len(u) \in Nat /\ Len(v) \in Nat BY EmptySeq
<1>2. Len(u \o v) = Len(u) + Len(v) /\ Len(a \o b) = 2 OBVIOUS
<1>3. Len(u) = 1 /\ Len(v) = 1 BY <1>1, <1>2
<1> QED BY <1>3, PairParts

LEMMA UidsAreSeqs ==
  ASSUME NEW u \in UidParts
  PROVE  /\ u \in Seq(Range(u)) /\ u # <<>> /\ Hash(u) \in Nat
         /\ u \in Seq(UNION {Range(w) : w \in UidParts})
<1>1. u \in Seq(Range(u)) /\ u # <<>> /\ Hash(u) \in Nat BY IdAssumption DEF IdAssumption
<1>2. Range(u) \subseteq UNION {Range(w) : w \in UidParts} OBVIOUS
<1> HIDE DEF Range
<1> QED BY <1>1, <1>2

\* GetFakeChannelIDWith and its reader, common/msg.go, and the customer service channels.
LEMMA PairsShare == PairsShareOneChannel
<1> DEFINE S == UNION {Range(w) : w \in UidParts}
<1> SUFFICES ASSUME NEW a \in Plain, NEW b \in Plain, Hash(a) # Hash(b),
                    NEW c, c = GetFakeChannelIDWith(a, b)
             PROVE  /\ c = GetFakeChannelIDWith(b, a) /\ IsFakeChannel(c)
                    /\ GetToChannelIDWithFakeChannelID(c, a) = b
                    /\ GetToChannelIDWithFakeChannelID(c, b) = a
                    /\ \A u, v \in UidParts : GetFakeChannelIDWith(u, v) = c => {u, v} = {a, b}
                    /\ GetCustomerServiceVisitorUID(ComposeCustomerServiceChannelID(a, b)) = a
                    /\ GetCustomerServiceChannelID(ComposeCustomerServiceChannelID(a, b)) = b
  BY DEF PairsShareOneChannel
<1>1. /\ a \in UidParts /\ a \in Seq(S) /\ Len(a) = 1 /\ Hash(a) \in Nat
      /\ b \in UidParts /\ b \in Seq(S) /\ Len(b) = 1 /\ Hash(b) \in Nat
  BY UidsAreSeqs DEF Plain
<1> HIDE DEF S
<1>2. a # b OBVIOUS
<1>3. PICK x, y : c = x \o y /\ ((x = a /\ y = b) \/ (x = b /\ y = a))
  <2>1. c = a \o b \/ c = b \o a BY DEF GetFakeChannelIDWith
  <2> QED BY <2>1
<1>4. x \in Seq(S) /\ y \in Seq(S) /\ Len(x) = 1 /\ Len(y) = 1 BY <1>1, <1>3
<1>5. x = <<x[1]>> /\ y = <<y[1]>> /\ Len(c) = 2 /\ c[1] = x[1] /\ c[2] = y[1]
  BY <1>3, <1>4, PairParts
<1>6. c = GetFakeChannelIDWith(b, a) BY <1>1 DEF GetFakeChannelIDWith
<1>7. IsFakeChannel(c) BY <1>5 DEF IsFakeChannel
<1>8. /\ GetToChannelIDWithFakeChannelID(c, x) = y
      /\ GetToChannelIDWithFakeChannelID(c, y) = x
  BY <1>2, <1>3, <1>5 DEF GetToChannelIDWithFakeChannelID
<1>9. ASSUME NEW u \in UidParts, NEW v \in UidParts, GetFakeChannelIDWith(u, v) = c
      PROVE  {u, v} = {a, b}
  <2>1. u \in Seq(S) /\ v \in Seq(S) /\ u # <<>> /\ v # <<>> BY UidsAreSeqs DEF S
  <2>2. u \o v = x \o y \/ v \o u = x \o y BY <1>3, <1>9 DEF GetFakeChannelIDWith
  <2>3. (u = x /\ v = y) \/ (v = x /\ u = y) BY <1>4, <2>1, <2>2, JoinOfTwo
  <2> QED BY <1>3, <2>3
<1>10. Len(a \o b) = 2 /\ <<(a \o b)[1]>> = a /\ <<(a \o b)[2]>> = b BY <1>1, PairParts
<1>11. /\ GetCustomerServiceVisitorUID(ComposeCustomerServiceChannelID(a, b)) = a
       /\ GetCustomerServiceChannelID(ComposeCustomerServiceChannelID(a, b)) = b
  BY <1>10 DEF GetCustomerServiceVisitorUID, GetCustomerServiceChannelID,
               ComposeCustomerServiceChannelID
<1> QED BY <1>3, <1>6, <1>7, <1>8, <1>9, <1>11

----------------------------------------------------------------------------
(* Ids: base 62.                                                            *)

\* The first values of Ten2Hex.
Hex62(g, n) ==
    g = [i \in 0..n |-> IF i >= 62 THEN g[i \div 62] \o tenValue2Char(i % 62)
                        ELSE IF i # 0 THEN tenValue2Char(i) ELSE <<>>]

LEMMA HalvesShrink ==
  ASSUME NEW i \in Nat, i >= 62 PROVE i \div 62 \in Nat /\ i \div 62 < i
OBVIOUS

LEMMA Hex62Exists == ASSUME NEW n \in Nat PROVE \E g : Hex62(g, n)
<1> DEFINE S == {m \in Nat : \E g : Hex62(g, m)}
<1>1. 0 \in S
  <2>1. Hex62([i \in 0..0 |-> <<>>], 0) BY DEF Hex62
  <2> QED BY <2>1
<1>2. ASSUME NEW m \in S PROVE m + 1 \in S
  <2>1. m \in Nat OBVIOUS
  <2>2. PICK g : Hex62(g, m) OBVIOUS
  <2> DEFINE step(f, i) == IF i >= 62 THEN f[i \div 62] \o tenValue2Char(i % 62)
                           ELSE IF i # 0 THEN tenValue2Char(i) ELSE <<>>
             h == [i \in 0..(m + 1) |-> step(g, i)]
  <2>3. g = [i \in 0..m |-> step(g, i)] BY <2>2 DEF Hex62
  <2> HIDE DEF step
  <2>4. ASSUME NEW i \in 0..m PROVE h[i] = g[i]
    <3>1. i \in 0..(m + 1) BY <2>1
    <3>2. h[i] = step(g, i) BY <3>1
    <3>3. g[i] = step(g, i) BY <2>3
    <3> QED BY <3>2, <3>3
  <2> HIDE DEF h
  <2>5. ASSUME NEW i \in 0..(m + 1) PROVE step(h, i) = step(g, i)
    <3>1. CASE i >= 62
      <4>1. i \div 62 \in 0..m BY <2>1, <3>1, HalvesShrink
      <4>2. h[i \div 62] = g[i \div 62] BY <2>4, <4>1
      <4> QED BY <3>1, <4>2 DEF step
    <3>2. CASE ~(i >= 62) BY <3>2 DEF step
    <3> QED BY <3>1, <3>2
  <2>6. h = [i \in 0..(m + 1) |-> step(h, i)] BY <2>5 DEF h
  <2>7. Hex62(h, m + 1) BY <2>6 DEF Hex62, step
  <2> QED BY <2>1, <2>7
<1> HIDE DEF S
<1>3. S \in SUBSET Nat BY DEF S
<1>4. S = Nat BY <1>1, <1>2, <1>3, NatSetInduction
<1> QED BY <1>4 DEF S

LEMMA Hex62Values ==
  ASSUME NEW n \in Nat, NEW g, Hex62(g, n), NEW i \in 0..n
  PROVE  g[i] = IF i >= 62 THEN g[i \div 62] \o tenValue2Char(i % 62)
                ELSE IF i # 0 THEN tenValue2Char(i) ELSE <<>>
BY DEF Hex62

LEMMA Hex62Agrees ==
  ASSUME NEW n \in Nat, NEW m \in Nat, NEW g, NEW h, Hex62(g, n), Hex62(h, m),
         NEW i \in Nat, i <= n, i <= m
  PROVE  g[i] = h[i]
<1> DEFINE S == {k \in Nat : \A j \in 0..k : j <= n /\ j <= m => g[j] = h[j]}
<1>1. 0 \in S
  <2>1. g[0] = <<>> /\ h[0] = <<>> BY Hex62Values
  <2> QED BY <2>1
<1>2. ASSUME NEW k \in S PROVE k + 1 \in S
  <2>1. k \in Nat OBVIOUS
  <2> SUFFICES ASSUME NEW j \in 0..(k + 1), j <= n, j <= m PROVE g[j] = h[j]
    BY <2>1
  <2>2. j \in 0..n /\ j \in 0..m OBVIOUS
  <2>3. CASE j >= 62
    <3>1. j \div 62 \in 0..k /\ j \div 62 <= n /\ j \div 62 <= m
      BY <2>1, <2>3, HalvesShrink
    <3>2. g[j \div 62] = h[j \div 62] BY <3>1
    <3>3. /\ g[j] = g[j \div 62] \o tenValue2Char(j % 62)
          /\ h[j] = h[j \div 62] \o tenValue2Char(j % 62)
      BY <2>2, <2>3, Hex62Values
    <3> QED BY <3>2, <3>3
  <2>4. CASE ~(j >= 62) BY <2>2, <2>4, Hex62Values
  <2> QED BY <2>3, <2>4
<1> HIDE DEF S
<1>3. S \in SUBSET Nat BY DEF S
<1>4. S = Nat BY <1>1, <1>2, <1>3, NatSetInduction
<1>5. i \in 0..i OBVIOUS
<1> QED BY <1>4, <1>5 DEF S

\* So that the recursion of Ten2Hex defines it.
LEMMA Ten2HexIs ==
  ASSUME NEW n \in Nat
  PROVE  Ten2Hex[n] = IF n >= 62 THEN Ten2Hex[n \div 62] \o tenValue2Char(n % 62)
                      ELSE IF n # 0 THEN tenValue2Char(n) ELSE <<>>
<1> DEFINE G(m) == CHOOSE g : Hex62(g, m)
           p == [m \in Nat |-> G(m)[m]]
           step(f, m) == IF m >= 62 THEN f[m \div 62] \o tenValue2Char(m % 62)
                         ELSE IF m # 0 THEN tenValue2Char(m) ELSE <<>>
<1>1. \A m \in Nat : Hex62(G(m), m) BY Hex62Exists
<1> HIDE DEF G
<1>2. ASSUME NEW m \in Nat PROVE p[m] = step(p, m)
  <2>1. m \in 0..m OBVIOUS
  <2>2. p[m] = step(G(m), m) BY <1>1, <2>1, Hex62Values
  <2>3. CASE m >= 62
    <3>1. m \div 62 \in Nat /\ m \div 62 <= m BY <2>3, HalvesShrink
    <3>2. p[m \div 62] = G(m \div 62)[m \div 62] BY <3>1
    <3>3. G(m \div 62)[m \div 62] = G(m)[m \div 62] BY <1>1, <3>1, Hex62Agrees
    <3> QED BY <2>2, <2>3, <3>2, <3>3
  <2>4. CASE ~(m >= 62) BY <2>2, <2>4
  <2> QED BY <2>3, <2>4
<1>3. p = [m \in Nat |-> step(p, m)] BY <1>2
<1> HIDE DEF p
<1>4. \E f : f = [m \in Nat |-> step(f, m)] BY <1>3
<1>5. Ten2Hex = [m \in Nat |-> step(Ten2Hex, m)] BY <1>4 DEF Ten2Hex
<1> QED BY <1>5

\* The two-digit numbers whose digits Ten2Hex writes, base62.go.
LEMMA Base62Kept == Base62IsKept
<1> SUFFICES ASSUME NEW n \in Written
             PROVE  Len(Ten2Hex[n]) = 2 /\ 62 * Ten2Hex[n][1] + Ten2Hex[n][2] = n
  BY DEF Base62IsKept
<1>1. n \in Nat /\ n >= 62 * 9 /\ n < 62 * 62 BY DEF Written
<1>2. PICK q \in Int, r \in 0..61 : q = n \div 62 /\ r = n % 62 BY <1>1
<1>3. n = 62 * q + r BY <1>1, <1>2
<1>4. q \in 9..61 /\ q % 62 = q BY <1>1, <1>2, <1>3
<1>5. /\ q \notin 0..8 /\ q # 33 /\ q # 59
      /\ r \notin 0..8 /\ r # 33 /\ r # 59
  BY <1>2, <1>4 DEF Written, Digits62
<1>6. tenValue2Char(q) = <<q>> /\ tenValue2Char(r) = <<r>> BY <1>5 DEF tenValue2Char
<1>7. q \in Nat /\ q # 0 /\ ~(q >= 62) BY <1>4
<1>8. Ten2Hex[q] = <<q>> BY <1>6, <1>7, Ten2HexIs
<1>9. n >= 62 BY <1>1
<1>10. Ten2Hex[n] = <<q>> \o <<r>>
  <2>1. Ten2Hex[n] = Ten2Hex[n \div 62] \o tenValue2Char(n % 62) BY <1>1, <1>9, Ten2HexIs
  <2>2. n \div 62 = q /\ n % 62 = r BY <1>2, Zenon
  <2> QED BY <1>6, <1>8, <2>1, <2>2
<1>11. Ten2Hex[n] = <<q, r>> BY <1>10, JoinOfOnes
<1> QED BY <1>3, <1>11

----------------------------------------------------------------------------
(* Ids: texts of UUIDs.                                                     *)

UUIDs == [1..32 -> HexDigits]
Chars == HexDigits \cup {"-", OpenBrace, CloseBrace, "urn", "g"}
AnyChars == Chars \cup {"A"}

\* Of the letters that texts have only "A" has a small form.
LEMMA LowerIs ==
    /\ \A c \in Chars : Lower(c) = c
    /\ Lower("A") = "a" /\ "a" \in HexDigits
    /\ \A c \in AnyChars, d \in {OpenBrace, CloseBrace, "urn"} : Lower(c) = d <=> c = d
<1>1. \A c \in HexDigits \cup {"-", "urn", "g"} : Lower(c) = c BY DEF Lower, HexDigits
<1>2. Lower(OpenBrace) = OpenBrace BY DEF Lower, OpenBrace
<1>3. Lower(CloseBrace) = CloseBrace BY DEF Lower, CloseBrace
<1>4. Lower("A") = "a" /\ "a" \in HexDigits BY DEF Lower, HexDigits
<1>5. \A c \in Chars : Lower(c) = c BY <1>1, <1>2, <1>3 DEF Chars
<1>6. /\ "a" # "urn" /\ "A" # "urn"
      /\ OpenBrace \notin {"a", "A"} /\ CloseBrace \notin {"a", "A"}
  <2>1. OpenBrace \notin {"a", "A"} BY DEF OpenBrace
  <2>2. CloseBrace \notin {"a", "A"} BY DEF CloseBrace
  <2> QED BY <2>1, <2>2
<1>7. \A c \in AnyChars, d \in {OpenBrace, CloseBrace, "urn"} : Lower(c) = d <=> c = d
  BY <1>4, <1>5, <1>6 DEF AnyChars
<1> QED BY <1>4, <1>5, <1>7

LEMMA LoweredIs ==
    /\ \A t \in Seq(Chars) : Lowered(t) = t
    /\ \A t \in Seq(AnyChars) :
         /\ Lowered(t) \in Seq(Chars) /\ Len(Lowered(t)) = Len(t)
         /\ Lowered(t) = <<>> <=> t = <<>>
         /\ t # <<>> =>
              \A d \in {OpenBrace, CloseBrace, "urn"} :
                /\ Lowered(t)[1] = d <=> t[1] = d
                /\ Last(Lowered(t)) = d <=> Last(t) = d
<1>1. ASSUME NEW t \in Seq(Chars) PROVE Lowered(t) = t
  <2>1. /\ Len(t) \in Nat /\ DOMAIN t = 1..Len(t) /\ t = [i \in DOMAIN t |-> t[i]]
        /\ \A i \in DOMAIN t : t[i] \in Chars
    OBVIOUS
  <2> QED BY <2>1, LowerIs DEF Lowered
<1>2. \A c \in AnyChars : Lower(c) \in Chars BY LowerIs DEF AnyChars, Chars
<1>3. ASSUME NEW t \in Seq(AnyChars)
      PROVE  /\ Lowered(t) \in Seq(Chars) /\ Len(Lowered(t)) = Len(t)
             /\ Lowered(t) = <<>> <=> t = <<>>
             /\ t # <<>> =>
                  \A d \in {OpenBrace, CloseBrace, "urn"} :
                    /\ Lowered(t)[1] = d <=> t[1] = d
                    /\ Last(Lowered(t)) = d <=> Last(t) = d
  <2>1. /\ Len(t) \in Nat /\ DOMAIN t = 1..Len(t)
        /\ \A i \in 1..Len(t) : t[i] \in AnyChars
    OBVIOUS
  <2> DEFINE n == Len(t)
  <2> HIDE DEF n
  <2>2. n \in Nat /\ DOMAIN t = 1..n /\ \A i \in 1..n : t[i] \in AnyChars BY <2>1 DEF n
  <2>3. Lowered(t) \in [1..n -> Chars] /\ \A i \in 1..n : Lowered(t)[i] = Lower(t[i])
    BY <1>2, <2>2 DEF Lowered
  <2>4. Lowered(t) \in Seq(Chars) /\ Len(Lowered(t)) = n
    <3> DEFINE l == Lowered(t)
    <3> HIDE DEF l
    <3>1. l \in [1..n -> Chars] BY <2>3 DEF l
    <3>2. l \in Seq(Chars) /\ Len(l) = n BY <2>2, <3>1
    <3> QED BY <3>2 DEF l
  <2>5. (Lowered(t) = <<>> <=> n = 0) /\ (t = <<>> <=> n = 0)
    <3>1. t = <<>> <=> n = 0 BY EmptySeq DEF n
    <3>2. Lowered(t) = <<>> <=> n = 0 BY <2>4, EmptySeq
    <3> QED BY <3>1, <3>2
  <2>6. ASSUME t # <<>>, NEW d \in {OpenBrace, CloseBrace, "urn"}
        PROVE  /\ Lowered(t)[1] = d <=> t[1] = d
               /\ Last(Lowered(t)) = d <=> Last(t) = d
    <3>1. 1 \in 1..n /\ n \in 1..n BY <2>2, <2>5, <2>6
    <3>2. Last(Lowered(t)) = Lowered(t)[n] /\ Last(t) = t[n] BY <2>4 DEF Last, n
    <3>3. Lowered(t)[1] = Lower(t[1]) /\ Lowered(t)[n] = Lower(t[n]) BY <2>3, <3>1
    <3>4. t[1] \in AnyChars /\ t[n] \in AnyChars BY <2>2, <3>1
    <3>5. (Lower(t[1]) = d <=> t[1] = d) /\ (Lower(t[n]) = d <=> t[n] = d) BY <3>4, LowerIs
    <3> QED BY <3>2, <3>3, <3>5
  <2> QED BY <2>4, <2>5, <2>6 DEF n
<1> QED BY <1>1, <1>3

LEMMA GroupBounds ==
    /\ TextStart[1] = 1 /\ TextStart[2] = 10 /\ TextStart[3] = 15 /\ TextStart[4] = 20 /\ TextStart[5] = 25
    /\ Groups[1] = 8 /\ Groups[2] = 4 /\ Groups[3] = 4 /\ Groups[4] = 4 /\ Groups[5] = 12
BY DEF TextStart, Groups

LEMMA DashesInText == \A p \in Dashes : p \in 1..36
BY DEF Dashes

LEMMA PlaceOfDigit ==
    /\ \A k \in 1..32 : Place(k) \in (1..36) \ Dashes /\ DigitAt(Place(k)) = k
    /\ \A p \in (1..36) \ Dashes : DigitAt(p) \in 1..32 /\ Place(DigitAt(p)) = p
<1>1. ASSUME NEW k \in 1..32
      PROVE  Place(k) \in (1..36) \ Dashes /\ DigitAt(Place(k)) = k
  BY DEF Place, DigitAt, Dashes
<1>2. ASSUME NEW p \in (1..36) \ Dashes
      PROVE  DigitAt(p) \in 1..32 /\ Place(DigitAt(p)) = p
  BY DEF Place, DigitAt, Dashes
<1> QED BY <1>1, <1>2

LEMMA Letters ==
    /\ "-" \notin HexDigits /\ OpenBrace \notin HexDigits /\ CloseBrace \notin HexDigits /\ "urn" \notin HexDigits
    /\ OpenBrace # "urn" /\ OpenBrace # CloseBrace /\ CloseBrace # "-" /\ CloseBrace # "urn" /\ OpenBrace # "-"
    /\ Panics # Refused /\ Panics # "read" /\ Refused # "read"
BY DEF HexDigits, OpenBrace, CloseBrace, Panics, Refused

LEMMA TextOfType ==
  ASSUME NEW u \in UUIDs
  PROVE  /\ TextOf(u) \in Seq(Chars) /\ Len(TextOf(u)) = 36
         /\ \A p \in Dashes : TextOf(u)[p] = "-"
         /\ \A p \in (1..36) \ Dashes : TextOf(u)[p] = u[DigitAt(p)] /\ TextOf(u)[p] \in HexDigits
<1>2. \A p \in Dashes : TextOf(u)[p] = "-" BY DashesInText DEF TextOf
<1>3. \A p \in (1..36) \ Dashes : TextOf(u)[p] = u[DigitAt(p)] BY DEF TextOf
<1>4. \A p \in (1..36) \ Dashes : u[DigitAt(p)] \in HexDigits BY PlaceOfDigit DEF UUIDs
<1>5. \A p \in 1..36 : TextOf(u)[p] \in Chars
  <2> SUFFICES ASSUME NEW p \in 1..36 PROVE TextOf(u)[p] \in Chars OBVIOUS
  <2>1. CASE p \in Dashes BY <1>2, <2>1 DEF Chars
  <2>2. CASE p \notin Dashes BY <1>3, <1>4, <2>2 DEF Chars
  <2> QED BY <2>1, <2>2
<1>6. TextOf(u) \in [1..36 -> Chars]
  <2>1. DOMAIN TextOf(u) = 1..36 /\ TextOf(u) = [p \in DOMAIN TextOf(u) |-> TextOf(u)[p]]
    BY DEF TextOf
  <2> QED BY <1>5, <2>1
<1>7. TextOf(u) \in Seq(Chars) /\ Len(TextOf(u)) = 36
  <2>1. PICK n \in Nat : n = 36 OBVIOUS
  <2>2. TextOf(u) \in [1..n -> Chars] BY <1>6, <2>1
  <2>3. TextOf(u) \in Seq(Chars) /\ Len(TextOf(u)) = n BY <2>2
  <2> QED BY <2>1, <2>3
<1> QED BY <1>2, <1>3, <1>4, <1>7

\* A text that the five groups are read from, with nothing after it but a brace.
Closed(t, braced, last) == braced /\ Len(t) = last + 1 /\ t[last + 1] = CloseBrace
Canonical(t, braced) ==
    /\ Len(t) = 36 \/ Closed(t, braced, 36)
    /\ \A p \in Dashes : t[p] = "-"
    /\ \A p \in (1..36) \ Dashes : t[p] \in HexDigits

\* What group i needs: its dash, its digits, and for the last one no more.
GroupReads(t, braced, i, from, last) ==
    /\ i > 1 => t[from - 1] = "-"
    /\ Len(t) >= last
    /\ i = 5 => Len(t) <= last \/ Closed(t, braced, last)
    /\ \A p \in from..last : t[p] \in HexDigits

LEMMA ReadGroupIs ==
  ASSUME NEW S, NEW t \in Seq(S), NEW braced \in BOOLEAN, NEW i \in 1..5,
         NEW from \in Nat, NEW last \in Nat, from = TextStart[i], last = from + Groups[i] - 1
  PROVE  /\ ReadGroup(t, braced, i) \in {"read", Refused, Panics}
         /\ ReadGroup(t, braced, i) = Panics => Len(t) < 24
         /\ ReadGroup(t, braced, i) = "read" <=> GroupReads(t, braced, i, from, last)
<1>1. i = 1 \/ i = 2 \/ i = 3 \/ i = 4 \/ i = 5 OBVIOUS
<1>2. /\ Groups[i] \in {4, 8, 12} /\ from \in {1, 10, 15, 20, 25}
      /\ i > 1 => from > 1
  <2>1. CASE i = 1 BY <2>1, GroupBounds
  <2>2. CASE i = 2 BY <2>2, GroupBounds
  <2>3. CASE i = 3 BY <2>3, GroupBounds
  <2>4. CASE i = 4 BY <2>4, GroupBounds
  <2>5. CASE i = 5 BY <2>5, GroupBounds
  <2> QED BY <1>1, <2>1, <2>2, <2>3, <2>4, <2>5
<1>3. from + Groups[i] = last + 1 /\ (last + 1) - 1 = last /\ from - 1 <= 24
  <2>1. PICK g \in {4, 8, 12} : g = Groups[i] BY <1>2
  <2>2. from + g = last + 1 /\ (last + 1) - 1 = last BY <2>1
  <2>3. from - 1 <= 24 BY <1>2
  <2> QED BY <2>1, <2>2, <2>3
<1>4. Len(t) \in Nat OBVIOUS
<1> DEFINE digits == \A p \in from..last : t[p] \in HexDigits
<1>5. ReadGroup(t, braced, i) =
        IF i > 1 /\ Len(t) < from - 1 THEN Panics
        ELSE IF i > 1 /\ t[from - 1] # "-" THEN Refused
        ELSE IF Len(t) < last THEN Refused
        ELSE IF i = 5 /\ Len(t) >= last + 1
                /\ (~braced \/ Len(t) > last + 1 \/ t[last + 1] # CloseBrace)
             THEN Refused
        ELSE IF ~digits THEN Refused
        ELSE "read"
  <2>1. (\E p \in from..last : t[p] \notin HexDigits) <=> ~digits OBVIOUS
  <2> HIDE DEF digits
  <2> QED BY <1>3, <2>1 DEF ReadGroup
<1>6. digits \in BOOLEAN OBVIOUS
<1> HIDE DEF digits
<1>7. ReadGroup(t, braced, i) \in {"read", Refused, Panics} BY <1>5
<1>8. ReadGroup(t, braced, i) = Panics => Len(t) < 24
  <2>1. ReadGroup(t, braced, i) = Panics => Len(t) < from - 1 BY <1>5, Letters
  <2> QED BY <1>2, <1>3, <1>4, <2>1
<1>9. ReadGroup(t, braced, i) = "read" <=>
        /\ ~(i > 1 /\ Len(t) < from - 1)
        /\ ~(i > 1 /\ t[from - 1] # "-")
        /\ ~(Len(t) < last)
        /\ ~(i = 5 /\ Len(t) >= last + 1
               /\ (~braced \/ Len(t) > last + 1 \/ t[last + 1] # CloseBrace))
        /\ digits
  BY <1>5, <1>6, Letters
<1>10. from - 1 <= last BY <1>2
<1>11. GroupReads(t, braced, i, from, last) <=>
        /\ i > 1 => t[from - 1] = "-"
        /\ Len(t) >= last
        /\ i = 5 => Len(t) <= last \/ (braced /\ Len(t) = last + 1 /\ t[last + 1] = CloseBrace)
        /\ digits
  BY DEF GroupReads, Closed, digits
<1>12. ReadGroup(t, braced, i) = "read" <=> GroupReads(t, braced, i, from, last)
  <2> HIDE DEF GroupReads
  <2>1. Len(t) >= last + 1 <=> ~(Len(t) <= last) BY <1>4
  <2>2. Len(t) > last + 1 \/ Len(t) = last + 1 \/ Len(t) <= last BY <1>4
  <2>3. Len(t) > last + 1 => ~(Len(t) = last + 1) /\ ~(Len(t) <= last) BY <1>4
  <2>4. Len(t) < last <=> ~(Len(t) >= last) BY <1>4
  <2>5. Len(t) >= last => ~(Len(t) < from - 1) BY <1>3, <1>4, <1>10
  <2> QED BY <1>4, <1>9, <1>11, <2>1, <2>2, <2>3, <2>4, <2>5
<1> QED BY <1>7, <1>8, <1>12

LEMMA ReadGroupOutcomes ==
  ASSUME NEW S, NEW t \in Seq(S), NEW braced \in BOOLEAN, NEW i \in 1..5
  PROVE  \/ ReadGroup(t, braced, i) \in {"read", Refused}
         \/ ReadGroup(t, braced, i) = Panics /\ Len(t) < 24
<1>1. i = 1 \/ i = 2 \/ i = 3 \/ i = 4 \/ i = 5 OBVIOUS
<1>2. PICK from \in Nat : from = TextStart[i] BY <1>1, GroupBounds
<1>3. PICK last \in Nat : last = from + Groups[i] - 1
  <2>1. Groups[i] \in Nat \ {0} BY <1>1, GroupBounds
  <2> QED BY <2>1
<1> QED BY <1>2, <1>3, ReadGroupIs

LEMMA AllRead ==
  ASSUME NEW S, NEW t \in Seq(S), NEW braced \in BOOLEAN
  PROVE  (\A i \in 1..5 : ReadGroup(t, braced, i) = "read") <=> Canonical(t, braced)
<1>1. Len(t) \in Nat OBVIOUS
<1>2. /\ ReadGroup(t, braced, 1) = "read" <=> GroupReads(t, braced, 1, 1, 8)
      /\ ReadGroup(t, braced, 2) = "read" <=> GroupReads(t, braced, 2, 10, 13)
      /\ ReadGroup(t, braced, 3) = "read" <=> GroupReads(t, braced, 3, 15, 18)
      /\ ReadGroup(t, braced, 4) = "read" <=> GroupReads(t, braced, 4, 20, 23)
      /\ ReadGroup(t, braced, 5) = "read" <=> GroupReads(t, braced, 5, 25, 36)
  <2>1. ReadGroup(t, braced, 1) = "read" <=> GroupReads(t, braced, 1, 1, 8)
    BY ReadGroupIs, GroupBounds
  <2>2. ReadGroup(t, braced, 2) = "read" <=> GroupReads(t, braced, 2, 10, 13)
    BY ReadGroupIs, GroupBounds
  <2>3. ReadGroup(t, braced, 3) = "read" <=> GroupReads(t, braced, 3, 15, 18)
    BY ReadGroupIs, GroupBounds
  <2>4. ReadGroup(t, braced, 4) = "read" <=> GroupReads(t, braced, 4, 20, 23)
    BY ReadGroupIs, GroupBounds
  <2>5. ReadGroup(t, braced, 5) = "read" <=> GroupReads(t, braced, 5, 25, 36)
    BY ReadGroupIs, GroupBounds
  <2> QED BY <2>1, <2>2, <2>3, <2>4, <2>5
<1>3. (\A i \in 1..5 : ReadGroup(t, braced, i) = "read") <=>
        /\ GroupReads(t, braced, 1, 1, 8) /\ GroupReads(t, braced, 2, 10, 13)
        /\ GroupReads(t, braced, 3, 15, 18) /\ GroupReads(t, braced, 4, 20, 23)
        /\ GroupReads(t, braced, 5, 25, 36)
  <2>1. \A i \in 1..5 : i = 1 \/ i = 2 \/ i = 3 \/ i = 4 \/ i = 5 OBVIOUS
  <2> QED BY <1>2, <2>1
<1>4. ASSUME GroupReads(t, braced, 1, 1, 8), GroupReads(t, braced, 2, 10, 13),
             GroupReads(t, braced, 3, 15, 18), GroupReads(t, braced, 4, 20, 23),
             GroupReads(t, braced, 5, 25, 36)
      PROVE  Canonical(t, braced)
  <2>1. Len(t) = 36 \/ Closed(t, braced, 36)
    <3>1. Len(t) >= 36 BY <1>4 DEF GroupReads
    <3>2. Len(t) <= 36 \/ Closed(t, braced, 36) BY <1>4 DEF GroupReads
    <3>3. PICK n \in Nat : n = Len(t) BY <1>1
    <3>4. n >= 36 BY <3>1, <3>3
    <3>5. n <= 36 => n = 36 BY <3>4
    <3> QED BY <3>2, <3>3, <3>5
  <2>2. t[9] = "-" /\ t[14] = "-" /\ t[19] = "-" /\ t[24] = "-"
    <3>1. t[9] = "-" BY <1>4 DEF GroupReads
    <3>2. t[14] = "-" BY <1>4 DEF GroupReads
    <3>3. t[19] = "-" BY <1>4 DEF GroupReads
    <3>4. t[24] = "-" BY <1>4 DEF GroupReads
    <3> QED BY <3>1, <3>2, <3>3, <3>4
  <2>3. \A p \in Dashes : t[p] = "-" BY <2>2 DEF Dashes
  <2>4. ASSUME NEW p \in (1..36) \ Dashes PROVE t[p] \in HexDigits
    <3>1. p \in 1..8 \/ p \in 10..13 \/ p \in 15..18 \/ p \in 20..23 \/ p \in 25..36
      BY DEF Dashes
    <3> QED BY <1>4, <3>1 DEF GroupReads
  <2> QED BY <2>1, <2>3, <2>4 DEF Canonical
<1>5. ASSUME Canonical(t, braced)
      PROVE  /\ GroupReads(t, braced, 1, 1, 8) /\ GroupReads(t, braced, 2, 10, 13)
             /\ GroupReads(t, braced, 3, 15, 18) /\ GroupReads(t, braced, 4, 20, 23)
             /\ GroupReads(t, braced, 5, 25, 36)
  <2>1. Len(t) >= 36 /\ (Len(t) <= 36 \/ Closed(t, braced, 36))
    <3>1. PICK n \in Nat : n = Len(t) BY <1>1
    <3>2. Closed(t, braced, 36) => n = 36 + 1 BY <3>1 DEF Closed
    <3>3. (n = 36 + 1 => n >= 36) /\ (n = 36 => n >= 36 /\ n <= 36) OBVIOUS
    <3>4. Len(t) = 36 \/ Closed(t, braced, 36) BY <1>5 DEF Canonical
    <3> QED BY <3>1, <3>2, <3>3, <3>4
  <2>2. t[9] = "-" /\ t[14] = "-" /\ t[19] = "-" /\ t[24] = "-"
    BY <1>5 DEF Canonical, Dashes
  <2>3. ASSUME NEW p \in 1..36, p # 9, p # 14, p # 19, p # 24 PROVE t[p] \in HexDigits
    <3>1. p \in (1..36) \ Dashes BY <2>3 DEF Dashes
    <3> QED BY <1>5, <3>1 DEF Canonical
  <2>4. GroupReads(t, braced, 1, 1, 8) BY <2>1, <2>3 DEF GroupReads
  <2>5. GroupReads(t, braced, 2, 10, 13) BY <2>1, <2>2, <2>3 DEF GroupReads
  <2>6. GroupReads(t, braced, 3, 15, 18) BY <2>1, <2>2, <2>3 DEF GroupReads
  <2>7. GroupReads(t, braced, 4, 20, 23) BY <2>1, <2>2, <2>3 DEF GroupReads
  <2>8. GroupReads(t, braced, 5, 25, 36) BY <2>1, <2>2, <2>3 DEF GroupReads
  <2> QED BY <2>4, <2>5, <2>6, <2>7, <2>8
<1> QED BY <1>3, <1>4, <1>5

\* What a canonical text is the text of.
LEMMA CanonicalText ==
  ASSUME NEW S, NEW t \in Seq(S), NEW braced \in BOOLEAN, Canonical(t, braced),
         NEW u, u = [k \in 1..32 |-> t[Place(k)]]
  PROVE  /\ u \in UUIDs
         /\ Len(t) >= 36 /\ \A p \in 1..36 : t[p] = TextOf(u)[p]
<1>1. u \in UUIDs BY PlaceOfDigit DEF UUIDs, Canonical
<1>2. ASSUME NEW p \in 1..36 PROVE t[p] = TextOf(u)[p]
  <2>1. CASE p \in Dashes BY <1>1, <2>1, TextOfType DEF Canonical
  <2>2. CASE p \notin Dashes
    <3>1. TextOf(u)[p] = u[DigitAt(p)] BY <1>1, <2>2, TextOfType
    <3>2. DigitAt(p) \in 1..32 /\ Place(DigitAt(p)) = p BY <2>2, PlaceOfDigit
    <3> QED BY <3>1, <3>2
  <2> QED BY <2>1, <2>2
<1>3. Len(t) >= 36
  <2>1. PICK n \in Nat : n = Len(t) OBVIOUS
  <2>2. Closed(t, braced, 36) => n = 36 + 1 BY <2>1 DEF Closed
  <2>3. (n = 36 + 1 => n >= 36) /\ (n = 36 => n >= 36) OBVIOUS
  <2>4. Len(t) = 36 \/ Closed(t, braced, 36) BY DEF Canonical
  <2> QED BY <2>1, <2>2, <2>3, <2>4
<1> QED BY <1>1, <1>2, <1>3

LEMMA TextIsCanonical ==
  ASSUME NEW u \in UUIDs, NEW S, NEW t \in Seq(S), NEW braced \in BOOLEAN,
         Len(t) = 36 \/ Closed(t, braced, 36),
         \A p \in 1..36 : t[p] = TextOf(u)[p]
  PROVE  Canonical(t, braced) /\ [k \in 1..32 |-> t[Place(k)]] = u
<1>2. Canonical(t, braced) BY DashesInText, TextOfType DEF Canonical
<1>3. ASSUME NEW k \in 1..32 PROVE t[Place(k)] = u[k]
  <2>1. Place(k) \in (1..36) \ Dashes /\ DigitAt(Place(k)) = k BY PlaceOfDigit
  <2>2. t[Place(k)] = TextOf(u)[Place(k)] BY <2>1
  <2>3. TextOf(u)[Place(k)] = u[DigitAt(Place(k))] BY <2>1, TextOfType
  <2> QED BY <2>1, <2>2, <2>3
<1>4. u = [k \in 1..32 |-> u[k]] BY DEF UUIDs
<1> QED BY <1>2, <1>3, <1>4

\* The parts of UnmarshalText.
Braced(text) == text # <<>> /\ text[1] = OpenBrace
Body(text) == IF Braced(text) \/ (text # <<>> /\ text[1] = "urn") THEN Tail(text) ELSE text

LEMMA BodyIs ==
  ASSUME NEW S, NEW text \in Seq(S)
  PROVE  /\ Body(text) \in Seq(S) /\ Braced(text) \in BOOLEAN
         /\ \E lead \in Leads :
              /\ text = lead \o Body(text)
              /\ Braced(text) <=> lead = <<OpenBrace>>
              /\ TextLen(text) = Len(Body(text)) + (IF lead = <<>> THEN 0 ELSE IF lead = <<OpenBrace>> THEN 1 ELSE 9)
              /\ lead = <<"urn">> => text[1] = "urn"
              /\ lead # <<>> => Len(text) = Len(Body(text)) + 1
              /\ lead = <<>> => text = Body(text)
<1>1. <<OpenBrace>> # <<"urn">> /\ <<OpenBrace>> # <<>> /\ <<"urn">> # <<>>
  <2>1. <<OpenBrace>>[1] = OpenBrace /\ <<"urn">>[1] = "urn" OBVIOUS
  <2>2. Len(<<>>) = 0 /\ Len(<<OpenBrace>>) = 1 /\ Len(<<"urn">>) = 1 OBVIOUS
  <2> QED BY <2>1, <2>2, Letters
<1>2. Len(text) \in Nat OBVIOUS
<1>0. Braced(text) \in BOOLEAN BY DEF Braced
<1>3. CASE text # <<>> /\ text[1] \in {OpenBrace, "urn"}
  <2>1. Body(text) = Tail(text) BY <1>3 DEF Body, Braced
  <2>2. Tail(text) \in Seq(S) /\ Len(Tail(text)) = Len(text) - 1
        /\ \A i \in 1..Len(Tail(text)) : Tail(text)[i] = text[i + 1]
    BY <1>3, HeadTailProperties
  <2>3. PICK c : c = text[1] OBVIOUS
  <2>4. text = <<c>> \o Tail(text)
    <3>1. Len(text) \in Nat \ {0} BY <1>3, EmptySeq
    <3>2. c \in S BY <2>3, <3>1, ElementOfSeq
    <3>3. <<c>> \in Seq(S) /\ Len(<<c>>) = 1 /\ <<c>>[1] = c BY <3>2
    <3> DEFINE s == <<c>>
    <3> HIDE DEF s
    <3>4. s \in Seq(S) /\ Len(s) = 1 /\ s[1] = c BY <3>3 DEF s
    <3>5. /\ s \o Tail(text) \in Seq(S)
          /\ Len(s \o Tail(text)) = 1 + (Len(text) - 1)
          /\ \A i \in 1..(1 + (Len(text) - 1)) :
               (s \o Tail(text))[i] = IF i <= 1 THEN s[i] ELSE Tail(text)[i - 1]
      BY <2>2, <3>4, ConcatProperties
    <3>6. ASSUME NEW i \in 1..Len(text) PROVE text[i] = (s \o Tail(text))[i]
      <4>1. i \in 1..(1 + (Len(text) - 1)) BY <1>2
      <4>2. CASE i = 1 BY <2>3, <3>4, <3>5, <4>1, <4>2
      <4>3. CASE i # 1
        <5>1. i - 1 \in 1..Len(Tail(text)) /\ (i - 1) + 1 = i /\ ~(i <= 1) BY <1>2, <2>2, <4>3
        <5> QED BY <2>2, <3>5, <4>1, <5>1
      <4> QED BY <4>2, <4>3
    <3>7. Len(text) = Len(s \o Tail(text)) BY <1>2, <3>5
    <3>8. text = s \o Tail(text) BY <3>5, <3>6, <3>7, SeqEqual
    <3> QED BY <3>8 DEF s
  <2>5. CASE c = OpenBrace
    <3>1. Braced(text) /\ text[1] # "urn" BY <1>3, <2>3, <2>5, Letters DEF Braced
    <3>2. TextLen(text) = Len(text) + 0 BY <3>1, <1>2 DEF TextLen
    <3>3. <<OpenBrace>> \in Leads BY DEF Leads
    <3>4. TextLen(text) = Len(Body(text)) + 1 /\ Len(text) = Len(Body(text)) + 1
      BY <1>2, <2>1, <2>2, <3>2
    <3>5. text = <<OpenBrace>> \o Body(text) BY <2>1, <2>4, <2>5
    <3> HIDE DEF Body, Braced
    <3> QED BY <1>1, <2>1, <2>2, <3>1, <3>3, <3>4, <3>5
  <2>6. CASE c = "urn"
    <3>1. ~Braced(text) /\ text[1] = "urn" BY <1>3, <2>3, <2>6, Letters DEF Braced
    <3>2. TextLen(text) = Len(text) + 8 BY <1>3, <3>1 DEF TextLen
    <3>3. <<"urn">> \in Leads BY DEF Leads
    <3>4. TextLen(text) = Len(Body(text)) + 9 /\ Len(text) = Len(Body(text)) + 1
      BY <1>2, <2>1, <2>2, <3>2
    <3>5. text = <<"urn">> \o Body(text) BY <2>1, <2>4, <2>6
    <3> HIDE DEF Body, Braced
    <3> QED BY <1>1, <2>1, <2>2, <3>1, <3>3, <3>4, <3>5, <1>0
  <2> QED BY <1>3, <2>3, <2>5, <2>6
<1>4. CASE ~(text # <<>> /\ text[1] \in {OpenBrace, "urn"})
  <2>1. Body(text) = text /\ ~Braced(text) BY <1>4 DEF Body, Braced
  <2>2. TextLen(text) = Len(text) + 0 BY <1>4, <1>2 DEF TextLen
  <2>3. text = <<>> \o text BY ConcatEmptySeq
  <2>4. <<>> \in Leads /\ Len(text) + 0 = Len(text) BY <1>2 DEF Leads
  <2> HIDE DEF Body, Braced
  <2> QED BY <1>1, <1>2, <2>1, <2>2, <2>3, <2>4, <1>0
<1> QED BY <1>3, <1>4

LEMMA UnmarshalIs ==
  ASSUME NEW S, NEW text \in Seq(S)
  PROVE  LET r == ReadText(text)
             t == Body(text)
         IN  \/ TextLen(text) < 32 /\ r = <<Refused>>
             \/ /\ TextLen(text) >= 32
                /\ Canonical(t, Braced(text))
                /\ r = [k \in 1..32 |-> t[Place(k)]]
             \/ /\ TextLen(text) >= 32
                /\ ~Canonical(t, Braced(text))
                /\ r = <<Refused>> \/ (r = <<Panics>> /\ Len(t) < 24)
<1> DEFINE t == Body(text)
           braced == Braced(text)
           stops == {i \in 1..5 : ReadGroup(t, braced, i) # "read"}
           first == CHOOSE i \in stops : \A j \in stops : i <= j
<1>1. t \in Seq(S) /\ braced \in BOOLEAN BY BodyIs
<1>2. ReadText(text) =
        IF TextLen(text) < 32 THEN <<Refused>>
        ELSE IF stops # {} THEN <<ReadGroup(t, braced, first)>>
        ELSE [k \in 1..32 |-> t[Place(k)]]
  BY DEF ReadText, Body, Braced
<1>3. TextLen(text) \in Nat
  <2>1. Len(text) \in Nat OBVIOUS
  <2> QED BY <2>1 DEF TextLen
<1> HIDE DEF t, braced
<1>4. stops = {} <=> Canonical(t, braced)
  <2>1. stops = {} <=> \A i \in 1..5 : ReadGroup(t, braced, i) = "read" OBVIOUS
  <2> QED BY <1>1, <2>1, AllRead
<1>5. CASE stops # {}
  <2>1. stops \in SUBSET Nat OBVIOUS
  <2>2. \E i \in stops : \A j \in stops : i <= j BY <1>5, <2>1, LeastNat
  <2>3. first \in stops BY <2>2
  <2> HIDE DEF first
  <2>4. first \in 1..5 /\ ReadGroup(t, braced, first) # "read" BY <2>3
  <2>5. \/ ReadGroup(t, braced, first) = Refused
        \/ ReadGroup(t, braced, first) = Panics /\ Len(t) < 24
    BY <1>1, <2>4, ReadGroupOutcomes
  <2> HIDE DEF stops
  <2> QED BY <1>2, <1>3, <1>4, <1>5, <2>5 DEF t, braced
<1>6. CASE stops = {}
  <2> HIDE DEF stops, first
  <2>1. Canonical(t, braced) BY <1>4, <1>6
  <2>2. CASE TextLen(text) < 32 BY <1>2, <2>2 DEF t
  <2>3. CASE TextLen(text) >= 32
    <3>1. ReadText(text) = [k \in 1..32 |-> t[Place(k)]] BY <1>2, <1>3, <1>6, <2>3
    <3> QED BY <2>1, <2>3, <3>1 DEF t, braced
  <2> QED BY <1>3, <2>2, <2>3
<1> QED BY <1>5, <1>6

\* A text with neither lead; a lead that opens a brace.
Leadless(t) == t # <<>> /\ t[1] # OpenBrace /\ t[1] # "urn"
Opens(lead) == lead = <<OpenBrace>>

LEMMA Opening == ~Opens(<<>>) /\ ~Opens(<<"urn">>) /\ Opens(<<OpenBrace>>)
<1>1. <<OpenBrace>>[1] = OpenBrace /\ <<"urn">>[1] = "urn" OBVIOUS
<1>2. <<>> # <<OpenBrace>> OBVIOUS
<1> QED BY <1>1, <1>2, Letters DEF Opens

\* What is read of a text behind each of the leads.
LEMMA LeadText ==
  ASSUME NEW t \in Seq(Chars), Leadless(t), NEW lead \in Leads
  PROVE  /\ lead \o t \in Seq(Chars)
         /\ Body(lead \o t) = t
         /\ Braced(lead \o t) <=> Opens(lead)
         /\ TextLen(lead \o t) >= Len(t)
<1>1. PICK n \in Nat : n = Len(t) OBVIOUS
<1>2. CASE lead = <<>>
  <2>1. lead \o t = t BY <1>2, ConcatEmptySeq
  <2>2. Body(t) = t /\ ~Braced(t) BY DEF Body, Braced, Leadless
  <2>3. TextLen(t) = n + 0
    <3>1. ~(t # <<>> /\ t[1] = "urn") BY DEF Leadless
    <3> QED BY <1>1, <3>1 DEF TextLen
  <2>4. ~Opens(lead) BY <1>2, Opening
  <2> HIDE DEF Body, Braced
  <2>5. /\ lead \o t \in Seq(Chars) /\ Body(lead \o t) = t
        /\ Braced(lead \o t) <=> Opens(lead)
    BY <2>1, <2>2, <2>4
  <2>6. TextLen(lead \o t) >= Len(t) BY <1>1, <2>1, <2>3
  <2> QED BY <2>5, <2>6
<1>3. ASSUME NEW c, c = OpenBrace \/ c = "urn", lead = <<c>>
      PROVE  /\ lead \o t \in Seq(Chars)
             /\ Body(lead \o t) = t
             /\ Braced(lead \o t) <=> c = OpenBrace
             /\ TextLen(lead \o t) >= Len(t)
  <2>0. c \in Chars BY <1>3 DEF Chars
  <2>1. lead \in Seq(Chars) /\ Len(lead) = 1 /\ lead[1] = c
    <3>1. lead = <<c>> BY <1>3
    <3> QED BY <2>0, <3>1
  <2> DEFINE w == lead \o t
  <2>2. /\ w \in Seq(Chars) /\ Len(w) = 1 + n
        /\ \A i \in 1..(1 + n) : w[i] = IF i <= 1 THEN lead[i] ELSE t[i - 1]
    <3>1. /\ w \in Seq(Chars) /\ Len(w) = Len(lead) + Len(t)
          /\ \A i \in 1..(Len(lead) + Len(t)) : w[i] = IF i <= Len(lead) THEN lead[i] ELSE t[i - Len(lead)]
      BY <2>1, ConcatProperties
    <3> HIDE DEF w
    <3> QED BY <1>1, <2>1, <3>1
  <2> HIDE DEF w
  <2>3. 1 \in 1..(1 + n) OBVIOUS
  <2>4. w[1] = c /\ w # <<>> BY <2>1, <2>2, <2>3
  <2>5. Tail(w) = t
    <3>1. Tail(w) \in Seq(Chars) /\ Len(Tail(w)) = (1 + n) - 1
          /\ \A i \in 1..((1 + n) - 1) : Tail(w)[i] = w[i + 1]
      BY <2>2, <2>4, HeadTailProperties
    <3>2. ASSUME NEW i \in 1..n PROVE Tail(w)[i] = t[i]
      <4>1. i \in 1..((1 + n) - 1) /\ i + 1 \in 1..(1 + n) /\ ~(i + 1 <= 1) /\ (i + 1) - 1 = i
        OBVIOUS
      <4> QED BY <2>2, <3>1, <4>1
    <3>3. (1 + n) - 1 = n OBVIOUS
    <3> QED BY <1>1, <3>1, <3>2, <3>3, SeqEqual
  <2>6. Body(w) = t BY <1>3, <2>4, <2>5 DEF Body, Braced
  <2>7. Braced(w) <=> c = OpenBrace BY <2>4 DEF Braced
  <2>8. TextLen(w) >= n
    <3>1. TextLen(w) = (1 + n) + 8 \/ TextLen(w) = (1 + n) + 0 BY <2>2 DEF TextLen
    <3> QED BY <3>1
  <2> QED BY <1>1, <2>2, <2>6, <2>7, <2>8 DEF w
<1>4. lead = <<>> \/ lead = <<OpenBrace>> \/ lead = <<"urn">> BY DEF Leads
<1>5. "urn" # OpenBrace BY Letters
<1>6. CASE lead = <<OpenBrace>> BY <1>3, <1>6, Opening
<1>7. CASE lead = <<"urn">>
  <2> DEFINE c == "urn"
  <2>1. c = "urn" /\ c # OpenBrace /\ lead = <<c>> BY <1>5, <1>7
  <2> HIDE DEF c
  <2>2. /\ lead \o t \in Seq(Chars) /\ Body(lead \o t) = t
        /\ (Braced(lead \o t) <=> c = OpenBrace) /\ TextLen(lead \o t) >= Len(t)
    <3>1. c = OpenBrace \/ c = "urn" BY <2>1
    <3> QED BY <1>3, <2>1, <3>1
  <2> QED BY <1>7, <2>1, <2>2, Opening
<1> QED BY <1>2, <1>4, <1>6, <1>7

LEMMA LongEnough == \A n \in Nat : n = 36 \/ n = 36 + 1 => n >= 36
OBVIOUS

\* A canonical text with nothing after it, or with its closing brace, is read.
LEMMA BodyReads ==
  ASSUME NEW u \in UUIDs, NEW t \in Seq(Chars), NEW lead \in Leads,
         NEW braced \in BOOLEAN, braced <=> Opens(lead),
         Len(t) = 36 \/ Closed(t, braced, 36),
         \A p \in 1..36 : t[p] = TextOf(u)[p]
  PROVE  ReadText(lead \o t) = u
<1> DEFINE text == lead \o t
<1>0. \A s \in Seq(Chars) : Len(s) \in Nat BY LenProperties
<1>1. PICK n \in Nat : n = Len(t)
  <2>1. Len(t) \in Nat BY <1>0
  <2> QED BY <2>1, Zenon
<1>2. n >= 36
  <2>0. Closed(t, braced, 36) => Len(t) = 36 + 1 BY Zenon DEF Closed
  <2>1. Closed(t, braced, 36) => n = 36 + 1 BY <1>1, <2>0, Zenon
  <2> QED BY <1>1, <2>1, LongEnough
<1>3. Leadless(t)
  <2>1. 1 \in (1..36) \ Dashes BY DEF Dashes
  <2>2. t[1] \in HexDigits BY <2>1, TextOfType
  <2>3. t # <<>> BY <1>1, <1>2
  <2> QED BY <2>2, <2>3, Letters DEF Leadless
<1>4. /\ text \in Seq(Chars) /\ Body(text) = t /\ Braced(text) \in BOOLEAN
      /\ Braced(text) <=> Opens(lead)
      /\ TextLen(text) >= n
  BY <1>1, <1>3, LeadText, BodyIs
<1>5. Len(t) = 36 \/ Closed(t, Braced(text), 36) BY <1>4 DEF Closed
<1>6. Canonical(t, Braced(text)) /\ [k \in 1..32 |-> t[Place(k)]] = u
  BY <1>4, <1>5, TextIsCanonical
<1>7. ~(TextLen(text) < 32)
  <2>1. TextLen(text) \in Nat
    <3>1. Len(text) \in Nat BY <1>0, <1>4
    <3>2. PICK m \in Nat : m = Len(text) BY <3>1, Zenon
    <3>3. TextLen(text) = m + 8 \/ TextLen(text) = m + 0 BY <3>2 DEF TextLen
    <3>4. m + 8 \in Nat /\ m + 0 \in Nat OBVIOUS
    <3> QED BY <3>3, <3>4
  <2>2. PICK m \in Nat : m = TextLen(text) BY <2>1
  <2>3. ~(m < 32) BY <1>2, <1>4, <2>2
  <2> QED BY <2>2, <2>3
<1> HIDE DEF text
<1> QED BY <1>4, <1>6, <1>7, UnmarshalIs DEF text

LEMMA SeqWidens ==
  ASSUME NEW S, NEW T, S \subseteq T, NEW t \in Seq(S)
  PROVE  t \in Seq(T)
<1>1. Len(t) \in Nat /\ t \in [1..Len(t) -> S] OBVIOUS
<1>2. t \in [1..Len(t) -> T] BY <1>1
<1> QED BY <1>1, <1>2

\* What an edit makes of a text is a text.
LEMMA EditedAreTexts ==
  ASSUME NEW u \in UUIDs, NEW t \in Edited(TextOf(u))
  PROVE  t \in Seq(AnyChars)
<1> DEFINE w == TextOf(u)
<1>1. w \in Seq(AnyChars) /\ Len(w) = 36
  <2>1. w \in Seq(Chars) /\ Len(w) = 36 BY TextOfType
  <2> HIDE DEF w
  <2>2. w \in Seq(AnyChars) BY <2>1, SeqWidens DEF AnyChars
  <2> QED BY <2>1, <2>2
<1>2. \A i \in 1..36 : w[i] \in AnyChars BY <1>1, ElementOfSeq
<1>3. /\ CloseBrace \in AnyChars /\ "0" \in AnyChars /\ "-" \in AnyChars
      /\ "g" \in AnyChars /\ OpenBrace \in AnyChars /\ "A" \in AnyChars
  BY DEF AnyChars, Chars, HexDigits
<1> HIDE DEF w
<1>4. Append(w, CloseBrace) \in Seq(AnyChars) /\ Append(w, "0") \in Seq(AnyChars)
  BY <1>1, <1>3, AppendProperties
<1>5. Front(w) \in Seq(AnyChars)
  <2>1. Front(w) = SubSeq(w, 1, 35) BY <1>1 DEF Front
  <2>2. \A i \in 1..35 : w[i] \in AnyChars BY <1>2
  <2> QED BY <2>1, <2>2, SubSeqProperties
<1>6. SubSeq(w, 1, 23) \in Seq(AnyChars)
  <2>2. \A i \in 1..23 : w[i] \in AnyChars BY <1>2
  <2> QED BY <2>2, SubSeqProperties
<1> DEFINE Put(k, c) == [w EXCEPT ![k] = c]
<1>7. ASSUME NEW k \in {1, 9, 36}, NEW c \in AnyChars
      PROVE  Put(k, c) \in Seq(AnyChars)
  <2>1. k \in 1..Len(w) BY <1>1
  <2> QED BY <1>1, <2>1, ExceptSeq
<1>8. \A c \in {"-", "g", OpenBrace, "A"} : c \in AnyChars BY <1>3
<1> DEFINE Few == {w, Append(w, CloseBrace), Append(w, "0"), Front(w), SubSeq(w, 1, 23)}
           Excepted == {Put(k, c) : k \in {1, 9, 36}, c \in {"-", "g", OpenBrace, "A"}}
<1>9. t \in Few \cup Excepted BY DEF Edited, w
<1>10. Few \subseteq Seq(AnyChars) BY <1>1, <1>4, <1>5, <1>6
<1> HIDE DEF Put
<1>11. Excepted \subseteq Seq(AnyChars) BY <1>7, <1>8
<1> HIDE DEF Few, Excepted
<1> QED BY <1>9, <1>10, <1>11

LEMMA TextsAreTexts == \A t \in Texts : t \in Seq(AnyChars)
<1> SUFFICES ASSUME NEW t \in Texts PROVE t \in Seq(AnyChars) OBVIOUS
<1>1. PICK u \in SampleUUIDs :
        t \in Edited(TextOf(u)) \cup {<<lead>> \o s : s \in Edited(TextOf(u)), lead \in {"urn", OpenBrace}}
  BY DEF Texts
<1>2. u \in UUIDs BY IdAssumption DEF IdAssumption, UUIDs
<1>3. \A s \in Edited(TextOf(u)) : s \in Seq(AnyChars) BY <1>2, EditedAreTexts
<1>4. CASE t \in Edited(TextOf(u)) BY <1>3, <1>4
<1>5. CASE t \in {<<lead>> \o s : s \in Edited(TextOf(u)), lead \in {"urn", OpenBrace}}
  <2>1. PICK s \in Edited(TextOf(u)), lead \in {"urn", OpenBrace} : t = <<lead>> \o s BY <1>5
  <2>2. lead \in AnyChars BY DEF AnyChars, Chars
  <2>3. <<lead>> \in Seq(AnyChars)
    <3>1. PICK c \in AnyChars : c = lead BY <2>2
    <3>2. <<c>> \in Seq(AnyChars) OBVIOUS
    <3> QED BY <3>1, <3>2
  <2> QED BY <1>3, <2>1, <2>3, ConcatProperties
<1> QED BY <1>1, <1>4, <1>5

\* A text behind its lead, and with its closing brace, is read as its UUID.
LEMMA WrittenTextsAreRead ==
  ASSUME NEW u \in UUIDs
  PROVE  /\ \A lead \in Leads : ReadText(lead \o TextOf(u)) = u
         /\ ReadText(<<OpenBrace>> \o TextOf(u) \o <<CloseBrace>>) = u
<1> DEFINE w == TextOf(u)
<1>1. w \in Seq(Chars) /\ Len(w) = 36 BY TextOfType
<1>2. ASSUME NEW lead \in Leads PROVE ReadText(lead \o w) = u
  <2>1. PICK braced \in BOOLEAN : braced <=> Opens(lead)
    <3>1. Opens(lead) \in BOOLEAN BY DEF Opens
    <3> QED BY <3>1
  <2> QED BY <1>1, <2>1, BodyReads
<1>3. ReadText(<<OpenBrace>> \o w \o <<CloseBrace>>) = u
  <2> DEFINE brace == <<CloseBrace>>
             open == <<OpenBrace>>
             t == w \o brace
  <2>1. OpenBrace \in Chars /\ CloseBrace \in Chars BY DEF Chars
  <2>2. brace \in Seq(Chars) /\ Len(brace) = 1 /\ brace[1] = CloseBrace /\ open \in Seq(Chars)
    <3>1. PICK c \in Chars : c = CloseBrace BY <2>1
    <3>2. PICK o \in Chars : o = OpenBrace BY <2>1
    <3>3. <<c>> \in Seq(Chars) /\ Len(<<c>>) = 1 /\ <<c>>[1] = c /\ <<o>> \in Seq(Chars) OBVIOUS
    <3> QED BY <3>1, <3>2, <3>3
  <2>3. open \in Leads /\ Opens(open) BY DEF Leads, Opens
  <2> HIDE DEF w, brace, open, t
  <2>4. /\ w \o brace \in Seq(Chars) /\ Len(w \o brace) = 36 + 1
        /\ \A i \in 1..(36 + 1) : (w \o brace)[i] = IF i <= 36 THEN w[i] ELSE brace[i - 36]
    <3>1. /\ w \o brace \in Seq(Chars) /\ Len(w \o brace) = Len(w) + Len(brace)
          /\ \A i \in 1..(Len(w) + Len(brace)) :
               (w \o brace)[i] = IF i <= Len(w) THEN w[i] ELSE brace[i - Len(w)]
      BY <1>1, <2>2, ConcatProperties
    <3> QED BY <1>1, <2>2, <3>1
  <2>5. t \in Seq(Chars) /\ Len(t) = 36 + 1 /\ \A p \in 1..36 : t[p] = w[p]
    <3>1. \A p \in 1..36 : p \in 1..(36 + 1) /\ p <= 36 OBVIOUS
    <3> QED BY <2>4, <3>1 DEF t
  <2>6. t[36 + 1] = CloseBrace
    <3>1. 36 + 1 \in 1..(36 + 1) /\ ~(36 + 1 <= 36) /\ (36 + 1) - 36 = 1 OBVIOUS
    <3> QED BY <2>2, <2>4, <3>1 DEF t
  <2>7. Closed(t, TRUE, 36) BY <2>5, <2>6 DEF Closed
  <2>8. ReadText(open \o t) = u
    <3>1. \A p \in 1..36 : t[p] = TextOf(u)[p] BY <2>5 DEF w
    <3> QED BY <2>3, <2>5, <2>7, <3>1, BodyReads
  <2>9. (open \o w) \o brace = open \o t
    <3>1. \A a, b, c \in Seq(Chars) : (a \o b) \o c = a \o (b \o c) BY ConcatAssociative
    <3> QED BY <1>1, <2>2, <3>1 DEF t
  <2>10. ReadText(open \o w \o brace) = u BY <2>8, <2>9
  <2> QED BY <2>10 DEF open, brace
<1> QED BY <1>2, <1>3

\* Such a text has no capitals: it is read as it stands.
LEMMA SmallTextsAreRead ==
  ASSUME NEW u \in UUIDs
  PROVE  /\ \A lead \in Leads : UnmarshalText(lead \o TextOf(u)) = u
         /\ UnmarshalText(<<OpenBrace>> \o TextOf(u) \o <<CloseBrace>>) = u
<1>1. /\ <<>> \in Seq(Chars) /\ <<OpenBrace>> \in Seq(Chars) /\ <<"urn">> \in Seq(Chars)
      /\ <<CloseBrace>> \in Seq(Chars)
  <2>1. CloseBrace \in Chars /\ OpenBrace \in Chars /\ "urn" \in Chars BY DEF Chars
  <2>2. \A c \in Chars : <<c>> \in Seq(Chars) OBVIOUS
  <2>3. <<>> \in Seq(Chars) OBVIOUS
  <2> QED BY <2>1, <2>2, <2>3
<1>2. TextOf(u) \in Seq(Chars) BY TextOfType
<1>3. \A s, t \in Seq(Chars) : s \o t \in Seq(Chars) BY ConcatProperties
<1>4. ASSUME NEW lead \in Leads PROVE UnmarshalText(lead \o TextOf(u)) = u
  <2>1. lead \in Seq(Chars) BY <1>1 DEF Leads
  <2>2. lead \o TextOf(u) \in Seq(Chars) BY <1>2, <1>3, <2>1
  <2>3. Lowered(lead \o TextOf(u)) = lead \o TextOf(u) BY <2>2, LoweredIs
  <2> QED BY <2>3, WrittenTextsAreRead DEF UnmarshalText
<1>5. UnmarshalText(<<OpenBrace>> \o TextOf(u) \o <<CloseBrace>>) = u
  <2>1. (<<OpenBrace>> \o TextOf(u)) \o <<CloseBrace>> \in Seq(Chars) BY <1>1, <1>2, <1>3
  <2>2. Lowered(<<OpenBrace>> \o TextOf(u) \o <<CloseBrace>>)
          = <<OpenBrace>> \o TextOf(u) \o <<CloseBrace>>
    BY <2>1, LoweredIs
  <2> QED BY <2>2, WrittenTextsAreRead DEF UnmarshalText
<1> QED BY <1>4, <1>5

\* What is scanned: a text, bytes, or nothing.
LEMMA Scanned ==
  ASSUME NEW u \in UUIDs
  PROVE  /\ NullScanUUID([kind |-> "text", data |-> <<OpenBrace>> \o TextOf(u) \o <<CloseBrace>>]).UUID = u
         /\ NullScanUUID([kind |-> "bytes", data |-> u]).UUID = u
         /\ ~NullScanUUID([kind |-> "nil"]).Valid
<1>1. "text" # "nil" /\ "bytes" # "nil" /\ "text" # "bytes" OBVIOUS
<1>2. ASSUME NEW d PROVE NullScanUUID([kind |-> "text", data |-> d]).UUID = UnmarshalText(d)
  BY <1>1 DEF NullScanUUID, ScanUUID
<1>3. ASSUME NEW d PROVE NullScanUUID([kind |-> "bytes", data |-> d]).UUID = UnmarshalBinaryUUID(d)
  BY <1>1 DEF NullScanUUID, ScanUUID
<1>4. ~NullScanUUID([kind |-> "nil"]).Valid BY DEF NullScanUUID
<1>5. UnmarshalBinaryUUID(u) = u
  <2>1. PICK n \in Nat : n = 32 OBVIOUS
  <2>2. u \in [1..n -> HexDigits] BY <2>1 DEF UUIDs
  <2>3. Len(u) = n BY <2>2
  <2> QED BY <2>1, <2>3 DEF UnmarshalBinaryUUID
<1>6. UnmarshalText(<<OpenBrace>> \o TextOf(u) \o <<CloseBrace>>) = u BY SmallTextsAreRead
<1> QED BY <1>2, <1>3, <1>4, <1>5, <1>6

\* Which body a canonical one is.
LEMMA BodyIsText ==
  ASSUME NEW t \in Seq(Chars), NEW braced \in BOOLEAN, Canonical(t, braced),
         NEW u, u = [k \in 1..32 |-> t[Place(k)]]
  PROVE  /\ u \in UUIDs
         /\ \/ t = TextOf(u) /\ t[Len(t)] # CloseBrace
            \/ t = TextOf(u) \o <<CloseBrace>> /\ braced
         /\ t # <<>>
<1>1. u \in UUIDs /\ Len(t) >= 36 /\ \A p \in 1..36 : t[p] = TextOf(u)[p] BY CanonicalText
<1> DEFINE w == TextOf(u)
           brace == <<CloseBrace>>
<1>2. w \in Seq(Chars) /\ Len(w) = 36 BY <1>1, TextOfType
<1>3. brace \in Seq(Chars) /\ Len(brace) = 1 /\ brace[1] = CloseBrace
  <2>1. CloseBrace \in Chars BY DEF Chars
  <2> QED BY <2>1
<1>4. \A p \in 1..36 : t[p] = w[p] BY <1>1
<1> HIDE DEF w, brace
<1>5. Len(t) = 36 \/ Closed(t, braced, 36) BY DEF Canonical
<1>6. t # <<>>
  <2>1. CASE t = <<>>
    <3>1. Len(t) = 0 BY <2>1
    <3>2. ~(0 >= 36) OBVIOUS
    <3> QED BY <1>1, <3>1, <3>2
  <2> QED BY <2>1
<1>7. CASE Len(t) = 36
  <2>1. t = w BY <1>2, <1>4, <1>7, SeqEqual
  <2>2. 36 \in (1..36) \ Dashes BY DEF Dashes
  <2>3. t[36] \in HexDigits BY <2>2 DEF Canonical
  <2>4. t[Len(t)] # CloseBrace BY <1>7, <2>3, Letters
  <2> QED BY <1>1, <1>6, <2>1, <2>4 DEF w
<1>8. CASE Closed(t, braced, 36)
  <2>1. braced /\ Len(t) = 36 + 1 /\ t[36 + 1] = CloseBrace BY <1>8 DEF Closed
  <2>2. /\ w \o brace \in Seq(Chars) /\ Len(w \o brace) = Len(w) + Len(brace)
        /\ \A i \in 1..(Len(w) + Len(brace)) :
             (w \o brace)[i] = IF i <= Len(w) THEN w[i] ELSE brace[i - Len(w)]
    BY <1>2, <1>3, ConcatProperties
  <2>3. /\ Len(w \o brace) = 36 + 1
        /\ \A i \in 1..(36 + 1) : (w \o brace)[i] = IF i <= 36 THEN w[i] ELSE brace[i - 36]
    BY <1>2, <1>3, <2>2
  <2>4. ASSUME NEW i \in 1..(36 + 1) PROVE t[i] = (w \o brace)[i]
    <3>1. CASE i \in 1..36
      <4>1. i <= 36 BY <3>1
      <4>2. (w \o brace)[i] = w[i] BY <2>3, <4>1
      <4> QED BY <1>4, <3>1, <4>2
    <3>2. CASE i \notin 1..36
      <4>1. i = 36 + 1 /\ i - 36 = 1 /\ ~(i <= 36) BY <3>2
      <4>2. (w \o brace)[i] = brace[i - 36] BY <2>3, <4>1
      <4>3. (w \o brace)[i] = CloseBrace BY <1>3, <4>1, <4>2
      <4> QED BY <2>1, <4>1, <4>3
    <3> QED BY <3>1, <3>2
  <2>5. t = w \o brace BY <2>1, <2>2, <2>3, <2>4, SeqEqual
  <2> QED BY <1>1, <1>6, <2>1, <2>5 DEF w, brace
<1> QED BY <1>5, <1>7, <1>8

\* What is read of any text at all: a UUID's text and nothing else, or an error,
\* or, of a prefix and 23 characters, a panic.
LEMMA TextsReadAreWritten ==
  ASSUME NEW text \in Seq(Chars), NEW u, u = ReadText(text)
  PROVE  /\ u = <<Panics>> => TextLen(text) = 32 /\ text[1] = "urn"
         /\ u # <<Panics>> /\ u # <<Refused>> =>
              /\ u \in UUIDs
              /\ \E lead \in Leads, tail \in {<<>>, <<CloseBrace>>} : text = lead \o TextOf(u) \o tail
              /\ Last(text) = CloseBrace => text[1] = OpenBrace
<1> DEFINE t == Body(text)
           braced == Braced(text)
<1>1. t \in Seq(Chars) /\ braced \in BOOLEAN BY BodyIs
<1>2. PICK lead \in Leads :
        /\ text = lead \o t
        /\ TextLen(text) = Len(t) + (IF lead = <<>> THEN 0 ELSE IF lead = <<OpenBrace>> THEN 1 ELSE 9)
        /\ lead = <<"urn">> => text[1] = "urn"
        /\ lead # <<>> => Len(text) = Len(t) + 1
        /\ lead = <<>> => text = t
  BY BodyIs
<1>3. <<Panics>> # <<Refused>>
  <2>1. <<Panics>>[1] = Panics /\ <<Refused>>[1] = Refused OBVIOUS
  <2> QED BY <2>1, Letters
<1>4. braced => text[1] = OpenBrace BY DEF Braced
<1>5. \/ TextLen(text) < 32 /\ u = <<Refused>>
      \/ /\ TextLen(text) >= 32 /\ Canonical(t, braced)
         /\ u = [k \in 1..32 |-> t[Place(k)]]
      \/ /\ TextLen(text) >= 32 /\ ~Canonical(t, braced)
         /\ u = <<Refused>> \/ (u = <<Panics>> /\ Len(t) < 24)
  BY UnmarshalIs
<1> HIDE DEF t, braced
<1>6. CASE u = <<Refused>> BY <1>3, <1>6
<1>7. CASE TextLen(text) >= 32 /\ u = <<Panics>> /\ Len(t) < 24
  <2>1. PICK n \in Nat : n = Len(t) BY <1>1
  <2>2. lead = <<>> \/ lead = <<OpenBrace>> \/ lead = <<"urn">> BY DEF Leads
  <2>3. lead # <<>> /\ lead # <<OpenBrace>>
    <3>1. lead = <<>> => TextLen(text) = n + 0 BY <1>2, <2>1
    <3>2. lead = <<OpenBrace>> => TextLen(text) = n + 0 \/ TextLen(text) = n + 1 BY <1>2, <2>1
    <3>3. n < 24 => ~(n + 0 >= 32) /\ ~(n + 1 >= 32) OBVIOUS
    <3> QED BY <1>7, <2>1, <3>1, <3>2, <3>3
  <2>4. TextLen(text) = n + 9 BY <1>2, <2>1, <2>3
  <2>5. n < 24 /\ n + 9 >= 32 => n + 9 = 32 OBVIOUS
  <2> QED BY <1>2, <1>7, <2>1, <2>2, <2>3, <2>4, <2>5
<1>8. CASE Canonical(t, braced) /\ u = [k \in 1..32 |-> t[Place(k)]]
  <2>1. /\ u \in UUIDs
        /\ \/ t = TextOf(u) /\ t[Len(t)] # CloseBrace
           \/ t = TextOf(u) \o <<CloseBrace>> /\ braced
        /\ t # <<>>
    BY <1>1, <1>8, BodyIsText
  <2> DEFINE w == TextOf(u)
             brace == <<CloseBrace>>
  <2>2. w \in Seq(Chars) BY <2>1, TextOfType
  <2>3. brace \in Seq(Chars) /\ lead \in Seq(Chars)
    <3>1. CloseBrace \in Chars /\ OpenBrace \in Chars /\ "urn" \in Chars BY DEF Chars
    <3>2. brace \in Seq(Chars) BY <3>1
    <3>3. <<>> \in Seq(Chars) /\ <<OpenBrace>> \in Seq(Chars) /\ <<"urn">> \in Seq(Chars) BY <3>1
    <3> QED BY <3>2, <3>3 DEF Leads
  <2> HIDE DEF w, brace
  <2>4. t = w \/ t = w \o brace BY <2>1 DEF w, brace
  <2>5. lead \o t = lead \o w \o <<>> \/ lead \o t = lead \o w \o brace
    <3>1. \A a, b, c \in Seq(Chars) : (a \o b) \o c = a \o (b \o c) BY ConcatAssociative
    <3>2. \A a \in Seq(Chars) : a \o <<>> = a BY ConcatEmptySeq
    <3>3. lead \o w \in Seq(Chars) BY <2>2, <2>3, ConcatProperties
    <3>4. CASE t = w
      <4>1. (lead \o w) \o <<>> = lead \o w BY <3>2, <3>3
      <4> QED BY <3>4, <4>1
    <3>5. CASE t = w \o brace
      <4>1. (lead \o w) \o brace = lead \o (w \o brace) BY <2>2, <2>3, <3>1
      <4> QED BY <3>5, <4>1
    <3> QED BY <2>4, <3>4, <3>5
  <2>6. \E l \in Leads, tail \in {<<>>, brace} : text = l \o w \o tail
    <3>1. \E tail \in {<<>>, brace} : text = lead \o w \o tail BY <1>2, <2>5
    <3> QED BY <3>1
  <2>7. u # <<Panics>> /\ u # <<Refused>>
    <3>1. DOMAIN u = 1..32 BY <2>1 DEF UUIDs
    <3>2. DOMAIN <<Panics>> = 1..1 /\ DOMAIN <<Refused>> = 1..1 OBVIOUS
    <3>3. 2 \in 1..32 /\ 2 \notin 1..1 OBVIOUS
    <3> QED BY <3>1, <3>2, <3>3
  <2>8. ASSUME Last(text) = CloseBrace, ~braced PROVE FALSE
    <3>1. t[Len(t)] # CloseBrace BY <2>1, <2>8
    <3>2. text[Len(text)] = t[Len(t)]
      <4>1. CASE lead = <<>> BY <1>2, <4>1
      <4>2. CASE lead # <<>>
        <5>1. PICK n \in Nat : n = Len(t) BY <1>1
        <5>2. n # 0 BY <1>1, <2>1, <5>1
        <5>3. Len(lead) = 1 BY <4>2 DEF Leads
        <5>4. \A i \in 1..(1 + n) : (lead \o t)[i] = IF i <= 1 THEN lead[i] ELSE t[i - 1]
          <6>1. \A i \in 1..(Len(lead) + Len(t)) :
                  (lead \o t)[i] = IF i <= Len(lead) THEN lead[i] ELSE t[i - Len(lead)]
            BY <1>1, <2>3, ConcatProperties
          <6> QED BY <5>1, <5>3, <6>1
        <5>5. n + 1 \in 1..(1 + n) /\ ~(n + 1 <= 1) /\ (n + 1) - 1 = n BY <5>2
        <5>6. text[n + 1] = t[n] BY <1>2, <5>4, <5>5
        <5> QED BY <1>2, <4>2, <5>1, <5>6
      <4> QED BY <4>1, <4>2
    <3> QED BY <2>8, <3>1, <3>2 DEF Last
  <2>9. Last(text) = CloseBrace => text[1] = OpenBrace
    <3>1. CASE braced BY <1>4, <3>1
    <3>2. CASE ~braced BY <2>8, <3>2
    <3> QED BY <3>1, <3>2
  <2> QED BY <2>1, <2>6, <2>7, <2>9 DEF w, brace
<1> QED BY <1>5, <1>6, <1>7, <1>8

\* What UnmarshalText and Scan read is what String wrote, for every UUID and
\* every edit of its text.
LEMMA TextsRead == TextsAreRead
<1>1. ASSUME NEW u \in SampleUUIDs
      PROVE  /\ \A lead \in Leads : UnmarshalText(lead \o TextOf(u)) = u
             /\ NullScanUUID([kind |-> "text", data |-> <<OpenBrace>> \o TextOf(u) \o <<CloseBrace>>]).UUID = u
             /\ NullScanUUID([kind |-> "bytes", data |-> u]).UUID = u
             /\ ~NullScanUUID([kind |-> "nil"]).Valid
  <2>1. u \in UUIDs BY IdAssumption DEF IdAssumption, UUIDs
  <2> QED BY <2>1, Scanned, SmallTextsAreRead
<1>2. ASSUME NEW t \in Texts, NEW u, u = UnmarshalText(t)
      PROVE  IF u = <<Panics>> THEN TextLen(t) = 32 /\ t[1] = "urn"
             ELSE u # <<Refused>> =>
                    /\ \E lead \in Leads, tail \in {<<>>, <<CloseBrace>>} :
                         Lowered(t) = lead \o TextOf(u) \o tail
                    /\ Last(t) = CloseBrace => t[1] = OpenBrace
  <2> DEFINE l == Lowered(t)
  <2>1. t \in Seq(AnyChars) BY TextsAreTexts
  <2>2. /\ l \in Seq(Chars) /\ Len(l) = Len(t)
        /\ l = <<>> <=> t = <<>>
        /\ t # <<>> =>
             \A d \in {OpenBrace, CloseBrace, "urn"} :
               (l[1] = d <=> t[1] = d) /\ (Last(l) = d <=> Last(t) = d)
    BY <2>1, LoweredIs
  <2>3. u = ReadText(l) BY <1>2 DEF UnmarshalText
  <2> HIDE DEF l
  <2>4. /\ u = <<Panics>> => TextLen(l) = 32 /\ l[1] = "urn"
        /\ u # <<Panics>> /\ u # <<Refused>> =>
             /\ u \in UUIDs
             /\ \E lead \in Leads, tail \in {<<>>, <<CloseBrace>>} : l = lead \o TextOf(u) \o tail
             /\ Last(l) = CloseBrace => l[1] = OpenBrace
    BY <2>2, <2>3, TextsReadAreWritten
  <2>5. t # <<>> \/ u = <<Refused>>
    <3> SUFFICES ASSUME t = <<>> PROVE u = <<Refused>> OBVIOUS
    <3>1. l = <<>> BY <2>2
    <3>2. TextLen(l) = 0 BY <3>1 DEF TextLen
    <3>3. 0 < 32 OBVIOUS
    <3> QED BY <2>3, <3>2, <3>3 DEF ReadText
  <2>6. TextLen(l) = TextLen(t) BY <2>2 DEF TextLen
  <2>7. <<Panics>> # <<Refused>>
    <3>1. <<Panics>>[1] = Panics /\ <<Refused>>[1] = Refused OBVIOUS
    <3> QED BY <3>1, Letters
  <2>8. CASE u = <<Panics>> BY <2>2, <2>4, <2>5, <2>6, <2>7, <2>8
  <2>9. CASE u # <<Panics>> /\ u # <<Refused>>
    <3>1. \E lead \in Leads, tail \in {<<>>, <<CloseBrace>>} : l = lead \o TextOf(u) \o tail
      BY <2>4, <2>9
    <3>2. Last(t) = CloseBrace => t[1] = OpenBrace BY <2>2, <2>4, <2>5, <2>9
    <3> QED BY <2>9, <3>1, <3>2 DEF l
  <2> QED BY <2>8, <2>9
<1> QED BY <1>1, <1>2 DEF TextsAreRead

\* Every id is read back as it was written (uuid.go, base62.go, common/msg.go and
\* config.go), for every set of UUIDs, uids and every hash of them.
THEOREM IdsReadBack == UuidSpec => []IdsAreReadBack
<1>1. IdsAreReadBack BY StampsRead, TextsRead, Base62Kept, PairsShare DEF IdsAreReadBack
<1> QED BY <1>1, PTL
============================================================================
