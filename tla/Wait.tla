------------------------------- MODULE Wait --------------------------------
(***************************************************************************)
(* pkg/wait: a goroutine registers an id and gets a channel, another        *)
(* triggers the id with a value.  The table is locked for the lookup only;  *)
(* the value is sent, and the channel closed, after the unlock.             *)
(*                                                                         *)
(* A waiter may stop waiting (a timeout in its select): nothing removes its *)
(* id then, and a Register of the same id panics.  The 64 lists the ids are *)
(* spread over are one table here: they share no state, and an id is always *)
(* in the same list.                                                       *)
(***************************************************************************)
EXTENDS Naturals, Sequences

CONSTANTS Waiters, Triggers, Ids

ASSUME NoneIsNoTrigger == "none" \notin Triggers

VARIABLES
    registered, \* [id -> the number of a channel, or 0]
    channels,   \* every channel made: its id, its buffer and whether it is closed
    waiter,     \* [waiter -> what it does, its channel, the value it got]
    trigger,    \* [trigger -> what it does, its id, the channel it found]
    dropped     \* the triggers that found nobody

waitVars == <<registered, channels, waiter, trigger, dropped>>

WaitInit ==
    /\ registered = [i \in Ids |-> 0]
    /\ channels = <<>>
    /\ waiter = [w \in Waiters |-> [pc |-> "idle", ch |-> 0, got |-> "none"]]
    /\ trigger \in [Triggers -> {[pc |-> "idle", id |-> i, ch |-> 0] : i \in Ids}]
    /\ dropped = {}

Register(w, i) ==
    /\ waiter[w].pc = "idle"
    /\ IF registered[i] # 0
       THEN /\ waiter' = [waiter EXCEPT ![w].pc = "panicked"]     \* dup id
            /\ UNCHANGED <<registered, channels>>
       ELSE /\ channels' = Append(channels, [id |-> i, buffer |-> <<>>, closed |-> FALSE])
            /\ registered' = [registered EXCEPT ![i] = Len(channels')]
            /\ waiter' = [waiter EXCEPT ![w] = [@ EXCEPT !.pc = "waiting", !.ch = Len(channels')]]
    /\ UNCHANGED <<trigger, dropped>>

Receive(w) ==
    /\ waiter[w].pc = "waiting"
    /\ LET c == waiter[w].ch IN
       /\ channels[c].buffer # <<>>
       /\ waiter' = [waiter EXCEPT ![w] = [@ EXCEPT !.pc = "done", !.got = Head(channels[c].buffer)]]
       /\ channels' = [channels EXCEPT ![c].buffer = Tail(@)]
    /\ UNCHANGED <<registered, trigger, dropped>>

GiveUp(w) ==
    /\ waiter[w].pc = "waiting"
    /\ waiter' = [waiter EXCEPT ![w].pc = "done"]
    /\ UNCHANGED <<registered, channels, trigger, dropped>>

\* The lookup and the delete, under the lock.
TakeKept(i) == registered
Take(i) == [registered EXCEPT ![i] = 0]

Lookup(t) ==
    /\ trigger[t].pc = "idle"
    /\ LET i == trigger[t].id
           found == registered[i] # 0 IN
       /\ trigger' = [trigger EXCEPT ![t] =
            [@ EXCEPT !.pc = IF found THEN "send" ELSE "done", !.ch = registered[i]]]
       /\ dropped' = IF found THEN dropped ELSE dropped \cup {t}
       /\ registered' = Take(i)
    /\ UNCHANGED <<channels, waiter>>

\* The channel holds one value; a send on a closed channel would panic.
Send(t) ==
    /\ trigger[t].pc = "send"
    /\ channels[trigger[t].ch].buffer = <<>>
    /\ channels' = [channels EXCEPT ![trigger[t].ch].buffer = <<t>>]
    /\ trigger' = [trigger EXCEPT ![t].pc = "close"]
    /\ UNCHANGED <<registered, waiter, dropped>>

CloseChannel(t) ==
    /\ trigger[t].pc = "close"
    /\ channels' = [channels EXCEPT ![trigger[t].ch].closed = TRUE]
    /\ trigger' = [trigger EXCEPT ![t].pc = "done"]
    /\ UNCHANGED <<registered, waiter, dropped>>

IsRegistered(i) == registered[i] # 0

WaitNext ==
    \/ \E w \in Waiters : (\E i \in Ids : Register(w, i)) \/ Receive(w) \/ GiveUp(w)
    \/ \E t \in Triggers : Lookup(t) \/ Send(t) \/ CloseChannel(t)

WaitSpec == WaitInit /\ [][WaitNext]_waitVars

\* The one answer a registration gets is a trigger's of its id, a trigger in
\* flight finds the channel empty and open, and an id whose trigger is on its
\* way can be registered again without the two answers being mixed up (the
\* send and the close happen outside the lock in Trigger).
AnswersReachTheirWaiter ==
    /\ \A t \in Triggers : trigger[t].pc \in {"send", "close"} =>
         /\ ~channels[trigger[t].ch].closed
         /\ trigger[t].pc = "send" => channels[trigger[t].ch].buffer = <<>>
         /\ \A u \in Triggers \ {t} : trigger[u].ch # trigger[t].ch
         /\ IsRegistered(trigger[t].id) => registered[trigger[t].id] # trigger[t].ch
    /\ \A w \in Waiters : waiter[w].got # "none" =>
         trigger[waiter[w].got].ch = waiter[w].ch
           /\ trigger[waiter[w].got].id = channels[waiter[w].ch].id
============================================================================
