----------------------------- MODULE IMClient -----------------------------
(***************************************************************************)
(* config/msg.go, stream.go over pkg/network: the calls a goroutine of the  *)
(* server makes to the IM gateway, and what each method makes of the       *)
(* answer.                                                                 *)
(*                                                                         *)
(* A call is one HTTP request, sent once.  It may be lost, its answer may  *)
(* be lost, and it may be executed after the caller was told that the      *)
(* connection broke.  The gateway, which is another program, executes a    *)
(* request, refuses it (400) or breaks down, before or after it (500).     *)
(***************************************************************************)
EXTENDS IMMessages, FiniteSets, Bags

CONSTANTS
    Callers,    \* goroutines of the server
    Rosters,    \* the member lists they pass (sequences of users)
    UidSets,    \* the uid lists they pass, as sets
    Explored,   \* the requests they make (a model bound)
    MaxCalls,   \* how many calls they make together (a model bound)
    Test        \* Config.Test

VARIABLES
    gw,         \* what the gateway holds
    net,        \* requests sent and not executed, a bag of [id, req]
    wire,       \* answers on their way: [id, status, body]
    cur,        \* the number of each caller's call, or 0
    calls,      \* every call made: its request, how it returned, executions
    asked,      \* what the gateway would hold if each call did what it returned
    sure        \* no call has left its caller in doubt, and none overlapped

vars == <<gw, net, wire, cur, calls, asked, sure>>

----------------------------------------------------------------------------
(* Requests: the path, how the answer is handled, users, a message.        *)

NoMsg == Message("none", Header(0, 0, 0), <<>>, <<>>)
Request(path, how, uids) == [path |-> path, how |-> how, uids |-> uids, msg |-> NoMsg]
ForUids(paths, how) == {Request(p, how, uids) : p \in paths, uids \in UidSets}
ForUsers(paths, how) == {Request(p, how, {u}) : p \in paths, u \in Users}
Sending(msgs) == {[Request("message/send", "message", {}) EXCEPT !.msg = m] : m \in msgs}

UpdateIMToken == ForUsers({"user/token"}, "fetch")
QuitUserDevice == ForUsers({"user/device_quit"}, "status")
SendMessageBatch ==
    {[Request("message/sendbatch", "message", {}) EXCEPT
        !.msg = [Notice("tip", <<>>, <<>>) EXCEPT !.subscribers = uids]] :
        uids \in UidSets \ {{}}}
ChannelAndSystemUids ==
    {Request("channel/info", "checked", {})}
    \cup ForUids({"user/systemuids_add", "user/systemuids_remove", "channel"}, "checked")
Blacklist == ForUids({"channel/blacklist_add", "channel/blacklist_set",
                      "channel/blacklist_remove"}, "checked")
Whitelist == ForUids({"channel/whitelist_add", "channel/whitelist_set",
                      "channel/whitelist_remove"}, "checked")
\* Adding subscribers with Reset = 1 replaces them.
AddSubscriber == ForUids({"channel/subscriber_add", "channel/subscriber_reset"}, "status")
RemoveSubscriber == ForUids({"channel/subscriber_remove"}, "checked")
GetConversations == ForUsers({"conversations"}, "fetch")
ClearConversationUnread == ForUsers({"conversations/setUnread"}, "swallow")
DeleteConversation == ForUsers({"conversations/delete"}, "swallow")
SyncMessages ==
    {Request(p, "fetch", {}) : p \in {"conversation/sync", "channel/max_message_seq",
                                      "messages", "channel/messagesync", "message/sync"}}
AckAndRevoke == {Request(p, "checked", {}) : p \in {"message/syncack", "message/revoke"}}
DelChannel == {Request("channel/delete", "checked", {})}
SearchMessages == {Request(p, "fetch", {}) : p \in {"usersearch", "messages"}}
OnlineStatus == ForUids({"user/onlinestatus"}, IF Test THEN "nothing" ELSE "fetch")
StreamStart == {Request("streammessage/start", "stream", {})}
StreamEnd == {Request("streammessage/end", "checked", {})}

\* Who has been removed from a group is told, if there is anybody to tell.
BeRemoved ==
    {[Request("message/send", IF BeRemoveSends(r) THEN "message" ELSE "nothing", {}) EXCEPT
        !.msg = SendGroupMemberBeRemove(u, r)] : u \in Users, r \in Rosters}

Senders ==
    Sending({SendFriendApply(u) : u \in Users} \cup {SendFriendSure(u) : u \in Users}
       \cup {SendRTCCallResult(u) : u \in Users} \cup {SendFriendDelete(u) : u \in Users}
       \cup {SendGroupCreate(u, r) : u \in Users, r \in Rosters}
       \cup {SendUnableAddDestoryAccountInGroup(u, r) : u \in Users, r \in Rosters}
       \cup {SendGroupUpdate(u) : u \in Users} \cup {SendGroupMemberAdd(r) : r \in Rosters}
       \cup {SendGroupUpgrade} \cup {SendGroupMemberRemove(r) : r \in Rosters}
       \cup {SendGroupMemberScanJoin(u, v) : u \in Users, v \in Users}
       \cup {SendGroupTransferGrouper(u) : u \in Users}
       \cup {SendGroupMemberInviteReq(u, uids) : u \in Users, uids \in UidSets}
       \cup {SendGroupExit(u, uids) : u \in Users, uids \in UidSets}
       \cup {SendCMD(uids) : uids \in UidSets}
       \cup {SendRevoke, SendTyping, SendGroupMemberUpdate, SendChannelUpdateToGroup}
       \cup {SendChannelUpdateToUser(u) : u \in Users})

Requests == UNION {UpdateIMToken, QuitUserDevice, SendMessageBatch, ChannelAndSystemUids,
                   Blacklist, Whitelist, AddSubscriber, RemoveSubscriber, GetConversations,
                   ClearConversationUnread, DeleteConversation, SyncMessages, AckAndRevoke,
                   DelChannel, SearchMessages, OnlineStatus, StreamStart, StreamEnd,
                   BeRemoved, Senders}

ASSUME IMClientAssumption ==
    /\ IsFiniteSet(Callers) /\ MaxCalls \in Nat /\ Test \in BOOLEAN
    /\ Rosters \subseteq Seq(Users) /\ UidSets \subseteq SUBSET Users
    /\ Explored \subseteq Requests

----------------------------------------------------------------------------
(* The gateway.                                                            *)

ListPaths ==
    [subscribers |-> {"channel/subscriber_add", "channel/subscriber_reset",
                      "channel/subscriber_remove", "channel"},
     blacklist |-> {"channel/blacklist_add", "channel/blacklist_set",
                    "channel/blacklist_remove"},
     whitelist |-> {"channel/whitelist_add", "channel/whitelist_set",
                    "channel/whitelist_remove"},
     systemuids |-> {"user/systemuids_add", "user/systemuids_remove"}]
Lists == DOMAIN ListPaths
Adding == {"channel/subscriber_add", "channel/blacklist_add", "channel/whitelist_add",
           "user/systemuids_add"}
Removing == {"channel/subscriber_remove", "channel/blacklist_remove",
             "channel/whitelist_remove", "user/systemuids_remove"}

Deliver(g, m) ==
    LET to == IF m.subscribers # {} THEN m.subscribers
              ELSE IF m.group THEN g.list["subscribers"] ELSE m.person
        keep == IF SettingFromUint8(m.setting).noUpdateConversation THEN {} ELSE to
    IN  [g EXCEPT !.conversations = @ \cup keep,
                  !.unread = @ \cup IF m.header.redDot = 1 THEN to ELSE {},
                  !.log = @ \cup {[msg |-> m, to |-> to, kept |-> keep,
                                   stored |-> m.header.noPersist = 0]}]

Changed(old, r) == IF r.path \in Adding THEN old \cup r.uids
                   ELSE IF r.path \in Removing THEN old \ r.uids ELSE r.uids

Effect(g, r) ==
    CASE r.path \in UNION {ListPaths[l] : l \in Lists} ->
           [g EXCEPT !.list = [l \in Lists |-> IF r.path \in ListPaths[l]
                                               THEN Changed(@[l], r) ELSE @[l]]]
      [] r.path = "channel/delete" ->
           [g EXCEPT !.list = [l \in Lists |-> IF l = "systemuids" THEN @[l] ELSE {}]]
      [] r.path = "conversations/setUnread" -> [g EXCEPT !.unread = @ \ r.uids]
      [] r.path = "conversations/delete" -> [g EXCEPT !.conversations = @ \ r.uids]
      [] r.path \in {"message/send", "message/sendbatch"} -> Deliver(g, r.msg)
      [] r.path \in {"user/token", "user/device_quit", "channel/info", "message/syncack",
                     "message/revoke", "streammessage/start", "streammessage/end"} ->
           [g EXCEPT !.marks = @ \cup {<<r.path, r.uids>>}]
      [] OTHER -> g

\* The group has its members; nothing else has happened.
Empty == [list |-> [l \in Lists |-> IF l = "subscribers" THEN Users ELSE {}],
          conversations |-> {}, unread |-> {}, log |-> {}, marks |-> {}]

Init == /\ gw = Empty /\ asked = Empty
        /\ net = EmptyBag /\ wire = {}
        /\ cur = [c \in Callers |-> 0]
        /\ calls = <<>>
        /\ sure = TRUE

----------------------------------------------------------------------------
(* A call.                                                                 *)

\* network.Post and network.Get, over rest.API: one request, one attempt.
PostTwice(m) == net' = net (+) SetToBag({m}) (+) SetToBag({m})
Post(m) == net' = net (+) SetToBag({m})

Idle(c) == cur[c] = 0

Call(c, r) ==
    /\ Idle(c) /\ Len(calls) < MaxCalls
    /\ r.how # "nothing"
    /\ cur' = [cur EXCEPT ![c] = Len(calls) + 1]
    /\ calls' = Append(calls, [req |-> r, res |-> "open", done |-> 0])
    /\ Post([id |-> Len(calls) + 1, req |-> r])
    /\ sure' = (sure /\ \A d \in Callers : Idle(d))
    /\ UNCHANGED <<gw, wire, asked>>

\* A method that finds nothing to do sends nothing.
ReturnEarly(c, r) ==
    /\ Idle(c) /\ Len(calls) < MaxCalls
    /\ r.how = "nothing"
    /\ calls' = Append(calls, [req |-> r, res |-> "ok", done |-> 0])
    /\ UNCHANGED <<gw, net, wire, cur, asked, sure>>

\* An answer goes nowhere when its caller has been told that the connection broke.
Reply(i, answers) ==
    IF \E c \in Callers : cur[c] = i
    THEN \E a \in answers : wire' = wire \cup {[id |-> i, status |-> a[1], body |-> a[2]]}
    ELSE UNCHANGED wire

\* The body of a 200 is the gateway's; an empty result, or a proxy in between,
\* makes it something else, for the methods that look at it.
Bodies(how) == IF how \in {"fetch", "stream"} THEN {"data", "null", "garbage"} ELSE {"data"}

Execute(m) ==
    /\ BagIn(m, net)
    /\ net' = net (-) SetToBag({m})
    /\ gw' = Effect(gw, m.req)
    /\ calls' = [calls EXCEPT ![m.id].done = @ + 1]
    /\ Reply(m.id, ({200} \X Bodies(m.req.how)) \cup {<<500, "null">>})
    /\ UNCHANGED <<cur, asked, sure>>

Refuse(m) ==
    /\ BagIn(m, net)
    /\ net' = net (-) SetToBag({m})
    /\ Reply(m.id, {<<400, "null">>, <<500, "null">>})
    /\ UNCHANGED <<gw, cur, calls, asked, sure>>

\* What the methods make of an answer.  The bodies of a 400 only change the
\* wording of the error.
handlerIMError(a) == a.status # 200
StatusErrorNone(a) == FALSE
StatusError(a) == a.status # 200

Decoded(a) == IF a.body = "garbage" THEN "error" ELSE "ok"
\* IMStreamStart tells a nil result apart, and asserts the type of stream_no.
StreamDecoded(a) == CASE a.body = "data" -> "ok" [] a.body = "null" -> "error"
                      [] OTHER -> "panic"

Result(how, a) ==
    CASE how = "status"                        -> IF StatusError(a) THEN "error" ELSE "ok"
      [] how \in {"checked", "message", "swallow"} -> IF handlerIMError(a) THEN "error" ELSE "ok"
      [] how = "fetch"  -> IF handlerIMError(a) THEN "error" ELSE Decoded(a)
      [] how = "stream" -> IF handlerIMError(a) THEN "error" ELSE StreamDecoded(a)

\* A broken connection: reported, but for two methods that return nil.
Broken(how) == IF how = "swallow" THEN "ok" ELSE "error"

\* certain: the caller knows whether its request was executed.
Finish(c, res, certain) ==
    LET i == cur[c]
        r == calls[i].req
    IN  /\ cur' = [cur EXCEPT ![c] = 0]
        /\ calls' = [calls EXCEPT ![i].res = res]
        /\ wire' = {a \in wire : a.id # i}
        /\ asked' = IF res = "ok" THEN Effect(asked, r) ELSE asked
        /\ sure' = (sure /\ certain)

Answer(c) ==
    /\ ~Idle(c)
    /\ \E a \in wire :
          /\ a.id = cur[c]
          /\ LET res == Result(calls[a.id].req.how, a)
             IN  Finish(c, res, res = "ok" \/ a.status = 400)
    /\ UNCHANGED <<gw, net>>

Disconnect(c) ==
    /\ ~Idle(c)
    /\ LET how == calls[cur[c]].req.how
       IN  Finish(c, Broken(how), FALSE)
    /\ UNCHANGED <<gw, net>>

Terminating == /\ Len(calls) = MaxCalls /\ \A c \in Callers : Idle(c)
               /\ net = EmptyBag
               /\ UNCHANGED vars

Next == \/ \E c \in Callers : \/ \E r \in Explored : Call(c, r) \/ ReturnEarly(c, r)
                            \/ Answer(c) \/ Disconnect(c)
        \/ \E m \in BagToSet(net) : Execute(m) \/ Refuse(m)
        \/ Terminating

Spec == Init /\ [][Next]_vars

----------------------------------------------------------------------------
(* Properties.                                                             *)

\* A method that returns without an error has had its request executed, once,
\* unless it found nothing to send; no request is ever executed twice.  The two
\* methods that return nil when the connection breaks promise only the latter.
SuccessMeansDone ==
    \A i \in DOMAIN calls :
        /\ calls[i].done <= 1
        /\ calls[i].res = "ok" => \/ calls[i].done = 1
                                  \/ calls[i].req.how \in {"swallow", "nothing"}

\* As long as every call returned before the next began, and none returned an
\* error other than the gateway's refusal (a 400), the gateway holds exactly
\* what the calls that succeeded asked for, in their order: what a refusal
\* leaves undone, what Set and Reset replace, what a removal takes back.
GatewayFollowsAnswers ==
    (sure /\ \A c \in Callers : Idle(c)) => gw = asked

\* Only those who were removed from a group are told so, in whatever order the
\* members change and the notice arrives: a notice that named nobody would go
\* to the whole group.
RemovedNoticeIsPrivate ==
    \A d \in gw.log : d.msg.type = "groupMemberBeRemove" => d.to \subseteq d.msg.visibles

\* The text of every message that is delivered has one hole for each user it
\* names and no other, so that no reader sees an unfilled {i}.
HolesAreFilled ==
    \A d \in gw.log : Range(d.msg.holes) = {i - 1 : i \in DOMAIN d.msg.extra}
============================================================================
