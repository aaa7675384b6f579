--------------------------- MODULE IMClientProofs --------------------------
(***************************************************************************)
(* Proofs about IMClient for any users, callers, rosters and requests.     *)
(*                                                                         *)
(* A request is in one place: on its way, or executed or refused; it has   *)
(* one number, and is never sent again.  So an answer of 200 says that its *)
(* request was executed, once, and a method that returns without an error  *)
(* either saw one or is one of those that swallow a broken connection.     *)
(*                                                                         *)
(* While no caller was left in doubt, whatever is on the network belongs   *)
(* to the only call that is open: the gateway then holds what the calls    *)
(* before it asked for, and once it is answered with 200, what it asked    *)
(* for as well.                                                            *)
(***************************************************************************)
EXTENDS IMClient, SequenceTheorems, TLAPS

Hows == {"fetch", "status", "message", "checked", "swallow", "nothing", "stream"}

----------------------------------------------------------------------------
(* The requests (config/msg.go, stream.go).                                *)

\* What the gateway and the readers need of a message, however it is built: users where
\* users belong, one hole for each user named, and those removed told alone.
GoodMessage(m) ==
    /\ m.subscribers \subseteq Users /\ m.person \subseteq Users
    /\ Range(m.holes) = {i - 1 : i \in DOMAIN m.extra}

GoodRequest(r) ==
    /\ r = [path |-> r.path, how |-> r.how, uids |-> r.uids, msg |-> r.msg]
    /\ r.how \in Hows /\ r.uids \subseteq Users /\ GoodMessage(r.msg)
    /\ r.msg.type = "groupMemberBeRemove" /\ r.how # "nothing" =>
          r.msg.subscribers # {} /\ r.msg.visibles = r.msg.subscribers

\* A message that goes to everybody in the group, or to one person.
LEMMA PlainMessages ==
    ASSUME NEW type, NEW header, NEW holes, NEW extra,
           Range(holes) = {i - 1 : i \in DOMAIN extra}
    PROVE  /\ GoodMessage(Message(type, header, holes, extra))
           /\ Message(type, header, holes, extra).type = type
           /\ \A u \in Users : /\ GoodMessage(ToPerson(u, Message(type, header, holes, extra)))
                               /\ ToPerson(u, Message(type, header, holes, extra)).type = type
BY DEF GoodMessage, Message, ToPerson

\* As many holes as users: none, one, two, or one for each.
LEMMA HolesFit ==
    /\ Range(<<>>) = {i - 1 : i \in DOMAIN <<>>}
    /\ \A u : Range(<<0>>) = {i - 1 : i \in DOMAIN <<u>>}
    /\ \A u, v : Range(<<0, 1>>) = {i - 1 : i \in DOMAIN <<u, v>>}
    /\ \A s : Range(Numbered(s)) = {i - 1 : i \in DOMAIN s}
<1>1. ASSUME NEW s PROVE Range(Numbered(s)) = {i - 1 : i \in DOMAIN s}
  BY DEF Range, Numbered
<1>2. Range(<<>>) = {i - 1 : i \in DOMAIN <<>>}
  BY DEF Range
<1>3. ASSUME NEW u PROVE Range(<<0>>) = {i - 1 : i \in DOMAIN <<u>>}
  <2>1. Range(<<0>>) = {0}
    BY DEF Range
  <2>2. {i - 1 : i \in DOMAIN <<u>>} = {0}
    OBVIOUS
  <2>. QED BY <2>1, <2>2
<1>4. ASSUME NEW u, NEW v PROVE Range(<<0, 1>>) = {i - 1 : i \in DOMAIN <<u, v>>}
  <2>1. Range(<<0, 1>>) = {0, 1}
    BY DEF Range
  <2>2. {i - 1 : i \in DOMAIN <<u, v>>} = {0, 1}
    OBVIOUS
  <2>. QED BY <2>1, <2>2
<1>. QED BY <1>1, <1>2, <1>3, <1>4

\* A message of another type than the notice to those removed.
Ordinary(m) == GoodMessage(m) /\ m.type # "groupMemberBeRemove"

\* An edit of a message that leaves its holes and the users it names alone.
LEMMA EditedMessages ==
    ASSUME NEW type, NEW holes, NEW extra, Ordinary(Notice(type, holes, extra))
    PROVE  /\ Ordinary([Notice(type, holes, extra) EXCEPT !.type = "tip"])
           /\ \A uids \in SUBSET Users :
                 /\ Ordinary([Notice(type, holes, extra) EXCEPT !.visibles = uids])
                 /\ Ordinary([Notice(type, holes, extra) EXCEPT !.subscribers = uids])
BY DEF Ordinary, GoodMessage, Notice, Message

LEMMA CommandsAreOrdinary ==
    ASSUME NEW uids \in SUBSET Users
    PROVE  /\ Ordinary(SendCMD(uids))
           /\ \A u \in Users : Ordinary(ToPerson(u, SendCMD(uids)))
<1>1. GoodMessage(Message("cmd", Header(1, 0, 1), <<>>, <<>>))
  BY HolesFit, PlainMessages
<1>. QED BY <1>1 DEF Ordinary, GoodMessage, SendCMD, Message, ToPerson

\* What the senders build, for one person or a group.
LEMMA SendersAreOrdinary ==
    /\ \A u \in Users :
          /\ Ordinary(SendFriendApply(u)) /\ Ordinary(SendFriendSure(u))
          /\ Ordinary(SendRTCCallResult(u)) /\ Ordinary(SendFriendDelete(u))
          /\ Ordinary(SendGroupUpdate(u)) /\ Ordinary(SendGroupTransferGrouper(u))
          /\ Ordinary(SendChannelUpdateToUser(u))
    /\ \A u \in Users, v \in Users : Ordinary(SendGroupMemberScanJoin(u, v))
    /\ \A u \in Users : \A s :
          Ordinary(SendGroupCreate(u, s)) /\ Ordinary(SendUnableAddDestoryAccountInGroup(u, s))
    /\ \A s : Ordinary(SendGroupMemberAdd(s)) /\ Ordinary(SendGroupMemberRemove(s))
    /\ \A u \in Users, uids \in SUBSET Users :
          Ordinary(SendGroupMemberInviteReq(u, uids)) /\ Ordinary(SendGroupExit(u, uids))
    /\ \A uids \in SUBSET Users : Ordinary(SendCMD(uids))
    /\ Ordinary(SendGroupUpgrade) /\ Ordinary(SendRevoke) /\ Ordinary(SendTyping)
    /\ Ordinary(SendGroupMemberUpdate) /\ Ordinary(SendChannelUpdateToGroup)
<1>1. ASSUME NEW type, NEW holes, NEW extra, Range(holes) = {i - 1 : i \in DOMAIN extra},
             type # "groupMemberBeRemove"
      PROVE  Ordinary(Notice(type, holes, extra))
  BY <1>1, PlainMessages DEF Ordinary, Notice
<1>2. \A u \in Users : /\ Ordinary(SendFriendApply(u)) /\ Ordinary(SendFriendSure(u))
                       /\ Ordinary(SendRTCCallResult(u))
  <2>. SUFFICES ASSUME NEW u \in Users
                PROVE  /\ Ordinary(SendFriendApply(u)) /\ Ordinary(SendFriendSure(u))
                       /\ Ordinary(SendRTCCallResult(u))
    OBVIOUS
  <2>1. /\ GoodMessage(ToPerson(u, Message("friendApply", Header(0, 0, 1), <<>>, <<>>)))
        /\ GoodMessage(ToPerson(u, Message("friendSure", Header(0, 0, 1), <<>>, <<>>)))
        /\ GoodMessage(ToPerson(u, Message("videoCallResult", Header(0, 1, 0), <<>>, <<>>)))
    BY HolesFit, PlainMessages
  <2>. QED BY <2>1 DEF Ordinary, SendFriendApply, SendFriendSure, SendRTCCallResult, Notice,
                       Message, ToPerson
<1>3. /\ \A uids \in SUBSET Users : Ordinary(SendCMD(uids))
      /\ Ordinary(SendRevoke) /\ Ordinary(SendTyping)
      /\ Ordinary(SendGroupMemberUpdate) /\ Ordinary(SendChannelUpdateToGroup)
      /\ \A u \in Users : Ordinary(SendChannelUpdateToUser(u)) /\ Ordinary(SendFriendDelete(u))
  <2>1. {} \in SUBSET Users
    OBVIOUS
  <2>. QED BY <2>1, CommandsAreOrdinary
           DEF SendRevoke, SendTyping, SendGroupMemberUpdate, SendChannelUpdateToGroup,
               SendChannelUpdateToUser, SendFriendDelete
<1>4. /\ \A u : /\ Ordinary(Notice("groupUpdate", <<0>>, <<u>>))
                /\ Ordinary(Notice("groupTransferGrouper", <<0>>, <<u>>))
                /\ Ordinary(Notice("groupMemberInvite", <<0>>, <<u>>))
                /\ Ordinary(Notice("groupMemberQuit", <<0>>, <<u>>))
      /\ \A u, v : Ordinary(Notice("groupMemberScanJoin", <<0, 1>>, <<u, v>>))
      /\ Ordinary(Notice("groupUpgrade", <<>>, <<>>))
  BY <1>1, HolesFit
<1>5. \A s : /\ Ordinary(Notice("groupCreate", Numbered(s), s))
             /\ Ordinary(Notice("groupMemberAdd", Numbered(s), s))
             /\ Ordinary(Notice("groupMemberRemove", Numbered(s), s))
  BY <1>1, HolesFit
<1>6. \A u, s : /\ Ordinary(SendGroupCreate(u, s))
                /\ Ordinary(SendUnableAddDestoryAccountInGroup(u, s))
  BY <1>5, EditedMessages DEF SendGroupCreate, SendUnableAddDestoryAccountInGroup
<1>7. \A u : \A uids \in SUBSET Users :
         Ordinary(SendGroupMemberInviteReq(u, uids)) /\ Ordinary(SendGroupExit(u, uids))
  BY <1>4, EditedMessages DEF SendGroupMemberInviteReq, SendGroupExit
<1>. QED BY <1>2, <1>3, <1>4, <1>5, <1>6, <1>7
         DEF SendGroupUpdate, SendGroupTransferGrouper, SendGroupMemberScanJoin,
             SendGroupUpgrade, SendGroupMemberAdd, SendGroupMemberRemove

\* Those removed are the only ones who are told, if there are any.
LEMMA RemovedAreTold ==
    ASSUME NEW u \in Users, NEW r \in Rosters
    PROVE  /\ GoodMessage(SendGroupMemberBeRemove(u, r))
           /\ SendGroupMemberBeRemove(u, r).visibles = Range(r)
           /\ SendGroupMemberBeRemove(u, r).subscribers = Range(r)
           /\ BeRemoveSends(r) => Range(r) # {}
<1>1. r \in Seq(Users)
  BY IMClientAssumption
<1>2. Range(r) \subseteq Users
  BY <1>1 DEF Range
<1>3. BeRemoveSends(r) => Range(r) # {}
  <2>. SUFFICES ASSUME Len(r) > 0 PROVE Range(r) # {}
    BY DEF BeRemoveSends
  <2>1. 1 \in DOMAIN r
    BY <1>1, LenProperties
  <2>. QED BY <2>1 DEF Range
<1>4. GoodMessage(Notice("groupMemberBeRemove", <<0>>, <<u>>))
  BY HolesFit, PlainMessages DEF Notice
<1>. QED BY <1>2, <1>3, <1>4 DEF SendGroupMemberBeRemove, GoodMessage, Notice, Message

AllGood(requests) == \A r \in requests : GoodRequest(r)

\* A request without a message.
LEMMA PlainRequests ==
    ASSUME NEW paths, NEW how \in Hows
    PROVE  /\ \A p : \A uids \in SUBSET Users : GoodRequest(Request(p, how, uids))
           /\ AllGood(ForUids(paths, how)) /\ AllGood(ForUsers(paths, how))
<1>1. GoodMessage(NoMsg) /\ NoMsg.type = "none"
  BY HolesFit, PlainMessages DEF NoMsg
<1>2. ASSUME NEW p, NEW uids \in SUBSET Users PROVE GoodRequest(Request(p, how, uids))
  BY <1>1 DEF GoodRequest, Request
<1>3. AllGood(ForUids(paths, how))
  <2>1. \A uids \in UidSets : uids \in SUBSET Users
    BY IMClientAssumption
  <2>. QED BY <1>2, <2>1 DEF ForUids, AllGood
<1>4. AllGood(ForUsers(paths, how))
  <2>1. ASSUME NEW p, NEW u \in Users PROVE GoodRequest(Request(p, how, {u}))
    <3>1. PICK uids \in SUBSET Users : uids = {u}
      OBVIOUS
    <3>. QED BY <1>2, <3>1
  <2>2. ASSUME NEW r \in ForUsers(paths, how) PROVE GoodRequest(r)
    <3>1. PICK p \in paths, u \in Users : r = Request(p, how, {u})
      BY DEF ForUsers
    <3>. QED BY <2>1, <3>1
  <2>. QED BY <2>2 DEF AllGood
<1>. QED BY <1>2, <1>3, <1>4

\* A request that delivers an ordinary message.
LEMMA SendingIsGood ==
    ASSUME NEW path, NEW m, Ordinary(m)
    PROVE  GoodRequest([Request(path, "message", {}) EXCEPT !.msg = m])
BY DEF GoodRequest, Request, Ordinary, Hows

\* The sets of requests without a message.
LEMMA SetsOfRequests ==
    /\ AllGood(UpdateIMToken) /\ AllGood(QuitUserDevice) /\ AllGood(ChannelAndSystemUids)
    /\ AllGood(Blacklist) /\ AllGood(Whitelist) /\ AllGood(AddSubscriber)
    /\ AllGood(RemoveSubscriber) /\ AllGood(GetConversations)
    /\ AllGood(ClearConversationUnread) /\ AllGood(DeleteConversation)
    /\ AllGood(SyncMessages) /\ AllGood(AckAndRevoke) /\ AllGood(DelChannel)
    /\ AllGood(SearchMessages) /\ AllGood(OnlineStatus) /\ AllGood(StreamStart)
    /\ AllGood(StreamEnd)
<1>1. /\ "fetch" \in Hows /\ "status" \in Hows /\ "checked" \in Hows /\ "swallow" \in Hows
      /\ "stream" \in Hows /\ "nothing" \in Hows
  BY DEF Hows
<1>2. \A p : \A how \in Hows : GoodRequest(Request(p, how, {}))
  <2>. SUFFICES ASSUME NEW p, NEW how \in Hows PROVE GoodRequest(Request(p, how, {}))
    OBVIOUS
  <2>1. {} \in SUBSET Users
    OBVIOUS
  <2>. QED BY <2>1, PlainRequests
<1>3. \A paths : \A how \in Hows : AllGood(ForUids(paths, how)) /\ AllGood(ForUsers(paths, how))
  BY PlainRequests
<1>4. \A requests, others : AllGood(requests \cup others) <=> AllGood(requests) /\ AllGood(others)
  BY DEF AllGood
<1>5. /\ AllGood(UpdateIMToken) /\ AllGood(QuitUserDevice) /\ AllGood(Blacklist)
      /\ AllGood(Whitelist) /\ AllGood(AddSubscriber) /\ AllGood(RemoveSubscriber)
      /\ AllGood(GetConversations) /\ AllGood(ClearConversationUnread)
      /\ AllGood(DeleteConversation)
  BY <1>1, <1>3 DEF UpdateIMToken, QuitUserDevice, Blacklist, Whitelist, AddSubscriber,
     RemoveSubscriber, GetConversations, ClearConversationUnread, DeleteConversation
<1>6. AllGood(ChannelAndSystemUids)
  <2>1. AllGood({Request("channel/info", "checked", {})})
    BY <1>1, <1>2 DEF AllGood
  <2>. QED BY <1>1, <1>3, <1>4, <2>1 DEF ChannelAndSystemUids
<1>7. /\ AllGood(SyncMessages) /\ AllGood(AckAndRevoke) /\ AllGood(DelChannel)
      /\ AllGood(SearchMessages) /\ AllGood(StreamStart) /\ AllGood(StreamEnd)
  <2>1. \A paths : \A how \in Hows : AllGood({Request(p, how, {}) : p \in paths})
    BY <1>2 DEF AllGood
  <2>2. \A p : \A how \in Hows : AllGood({Request(p, how, {})})
    BY <1>2 DEF AllGood
  <2>. QED BY <1>1, <2>1, <2>2
           DEF SyncMessages, AckAndRevoke, DelChannel, SearchMessages, StreamStart, StreamEnd
<1>8. AllGood(OnlineStatus)
  <2>1. PICK how \in Hows : how = IF Test THEN "nothing" ELSE "fetch"
    BY <1>1
  <2>2. OnlineStatus = ForUids({"user/onlinestatus"}, how)
    BY <2>1 DEF OnlineStatus
  <2>. QED BY <1>3, <2>2
<1>. QED BY <1>5, <1>6, <1>7, <1>8

\* The sets of requests with one.
LEMMA SetsOfMessages == AllGood(SendMessageBatch) /\ AllGood(BeRemoved) /\ AllGood(Senders)
<1>. USE IMClientAssumption
<1>1. ASSUME NEW r \in SendMessageBatch PROVE GoodRequest(r)
  <2>1. PICK uids \in UidSets :
           r = [Request("message/sendbatch", "message", {}) EXCEPT
                   !.msg = [Notice("tip", <<>>, <<>>) EXCEPT !.subscribers = uids]]
    BY <1>1 DEF SendMessageBatch
  <2>2. Ordinary(Notice("tip", <<>>, <<>>))
    BY HolesFit, PlainMessages DEF Ordinary, Notice
  <2>3. Ordinary([Notice("tip", <<>>, <<>>) EXCEPT !.subscribers = uids])
    BY <2>2, EditedMessages
  <2>. QED BY <2>1, <2>3, SendingIsGood
<1>2. ASSUME NEW r \in BeRemoved PROVE GoodRequest(r)
  <2>1. PICK u \in Users, members \in Rosters :
           r = [Request("message/send",
                        IF BeRemoveSends(members) THEN "message" ELSE "nothing", {}) EXCEPT
                   !.msg = SendGroupMemberBeRemove(u, members)]
    BY <1>2 DEF BeRemoved
  <2>2. PICK m : m = SendGroupMemberBeRemove(u, members)
    OBVIOUS
  <2>3. /\ GoodMessage(m) /\ m.visibles = m.subscribers
        /\ BeRemoveSends(members) => m.subscribers # {}
    BY <2>2, RemovedAreTold
  <2>4. PICK how : how = IF BeRemoveSends(members) THEN "message" ELSE "nothing"
    OBVIOUS
  <2>5. r = [Request("message/send", how, {}) EXCEPT !.msg = m]
    BY <2>1, <2>2, <2>4
  <2>6. how \in Hows /\ (how # "nothing" => m.subscribers # {})
    BY <2>3, <2>4 DEF Hows
  <2>. QED BY <2>3, <2>5, <2>6 DEF GoodRequest, Request
<1>3. ASSUME NEW r \in Senders PROVE GoodRequest(r)
  <2>1. PICK m :
           /\ r = [Request("message/send", "message", {}) EXCEPT !.msg = m]
           /\ \/ \E u \in Users :
                    m \in {SendFriendApply(u), SendFriendSure(u), SendRTCCallResult(u),
                           SendFriendDelete(u), SendGroupUpdate(u), SendGroupTransferGrouper(u),
                           SendChannelUpdateToUser(u)}
              \/ \E u \in Users, v \in Users : m = SendGroupMemberScanJoin(u, v)
              \/ \E u \in Users, s \in Rosters :
                    m \in {SendGroupCreate(u, s), SendUnableAddDestoryAccountInGroup(u, s)}
              \/ \E s \in Rosters : m \in {SendGroupMemberAdd(s), SendGroupMemberRemove(s)}
              \/ \E u \in Users, uids \in UidSets :
                    m \in {SendGroupMemberInviteReq(u, uids), SendGroupExit(u, uids)}
              \/ \E uids \in UidSets : m = SendCMD(uids)
              \/ m \in {SendGroupUpgrade, SendRevoke, SendTyping, SendGroupMemberUpdate,
                        SendChannelUpdateToGroup}
    BY <1>3 DEF Senders, Sending
  <2>2. \A uids \in UidSets : uids \in SUBSET Users
    BY IMClientAssumption
  <2>3. Ordinary(m)
    BY <2>1, <2>2, SendersAreOrdinary
  <2>. QED BY <2>1, <2>3, SendingIsGood
<1>. QED BY <1>1, <1>2, <1>3 DEF AllGood

\* Every request a goroutine makes.
LEMMA RequestsAreGood == \A r \in Explored : GoodRequest(r)
BY SetsOfRequests, SetsOfMessages, IMClientAssumption DEF Requests, AllGood

----------------------------------------------------------------------------
(* The inductive invariant.                                                *)

Paths == {r.path : r \in Explored}
Sent == {r.msg : r \in Explored}
Delivery == [msg: Sent, to: SUBSET Users, kept: SUBSET Users, stored: BOOLEAN]
Gateway == [list: [Lists -> SUBSET Users], conversations: SUBSET Users, unread: SUBSET Users,
            log: SUBSET Delivery, marks: SUBSET (Paths \X SUBSET Users)]
CallRecord == [req: Explored, res: {"open", "ok", "error", "panic"}, done: {0, 1}]
Answers(n) == [id: 1..n, status: {200, 400, 500}, body: {"data", "null", "garbage"}]

\* The requests that are on their way are there once.
TypeOK ==
    /\ gw \in Gateway /\ asked \in Gateway /\ sure \in BOOLEAN
    /\ calls \in Seq(CallRecord)
    /\ cur \in [Callers -> 0..Len(calls)]
    /\ DOMAIN net \subseteq [id: 1..Len(calls), req: Explored]
    /\ net \in [DOMAIN net -> {1}]
    /\ wire \subseteq Answers(Len(calls))

\* Each goroutine has a call of its own, which has not returned (network.go).
CallsAreOpen ==
    \A c \in Callers : cur[c] # 0 =>
        /\ calls[cur[c]].res = "open" /\ calls[cur[c]].req.how # "nothing"
        /\ \A d \in Callers : cur[d] = cur[c] => d = c

\* What is on its way is the request of its call, not executed yet.
OnTheirWay ==
    \A m \in DOMAIN net :
        /\ m.req = calls[m.id].req /\ calls[m.id].done = 0
        /\ m.req.how # "nothing"

\* An answer is for a call that waits for it, and a 200 says that it was executed.
AnswersAreTrue ==
    \A a \in wire : /\ \E c \in Callers : cur[c] = a.id
                    /\ a.status = 200 => calls[a.id].done = 1

\* What a method that returned has to show for it (msg.go).
Returned ==
    \A i \in 1..Len(calls) : calls[i].res = "ok" =>
        calls[i].done = 1 \/ calls[i].req.how \in {"swallow", "nothing"}

\* While no caller is in doubt there is at most one call, and the network holds its
\* request, or its answer, or nothing; what the gateway holds follows from which.
Certain ==
    sure =>
        /\ \A c, d \in Callers : cur[c] # 0 /\ cur[d] # 0 => c = d
        /\ \A m \in DOMAIN net : \E c \in Callers : cur[c] = m.id
        /\ \A m \in DOMAIN net : wire = {} /\ gw = asked
        /\ \A a \in wire : /\ a.status = 200 => gw = Effect(asked, calls[a.id].req)
                           /\ a.status = 400 => gw = asked
        /\ (\A c \in Callers : Idle(c)) => gw = asked

\* The inductive invariant of msg.go, stream.go and network.go.
IInv ==
    /\ TypeOK /\ CallsAreOpen /\ OnTheirWay /\ AnswersAreTrue /\ Returned /\ Certain
    /\ RemovedNoticeIsPrivate /\ HolesAreFilled

----------------------------------------------------------------------------
(* Lemmas on the network and the gateway.                                  *)

\* Sending a request that is not on its way puts it there once.
LEMMA SendingOne ==
    ASSUME net \in [DOMAIN net -> {1}], NEW m, m \notin DOMAIN net, Post(m)
    PROVE  DOMAIN net' = DOMAIN net \cup {m} /\ net' \in [DOMAIN net' -> {1}]
BY DEF Post, (+), SetToBag

\* A request that is executed, or refused, is not on its way any more.
LEMMA TakingOne ==
    ASSUME net \in [DOMAIN net -> {1}], NEW m \in DOMAIN net,
           net' = net (-) SetToBag({m})
    PROVE  DOMAIN net' = DOMAIN net \ {m} /\ net' \in [DOMAIN net' -> {1}]
BY DEF (-), SetToBag

\* Requests with the number of the same call are the same.
LEMMA OneRequestPerCall ==
    ASSUME TypeOK, OnTheirWay, NEW m \in DOMAIN net, NEW n \in DOMAIN net, n.id = m.id
    PROVE  n = m
BY DEF TypeOK, OnTheirWay

\* What is known of a request the program makes.
LEMMA ExploredIs ==
    ASSUME NEW r \in Explored
    PROVE  /\ GoodRequest(r) /\ r.uids \in SUBSET Users /\ r.path \in Paths /\ r.msg \in Sent
           /\ r.msg.subscribers \in SUBSET Users /\ r.msg.person \in SUBSET Users
BY RequestsAreGood DEF GoodRequest, GoodMessage, Paths, Sent

LEMMA DeliverIs ==
    ASSUME NEW g \in Gateway, NEW r \in Explored
    PROVE  /\ Deliver(g, r.msg) \in Gateway
           /\ \A d \in Deliver(g, r.msg).log : d \in g.log \/
                /\ d.msg = r.msg
                /\ r.msg.subscribers # {} => d.to = r.msg.subscribers
<1>1. PICK m : m = r.msg
  OBVIOUS
<1>2. PICK to : to = IF m.subscribers # {} THEN m.subscribers
                     ELSE IF m.group THEN g.list["subscribers"] ELSE m.person
  OBVIOUS
<1>3. PICK keep : keep = IF SettingFromUint8(m.setting).noUpdateConversation THEN {} ELSE to
  OBVIOUS
<1>4. PICK red : red = IF m.header.redDot = 1 THEN to ELSE {}
  OBVIOUS
<1>5. PICK stored \in BOOLEAN : stored = (m.header.noPersist = 0)
  OBVIOUS
<1>6. PICK d : d = [msg |-> m, to |-> to, kept |-> keep, stored |-> stored]
  OBVIOUS
<1>7. to \in SUBSET Users /\ m \in Sent
  <2>1. "subscribers" \in Lists
    BY DEF Lists, ListPaths
  <2>2. g.list["subscribers"] \in SUBSET Users
    BY <2>1 DEF Gateway
  <2>. QED BY <1>1, <1>2, <2>2, ExploredIs
<1>8. d \in Delivery /\ keep \in SUBSET Users /\ red \in SUBSET Users
  BY <1>3, <1>4, <1>5, <1>6, <1>7 DEF Delivery
<1>9. Deliver(g, m) = [g EXCEPT !.conversations = g.conversations \cup keep,
                                !.unread = g.unread \cup red, !.log = g.log \cup {d}]
  BY <1>2, <1>3, <1>4, <1>5, <1>6 DEF Deliver
<1>10. Deliver(g, m) \in Gateway /\ Deliver(g, m).log = g.log \cup {d}
  BY <1>8, <1>9 DEF Gateway
<1>. QED BY <1>1, <1>2, <1>6, <1>10

\* The paths of lists are none of the others.
LEMMA ListPathsAre ==
    \A p \in UNION {ListPaths[l] : l \in Lists} :
        p \notin {"channel/delete", "conversations/setUnread", "conversations/delete",
                  "message/send", "message/sendbatch", "user/token", "user/device_quit",
                  "channel/info", "message/syncack", "message/revoke", "streammessage/start",
                  "streammessage/end"}
<1>1. Lists = {"subscribers", "blacklist", "whitelist", "systemuids"}
  BY DEF Lists, ListPaths
<1>2. /\ ListPaths["subscribers"] = {"channel/subscriber_add", "channel/subscriber_reset",
                                     "channel/subscriber_remove", "channel"}
      /\ ListPaths["blacklist"] = {"channel/blacklist_add", "channel/blacklist_set",
                                   "channel/blacklist_remove"}
      /\ ListPaths["whitelist"] = {"channel/whitelist_add", "channel/whitelist_set",
                                   "channel/whitelist_remove"}
      /\ ListPaths["systemuids"] = {"user/systemuids_add", "user/systemuids_remove"}
  BY DEF ListPaths
<1>. QED BY <1>1, <1>2

\* The gateway delivers a message of the request, or none.
LEMMA EffectIs ==
    ASSUME NEW g \in Gateway, NEW r \in Explored
    PROVE  /\ Effect(g, r) \in Gateway
           /\ \A d \in Effect(g, r).log : d \in g.log \/
                /\ d.msg = r.msg
                /\ r.msg.subscribers # {} => d.to = r.msg.subscribers
<1>1. CASE r.path \in UNION {ListPaths[l] : l \in Lists}
  <2>1. PICK list : list = [l \in Lists |-> IF r.path \in ListPaths[l]
                                            THEN Changed(g.list[l], r) ELSE g.list[l]]
    OBVIOUS
  <2>2. \A l \in Lists : Changed(g.list[l], r) \in SUBSET Users /\ g.list[l] \in SUBSET Users
    BY ExploredIs DEF Changed, Gateway
  <2>3. list \in [Lists -> SUBSET Users]
    BY <2>1, <2>2
  <2>4. Effect(g, r) = [g EXCEPT !.list = list]
    <3>1. Effect(g, r) = [g EXCEPT !.list = [l \in Lists |-> IF r.path \in ListPaths[l]
                                             THEN Changed(g.list[l], r) ELSE g.list[l]]]
      BY <1>1, ListPathsAre DEF Effect
    <3>. QED BY <2>1, <3>1
  <2>. QED BY <2>3, <2>4 DEF Gateway
<1>2. CASE /\ r.path \notin UNION {ListPaths[l] : l \in Lists}
           /\ r.path = "channel/delete"
  <2>1. PICK list : list = [l \in Lists |-> IF l = "systemuids" THEN g.list[l] ELSE {}]
    OBVIOUS
  <2>2. list \in [Lists -> SUBSET Users]
    BY <2>1 DEF Gateway
  <2>3. Effect(g, r) = [g EXCEPT !.list = list]
    BY <1>2, <2>1 DEF Effect
  <2>. QED BY <2>2, <2>3 DEF Gateway
<1>3. ASSUME r.path \notin UNION {ListPaths[l] : l \in Lists}, r.path # "channel/delete"
      PROVE  \/ Effect(g, r) = [g EXCEPT !.unread = g.unread \ r.uids]
             \/ Effect(g, r) = [g EXCEPT !.conversations = g.conversations \ r.uids]
             \/ Effect(g, r) = Deliver(g, r.msg)
             \/ Effect(g, r) = [g EXCEPT !.marks = g.marks \cup {<<r.path, r.uids>>}]
             \/ Effect(g, r) = g
  BY <1>3 DEF Effect
<1>4. CASE \/ Effect(g, r) = [g EXCEPT !.unread = g.unread \ r.uids]
           \/ Effect(g, r) = [g EXCEPT !.conversations = g.conversations \ r.uids]
  BY <1>4 DEF Gateway
<1>5. CASE Effect(g, r) = [g EXCEPT !.marks = g.marks \cup {<<r.path, r.uids>>}]
  <2>1. <<r.path, r.uids>> \in Paths \X SUBSET Users
    BY ExploredIs
  <2>. QED BY <1>5, <2>1 DEF Gateway
<1>. QED BY <1>1, <1>2, <1>3, <1>4, <1>5, DeliverIs

\* A call that is made, and one of which something changes.
LEMMA AppendedCall ==
    ASSUME TypeOK, NEW k \in CallRecord, calls' = Append(calls, k)
    PROVE  /\ calls' \in Seq(CallRecord) /\ Len(calls') = Len(calls) + 1
           /\ calls'[Len(calls) + 1] = k
           /\ \A i \in 1..Len(calls) : calls'[i] = calls[i]
           /\ Len(calls) \in Nat
BY AppendProperties, LenProperties DEF TypeOK

LEMMA WrittenCall ==
    ASSUME TypeOK, NEW i \in 1..Len(calls), NEW k \in CallRecord,
           calls' = [calls EXCEPT ![i] = k]
    PROVE  /\ calls' \in Seq(CallRecord) /\ Len(calls') = Len(calls) /\ calls'[i] = k
           /\ \A j \in 1..Len(calls) : j # i => calls'[j] = calls[j]
<1>1. DOMAIN calls = 1..Len(calls) /\ calls \in [1..Len(calls) -> CallRecord]
      /\ Len(calls) \in Nat
  BY LenProperties DEF TypeOK
<1>2. calls' \in [1..Len(calls) -> CallRecord]
  BY <1>1
<1>. QED BY <1>1, <1>2, IsASeq, LenProperties

----------------------------------------------------------------------------
(* Each action keeps the invariant.                                        *)

LEMMA InitIInv == Init => IInv
<1>. SUFFICES ASSUME Init PROVE IInv
  OBVIOUS
<1>1. Empty \in Gateway /\ Empty.log = {}
  <2>1. [l \in Lists |-> IF l = "subscribers" THEN Users ELSE {}] \in [Lists -> SUBSET Users]
    OBVIOUS
  <2>. QED BY <2>1 DEF Empty, Gateway
<1>2. calls \in Seq(CallRecord) /\ Len(calls) = 0 /\ DOMAIN net = {} /\ wire = {}
      /\ \A c \in Callers : cur[c] = 0
  BY EmptySeq DEF Init, EmptyBag, SetToBag
<1>3. net \in [DOMAIN net -> {1}]
  BY DEF Init, EmptyBag, SetToBag
<1>4. TypeOK
  BY <1>1, <1>2, <1>3 DEF Init, TypeOK
<1>5. CallsAreOpen /\ OnTheirWay /\ AnswersAreTrue
  BY <1>2 DEF CallsAreOpen, OnTheirWay, AnswersAreTrue
<1>6. Returned /\ Certain
  <2>1. 1..0 = {}
    OBVIOUS
  <2>. QED BY <1>2, <2>1 DEF Init, Returned, Certain
<1>7. RemovedNoticeIsPrivate /\ HolesAreFilled
  BY <1>1 DEF Init, RemovedNoticeIsPrivate, HolesAreFilled
<1>. QED BY <1>4, <1>5, <1>6, <1>7 DEF IInv

LEMMA CallIInv ==
    ASSUME IInv, NEW c \in Callers, NEW r \in Explored, Call(c, r)
    PROVE  IInv'
<1>. USE DEF IInv
<1>1. PICK n, k, m : /\ n = Len(calls) /\ k = [req |-> r, res |-> "open", done |-> 0]
                     /\ m = [id |-> n + 1, req |-> r]
  OBVIOUS
<1>2. /\ cur[c] = 0 /\ r.how # "nothing" /\ cur' = [cur EXCEPT ![c] = n + 1]
      /\ calls' = Append(calls, k) /\ Post(m)
      /\ sure' = (sure /\ \A d \in Callers : Idle(d))
      /\ gw' = gw /\ wire' = wire /\ asked' = asked
  BY <1>1 DEF Call, Idle
<1>3. k \in CallRecord
  BY <1>1 DEF CallRecord
<1>4. /\ calls' \in Seq(CallRecord) /\ Len(calls') = n + 1 /\ calls'[n + 1] = k
      /\ \A i \in 1..n : calls'[i] = calls[i]
      /\ n \in Nat
  BY <1>1, <1>2, <1>3, AppendedCall
<1>5. /\ DOMAIN net \subseteq [id: 1..n, req: Explored] /\ net \in [DOMAIN net -> {1}]
      /\ wire \subseteq Answers(n) /\ cur \in [Callers -> 0..n]
  BY <1>1 DEF TypeOK
<1>6. m.id = n + 1 /\ m.req = r /\ m \in [id: 1..(n + 1), req: Explored]
  BY <1>1, <1>4
<1>7. \A x \in DOMAIN net : x.id \in 1..n
  BY <1>5
<1>8. DOMAIN net' = DOMAIN net \cup {m} /\ net' \in [DOMAIN net' -> {1}]
  <2>1. m \notin DOMAIN net
    BY <1>4, <1>6, <1>7
  <2>. QED BY <1>2, <1>5, <2>1, SendingOne
<1>9. /\ cur'[c] = n + 1 /\ cur' \in [Callers -> 0..(n + 1)]
      /\ \A d \in Callers \ {c} : cur'[d] = cur[d] /\ cur[d] \in 0..n
  BY <1>2, <1>4, <1>5
<1>10. TypeOK'
  <2>1. DOMAIN net' \subseteq [id: 1..(n + 1), req: Explored]
    BY <1>4, <1>5, <1>6, <1>8
  <2>2. wire' \subseteq Answers(n + 1)
    BY <1>2, <1>4, <1>5 DEF Answers
  <2>. QED BY <1>2, <1>4, <1>8, <1>9, <2>1, <2>2 DEF TypeOK
<1>11. CallsAreOpen'
  <2>1. calls'[n + 1].res = "open" /\ calls'[n + 1].req.how # "nothing"
    BY <1>1, <1>2, <1>4
  <2>. SUFFICES ASSUME NEW d \in Callers, cur'[d] # 0
                PROVE  /\ calls'[cur'[d]].res = "open" /\ calls'[cur'[d]].req.how # "nothing"
                       /\ \A e \in Callers : cur'[e] = cur'[d] => e = d
    BY DEF CallsAreOpen
  <2>2. CASE d = c
    BY <1>4, <1>9, <2>1, <2>2
  <2>3. CASE d # c
    <3>1. cur[d] \in 1..n /\ cur'[d] = cur[d]
      BY <1>9, <2>3
    <3>2. calls'[cur[d]] = calls[cur[d]]
      BY <1>4, <3>1
    <3>3. \A e \in Callers : cur'[e] = cur'[d] => e = d
      BY <1>4, <1>9, <3>1 DEF CallsAreOpen
    <3>. QED BY <3>1, <3>2, <3>3 DEF CallsAreOpen
  <2>. QED BY <2>2, <2>3
<1>12. OnTheirWay'
  <2>1. m.req = calls'[m.id].req /\ calls'[m.id].done = 0 /\ m.req.how # "nothing"
    BY <1>1, <1>2, <1>4, <1>6
  <2>2. \A x \in DOMAIN net : /\ x.req = calls'[x.id].req /\ calls'[x.id].done = 0
                              /\ x.req.how # "nothing"
    BY <1>4, <1>7 DEF OnTheirWay
  <2>. QED BY <1>8, <2>1, <2>2 DEF OnTheirWay
<1>13. AnswersAreTrue'
  <2>. SUFFICES ASSUME NEW a \in wire
                PROVE  /\ \E d \in Callers : cur'[d] = a.id
                       /\ a.status = 200 => calls'[a.id].done = 1
    BY <1>2 DEF AnswersAreTrue
  <2>1. a.id \in 1..n
    BY <1>5 DEF Answers
  <2>2. PICK d \in Callers : cur[d] = a.id
    BY DEF AnswersAreTrue
  <2>3. cur'[d] = a.id
    BY <1>2, <1>9, <2>1, <2>2
  <2>. QED BY <1>4, <2>1, <2>3 DEF AnswersAreTrue
<1>14. Returned'
  <2>. SUFFICES ASSUME NEW i \in 1..(n + 1), calls'[i].res = "ok"
                PROVE  calls'[i].done = 1 \/ calls'[i].req.how \in {"swallow", "nothing"}
    BY <1>4 DEF Returned
  <2>1. calls'[n + 1].res # "ok"
    BY <1>1, <1>4
  <2>2. i \in 1..n
    BY <1>4, <2>1
  <2>. QED BY <1>1, <1>4, <2>2 DEF Returned
<1>15. Certain'
  <2>. SUFFICES ASSUME sure' PROVE Certain'
    BY DEF Certain
  <2>1. sure /\ \A d \in Callers : cur[d] = 0
    BY <1>2 DEF Idle
  <2>2. gw = asked
    BY <2>1 DEF Certain, Idle
  <2>3. DOMAIN net = {} /\ wire = {}
    <3>1. \A x \in DOMAIN net : x.id # 0 /\ \E d \in Callers : cur[d] = x.id
      BY <1>7, <2>1 DEF Certain
    <3>2. \A a \in wire : a.id # 0 /\ \E d \in Callers : cur[d] = a.id
      BY <1>5 DEF AnswersAreTrue, Answers
    <3>. QED BY <2>1, <3>1, <3>2
  <2>4. DOMAIN net' = {m} /\ wire' = {} /\ gw' = asked'
    BY <1>2, <1>8, <2>2, <2>3
  <2>5. \A d, e \in Callers : cur'[d] # 0 /\ cur'[e] # 0 => d = e
    BY <1>9, <2>1
  <2>6. cur'[c] = m.id
    BY <1>6, <1>9
  <2>. QED BY <2>4, <2>5, <2>6 DEF Certain
<1>16. RemovedNoticeIsPrivate' /\ HolesAreFilled'
  BY <1>2 DEF RemovedNoticeIsPrivate, HolesAreFilled
<1>. QED BY <1>10, <1>11, <1>12, <1>13, <1>14, <1>15, <1>16

LEMMA ReturnEarlyIInv ==
    ASSUME IInv, NEW c \in Callers, NEW r \in Explored, ReturnEarly(c, r)
    PROVE  IInv'
<1>. USE DEF IInv
<1>1. PICK n, k : n = Len(calls) /\ k = [req |-> r, res |-> "ok", done |-> 0]
  OBVIOUS
<1>2. /\ r.how = "nothing" /\ calls' = Append(calls, k)
      /\ UNCHANGED <<gw, net, wire, cur, asked, sure>>
  BY <1>1 DEF ReturnEarly
<1>3. k \in CallRecord
  BY <1>1 DEF CallRecord
<1>4. /\ calls' \in Seq(CallRecord) /\ Len(calls') = n + 1 /\ calls'[n + 1] = k
      /\ \A i \in 1..n : calls'[i] = calls[i]
      /\ n \in Nat
  BY <1>1, <1>2, <1>3, AppendedCall
<1>5. /\ DOMAIN net \subseteq [id: 1..n, req: Explored] /\ net \in [DOMAIN net -> {1}]
      /\ wire \subseteq Answers(n) /\ cur \in [Callers -> 0..n]
  BY <1>1 DEF TypeOK
<1>6. TypeOK'
  <2>1. DOMAIN net \subseteq [id: 1..(n + 1), req: Explored] /\ cur \in [Callers -> 0..(n + 1)]
    BY <1>4, <1>5
  <2>2. wire \subseteq Answers(n + 1)
    BY <1>4, <1>5 DEF Answers
  <2>. QED BY <1>2, <1>4, <1>5, <2>1, <2>2 DEF TypeOK
<1>7. CallsAreOpen'
  BY <1>2, <1>4, <1>5 DEF CallsAreOpen
<1>8. \A m \in DOMAIN net : m.id \in 1..n
  BY <1>5
<1>9. \A a \in wire : a.id \in 1..n
  BY <1>5 DEF Answers
<1>10. OnTheirWay' /\ AnswersAreTrue'
  BY <1>2, <1>4, <1>8, <1>9 DEF OnTheirWay, AnswersAreTrue
<1>11. Returned'
  <2>. SUFFICES ASSUME NEW i \in 1..(n + 1), calls'[i].res = "ok"
                PROVE  calls'[i].done = 1 \/ calls'[i].req.how \in {"swallow", "nothing"}
    BY <1>4 DEF Returned
  <2>1. CASE i = n + 1
    BY <1>1, <1>2, <1>4, <2>1
  <2>2. CASE i \in 1..n
    BY <1>1, <1>4, <2>2 DEF Returned
  <2>. QED BY <1>4, <2>1, <2>2
<1>12. Certain'
  <2>1. \A a \in wire : calls'[a.id] = calls[a.id]
    BY <1>4, <1>9
  <2>. QED BY <1>2, <2>1 DEF Certain, Idle
<1>13. RemovedNoticeIsPrivate' /\ HolesAreFilled'
  BY <1>2 DEF RemovedNoticeIsPrivate, HolesAreFilled
<1>. QED BY <1>6, <1>7, <1>10, <1>11, <1>12, <1>13

\* The answer to a request goes to the goroutine that waits for it, or nowhere.
LEMMA ReplyIs ==
    ASSUME NEW n \in Nat, NEW i \in 1..n, NEW answers, Reply(i, answers),
           answers \subseteq {200, 400, 500} \X {"data", "null", "garbage"}
    PROVE  \/ wire' = wire /\ ~ \E c \in Callers : cur[c] = i
           \/ /\ \E c \in Callers : cur[c] = i
              /\ \E a \in Answers(n) : /\ a.id = i /\ <<a.status, a.body>> \in answers
                                       /\ wire' = wire \cup {a}
<1>1. CASE \E c \in Callers : cur[c] = i
  <2>1. PICK x \in answers : wire' = wire \cup {[id |-> i, status |-> x[1], body |-> x[2]]}
    BY <1>1 DEF Reply
  <2>2. PICK a : a = [id |-> i, status |-> x[1], body |-> x[2]]
    OBVIOUS
  <2>3. x \in {200, 400, 500} \X {"data", "null", "garbage"}
    OBVIOUS
  <2>4. x[1] \in {200, 400, 500} /\ x[2] \in {"data", "null", "garbage"} /\ x = <<x[1], x[2]>>
    BY <2>3
  <2>5. a \in Answers(n) /\ a.id = i /\ <<a.status, a.body>> \in answers
    BY <2>2, <2>4 DEF Answers
  <2>. QED BY <1>1, <2>1, <2>2, <2>5
<1>2. CASE ~ \E c \in Callers : cur[c] = i
  BY <1>2 DEF Reply
<1>. QED BY <1>1, <1>2

\* The gateway takes a request off the network, executes it or not, and answers: with
\* 200 only if it did, with 400 only if it did not.
Taken(m, answers, k) ==
    /\ m \in DOMAIN net /\ net' = net (-) SetToBag({m})
    /\ answers \subseteq {200, 400, 500} \X {"data", "null", "garbage"}
    /\ Reply(m.id, answers)
    /\ gw' \in Gateway /\ UNCHANGED <<cur, asked, sure>>
    /\ k \in CallRecord /\ k.req = calls[m.id].req /\ k.res = calls[m.id].res
    /\ calls' = [calls EXCEPT ![m.id] = k]
    /\ \A x \in answers : /\ x[1] = 200 => k.done = 1 /\ gw' = Effect(gw, m.req)
                          /\ x[1] = 400 => gw' = gw

LEMMA TakenIInv ==
    ASSUME IInv, NEW m, NEW answers, NEW k, Taken(m, answers, k)
    PROVE  TypeOK' /\ CallsAreOpen' /\ OnTheirWay' /\ AnswersAreTrue' /\ Returned' /\ Certain'
<1>. USE DEF IInv, Taken
<1>1. PICK n, i : n = Len(calls) /\ i = m.id
  OBVIOUS
<1>2. /\ DOMAIN net \subseteq [id: 1..n, req: Explored] /\ net \in [DOMAIN net -> {1}]
      /\ wire \subseteq Answers(n) /\ cur \in [Callers -> 0..n] /\ n \in Nat
  BY <1>1, LenProperties DEF TypeOK
<1>3. i \in 1..n /\ m.req \in Explored /\ \A x \in DOMAIN net : x.id \in 1..n
  BY <1>1, <1>2
<1>4. /\ m.req = calls[i].req /\ calls[i].done = 0
  BY <1>1 DEF OnTheirWay
<1>5. /\ calls' \in Seq(CallRecord) /\ Len(calls') = n /\ calls'[i] = k
      /\ \A j \in 1..n : j # i => calls'[j] = calls[j]
  <2>1. TypeOK /\ calls' = [calls EXCEPT ![i] = k] /\ i \in 1..Len(calls) /\ k \in CallRecord
    BY <1>1, <1>3
  <2>. HIDE DEF Taken, IInv
  <2>. QED BY <1>1, <2>1, WrittenCall
<1>6. k.req = calls[i].req /\ k.res = calls[i].res
  BY <1>1
<1>7. \A j \in 1..n : calls'[j].req = calls[j].req /\ calls'[j].res = calls[j].res
  BY <1>5, <1>6
<1>8. DOMAIN net' = DOMAIN net \ {m} /\ net' \in [DOMAIN net' -> {1}]
  BY <1>2, TakingOne
<1>9. \/ wire' = wire /\ ~ \E c \in Callers : cur[c] = i
      \/ /\ \E c \in Callers : cur[c] = i
         /\ \E a \in Answers(n) : /\ a.id = i /\ <<a.status, a.body>> \in answers
                                  /\ wire' = wire \cup {a}
  BY <1>1, <1>2, <1>3, ReplyIs
<1>10. \A a \in wire' : a \in wire \/ (a.id = i /\ <<a.status, a.body>> \in answers)
  <2>. HIDE DEF Taken, IInv
  <2>. QED BY <1>9
<1>11. TypeOK'
  <2>1. wire' \subseteq Answers(n)
    BY <1>2, <1>9
  <2>2. asked' \in Gateway /\ sure' \in BOOLEAN
    BY DEF TypeOK
  <2>. QED BY <1>2, <1>5, <1>8, <2>1, <2>2 DEF TypeOK
<1>12. CallsAreOpen'
  BY <1>2, <1>7 DEF CallsAreOpen
<1>13. OnTheirWay'
  <2>1. \A x \in DOMAIN net' : x \in DOMAIN net /\ x.id # i /\ x.id \in 1..n
    <3>1. \A x \in DOMAIN net : x.id = m.id => x = m
      BY OneRequestPerCall
    <3>. QED BY <1>1, <1>3, <1>8, <3>1
  <2>2. \A x \in DOMAIN net' : calls'[x.id] = calls[x.id]
    BY <1>5, <2>1
  <2>3. \A x \in DOMAIN net' : /\ x.req = calls[x.id].req /\ calls[x.id].done = 0
                               /\ x.req.how # "nothing"
    BY <2>1 DEF OnTheirWay
  <2>. HIDE DEF Taken, IInv
  <2>. QED BY <2>2, <2>3 DEF OnTheirWay
<1>14. \A a \in wire' : <<a.status, a.body>> \in answers /\ a.status = 200 => k.done = 1
  OBVIOUS
<1>15. AnswersAreTrue'
  <2>. SUFFICES ASSUME NEW a \in wire'
                PROVE  /\ \E c \in Callers : cur[c] = a.id
                       /\ a.status = 200 => calls'[a.id].done = 1
    BY DEF AnswersAreTrue
  <2>1. CASE a \in wire
    <3>1. a.id \in 1..n
      BY <1>2, <2>1 DEF Answers
    <3>2. a.status = 200 => calls[a.id].done = 1 /\ a.id # i
      BY <1>4, <2>1 DEF AnswersAreTrue
    <3>. QED BY <1>5, <2>1, <3>1, <3>2 DEF AnswersAreTrue
  <2>2. CASE a \notin wire /\ a.id = i /\ <<a.status, a.body>> \in answers
    BY <1>5, <1>9, <1>14, <2>2
  <2>. QED BY <1>10, <2>1, <2>2
<1>16. Returned'
  <2>. SUFFICES ASSUME NEW j \in 1..n, calls'[j].res = "ok"
                PROVE  calls'[j].done = 1 \/ calls'[j].req.how \in {"swallow", "nothing"}
    BY <1>5 DEF Returned
  <2>1. calls[j].done = 1 \/ calls[j].req.how \in {"swallow", "nothing"}
    BY <1>1, <1>7 DEF Returned
  <2>2. calls[j].done = 1 => j # i
    BY <1>4
  <2>. QED BY <1>5, <1>7, <2>1, <2>2
<1>17. Certain'
  <2>. SUFFICES ASSUME sure PROVE Certain'
    BY DEF Certain
  <2>1. /\ \A c, d \in Callers : cur[c] # 0 /\ cur[d] # 0 => c = d
        /\ wire = {} /\ gw = asked
        /\ \A x \in DOMAIN net : \E c \in Callers : cur[c] = x.id
    BY DEF Certain
  <2>2. PICK c \in Callers : cur[c] = i
    BY <1>1, <2>1
  <2>3. DOMAIN net' = {}
    <3>1. \A x \in DOMAIN net : x.id = i
      BY <1>3, <2>1, <2>2
    <3>2. \A x \in DOMAIN net : x = m
      BY <1>1, <3>1, OneRequestPerCall
    <3>. QED BY <1>8, <3>2
  <2>4. \A a \in wire' : /\ a.status = 200 => gw' = Effect(asked, calls'[a.id].req)
                         /\ a.status = 400 => gw' = asked
    <3>1. calls'[i].req = m.req
      BY <1>4, <1>5, <1>6
    <3>. SUFFICES ASSUME NEW a \in wire'
                  PROVE  /\ a.status = 200 => gw' = Effect(asked, calls'[a.id].req)
                         /\ a.status = 400 => gw' = asked
      OBVIOUS
    <3>2. PICK x : x = <<a.status, a.body>>
      OBVIOUS
    <3>3. x \in answers /\ a.id = i /\ x[1] = a.status
      BY <1>10, <2>1, <3>2
    <3>. QED BY <2>1, <3>1, <3>3
  <2>5. ~ \A d \in Callers : Idle(d)'
    BY <1>3, <2>2 DEF Idle
  <2>6. \A d, e \in Callers : cur'[d] # 0 /\ cur'[e] # 0 => d = e
    BY <2>1
  <2>7. \A a \in wire' : /\ a.status = 200 => gw' = Effect(asked', calls'[a.id].req)
                         /\ a.status = 400 => gw' = asked'
    BY <2>4
  <2>. QED BY <2>3, <2>5, <2>6, <2>7 DEF Certain
<1>. QED BY <1>11, <1>12, <1>13, <1>15, <1>16, <1>17

LEMMA ExecuteIInv ==
    ASSUME IInv, NEW m \in BagToSet(net), Execute(m)
    PROVE  IInv'
<1>. USE DEF IInv
<1>1. /\ m \in DOMAIN net /\ net' = net (-) SetToBag({m}) /\ gw' = Effect(gw, m.req)
      /\ calls' = [calls EXCEPT ![m.id].done = @ + 1]
      /\ Reply(m.id, ({200} \X Bodies(m.req.how)) \cup {<<500, "null">>})
      /\ cur' = cur /\ asked' = asked /\ sure' = sure
  BY DEF Execute, BagToSet
<1>2. /\ m.id \in 1..Len(calls) /\ m.req \in Explored /\ gw \in Gateway
      /\ m.req = calls[m.id].req /\ calls[m.id].done = 0
  BY <1>1 DEF TypeOK, OnTheirWay
<1>3. calls[m.id] \in CallRecord
  BY <1>2, LenProperties DEF TypeOK
<1>4. PICK k : k = [calls[m.id] EXCEPT !.done = 1]
  OBVIOUS
<1>5. /\ k \in CallRecord /\ k.done = 1
      /\ k.req = calls[m.id].req /\ k.res = calls[m.id].res
  BY <1>3, <1>4 DEF CallRecord
<1>6. calls' = [calls EXCEPT ![m.id] = k]
  BY <1>1, <1>2, <1>4
<1>7. PICK answers : answers = ({200} \X Bodies(m.req.how)) \cup {<<500, "null">>}
  OBVIOUS
<1>8. answers \subseteq {200, 400, 500} \X {"data", "null", "garbage"}
  <2>1. Bodies(m.req.how) \subseteq {"data", "null", "garbage"}
    BY DEF Bodies
  <2>. QED BY <1>7, <2>1
<1>9. \A x \in answers : x[1] # 400
  BY <1>7
<1>10. /\ gw' \in Gateway
       /\ \A d \in gw'.log : d \in gw.log \/
             /\ d.msg = m.req.msg
             /\ m.req.msg.subscribers # {} => d.to = m.req.msg.subscribers
  BY <1>1, <1>2, EffectIs
<1>11. TypeOK' /\ CallsAreOpen' /\ OnTheirWay' /\ AnswersAreTrue' /\ Returned' /\ Certain'
  <2>1. Reply(m.id, answers)
    BY <1>1, <1>7
  <2>2. m \in DOMAIN net /\ net' = net (-) SetToBag({m})
    BY <1>1
  <2>3. cur' = cur /\ asked' = asked /\ sure' = sure /\ gw' \in Gateway
    BY <1>1, <1>10
  <2>4. \A x \in answers : x[1] = 200 => k.done = 1 /\ gw' = Effect(gw, m.req)
    BY <1>1, <1>5
  <2>5. \A x \in answers : x[1] = 400 => gw' = gw
    BY <1>9
  <2>6. Taken(m, answers, k)
    BY <1>5, <1>6, <1>8, <2>1, <2>2, <2>3, <2>4, <2>5 DEF Taken
  <2>. HIDE DEF IInv
  <2>. QED BY <2>6, TakenIInv
<1>12. GoodRequest(m.req) /\ m.req.how # "nothing"
  BY <1>1, <1>2, RequestsAreGood DEF OnTheirWay
<1>13. RemovedNoticeIsPrivate'
  <2>. SUFFICES ASSUME NEW d \in gw'.log, d.msg.type = "groupMemberBeRemove"
                PROVE  d.to \subseteq d.msg.visibles
    BY DEF RemovedNoticeIsPrivate
  <2>1. CASE d \in gw.log
    BY <2>1 DEF RemovedNoticeIsPrivate
  <2>2. CASE /\ d.msg = m.req.msg
             /\ m.req.msg.subscribers # {} => d.to = m.req.msg.subscribers
    BY <1>12, <2>2 DEF GoodRequest
  <2>. QED BY <1>10, <2>1, <2>2
<1>14. HolesAreFilled'
  <2>. SUFFICES ASSUME NEW d \in gw'.log
                PROVE  Range(d.msg.holes) = {i - 1 : i \in DOMAIN d.msg.extra}
    BY DEF HolesAreFilled
  <2>1. CASE d \in gw.log
    BY <2>1 DEF HolesAreFilled
  <2>2. CASE d.msg = m.req.msg
    BY <1>12, <2>2 DEF GoodRequest, GoodMessage
  <2>. QED BY <1>10, <2>1, <2>2
<1>. QED BY <1>11, <1>13, <1>14

LEMMA RefuseIInv ==
    ASSUME IInv, NEW m \in BagToSet(net), Refuse(m)
    PROVE  IInv'
<1>. USE DEF IInv
<1>1. /\ m \in DOMAIN net /\ net' = net (-) SetToBag({m})
      /\ Reply(m.id, {<<400, "null">>, <<500, "null">>})
      /\ UNCHANGED <<gw, cur, calls, asked, sure>>
  BY DEF Refuse, BagToSet
<1>2. m.id \in 1..Len(calls) /\ gw \in Gateway
  BY <1>1 DEF TypeOK
<1>3. PICK k : k = calls[m.id]
  OBVIOUS
<1>4. k \in CallRecord /\ calls' = [calls EXCEPT ![m.id] = k]
  BY <1>1, <1>2, <1>3, LenProperties DEF TypeOK
<1>5. PICK answers : answers = {<<400, "null">>, <<500, "null">>}
  OBVIOUS
<1>6. answers \subseteq {200, 400, 500} \X {"data", "null", "garbage"}
  BY <1>5
<1>7. \A x \in answers : x[1] # 200
  BY <1>5
<1>8. TypeOK' /\ CallsAreOpen' /\ OnTheirWay' /\ AnswersAreTrue' /\ Returned' /\ Certain'
  <2>1. Reply(m.id, answers)
    BY <1>1, <1>5
  <2>2. m \in DOMAIN net /\ net' = net (-) SetToBag({m})
    BY <1>1
  <2>3. cur' = cur /\ asked' = asked /\ sure' = sure /\ gw' = gw /\ gw' \in Gateway
    BY <1>1, <1>2
  <2>4. k.req = calls[m.id].req /\ k.res = calls[m.id].res
    BY <1>3
  <2>5. \A x \in answers : x[1] = 200 => k.done = 1 /\ gw' = Effect(gw, m.req)
    BY <1>7
  <2>6. \A x \in answers : x[1] = 400 => gw' = gw
    BY <2>3
  <2>7. Taken(m, answers, k)
    BY <1>4, <1>6, <2>1, <2>2, <2>3, <2>4, <2>5, <2>6 DEF Taken
  <2>. HIDE DEF IInv
  <2>. QED BY <2>7, TakenIInv
<1>9. RemovedNoticeIsPrivate' /\ HolesAreFilled'
  BY <1>1 DEF RemovedNoticeIsPrivate, HolesAreFilled
<1>. QED BY <1>8, <1>9

\* A method returns: with nil only for an answer of 200, or where it swallows a broken
\* connection, and certain only if the gateway has answered 200 or 400.
LEMMA FinishIInv ==
    ASSUME IInv, NEW c \in Callers, cur[c] # 0, NEW res \in {"ok", "error", "panic"},
           NEW certain \in BOOLEAN, Finish(c, res, certain), gw' = gw, net' = net,
           res = "ok" => calls[cur[c]].done = 1 \/ calls[cur[c]].req.how = "swallow",
           certain => \E a \in wire : /\ a.id = cur[c]
                                      /\ \/ a.status = 200 /\ res = "ok"
                                         \/ a.status = 400 /\ res # "ok"
    PROVE  IInv'
<1>. USE DEF IInv
<1>1. PICK n, i, r : n = Len(calls) /\ i = cur[c] /\ r = calls[i].req
  OBVIOUS
<1>2. /\ cur' = [cur EXCEPT ![c] = 0] /\ calls' = [calls EXCEPT ![i].res = res]
      /\ wire' = {a \in wire : a.id # i}
      /\ asked' = IF res = "ok" THEN Effect(asked, r) ELSE asked
      /\ sure' = (sure /\ certain)
  BY <1>1 DEF Finish
<1>3. /\ DOMAIN net \subseteq [id: 1..n, req: Explored] /\ net \in [DOMAIN net -> {1}]
      /\ wire \subseteq Answers(n) /\ cur \in [Callers -> 0..n] /\ n \in Nat
  BY <1>1, LenProperties DEF TypeOK
<1>4. i \in 1..n /\ calls[i] \in CallRecord /\ r \in Explored
  <2>1. i \in 1..n
    BY <1>1, <1>3
  <2>2. calls[i] \in CallRecord
    BY <1>1, <2>1, LenProperties DEF TypeOK
  <2>. QED BY <1>1, <2>1, <2>2 DEF CallRecord
<1>5. PICK k : k = [calls[i] EXCEPT !.res = res]
  OBVIOUS
<1>6. k \in CallRecord /\ k.res = res /\ k.req = r /\ k.done = calls[i].done
  BY <1>1, <1>4, <1>5 DEF CallRecord
<1>7. /\ calls' \in Seq(CallRecord) /\ Len(calls') = n /\ calls'[i] = k
      /\ \A j \in 1..n : j # i => calls'[j] = calls[j]
  <2>1. TypeOK /\ calls' = [calls EXCEPT ![i] = k] /\ i \in 1..Len(calls)
    BY <1>1, <1>2, <1>4, <1>5
  <2>. QED BY <1>1, <1>6, <2>1, WrittenCall
<1>8. \A j \in 1..n : calls'[j].req = calls[j].req /\ calls'[j].done = calls[j].done
  BY <1>1, <1>6, <1>7
<1>9. /\ cur'[c] = 0 /\ cur' \in [Callers -> 0..n]
      /\ \A d \in Callers \ {c} : cur'[d] = cur[d] /\ (cur[d] # 0 => cur[d] # i)
  <2>1. \A d \in Callers : cur[d] = i => d = c
    BY <1>1 DEF CallsAreOpen
  <2>. QED BY <1>2, <1>3, <2>1
<1>10. TypeOK'
  <2>1. asked' \in Gateway
    BY <1>2, <1>4, EffectIs DEF TypeOK
  <2>2. sure' \in BOOLEAN /\ gw' \in Gateway
    BY <1>2 DEF TypeOK
  <2>3. wire' \subseteq Answers(n)
    BY <1>2, <1>3
  <2>. QED BY <1>3, <1>7, <1>9, <2>1, <2>2, <2>3 DEF TypeOK
<1>11. CallsAreOpen'
  <2>. SUFFICES ASSUME NEW d \in Callers, cur'[d] # 0
                PROVE  /\ calls'[cur'[d]].res = "open" /\ calls'[cur'[d]].req.how # "nothing"
                       /\ \A e \in Callers : cur'[e] = cur'[d] => e = d
    BY DEF CallsAreOpen
  <2>1. d # c /\ cur'[d] = cur[d] /\ cur[d] \in 1..n /\ cur[d] # i
    BY <1>3, <1>9
  <2>2. calls'[cur[d]] = calls[cur[d]]
    BY <1>7, <2>1
  <2>3. \A e \in Callers : cur'[e] = cur'[d] => e = d
    BY <1>9, <2>1 DEF CallsAreOpen
  <2>. QED BY <2>1, <2>2, <2>3 DEF CallsAreOpen
<1>12. OnTheirWay'
  <2>1. \A x \in DOMAIN net : x.id \in 1..n
    BY <1>3
  <2>2. \A x \in DOMAIN net : /\ x.req = calls'[x.id].req /\ calls'[x.id].done = 0
                              /\ x.req.how # "nothing"
    BY <1>8, <2>1 DEF OnTheirWay
  <2>. QED BY <2>2 DEF OnTheirWay
<1>13. AnswersAreTrue'
  <2>. SUFFICES ASSUME NEW a \in wire, a.id # i
                PROVE  /\ \E d \in Callers : cur'[d] = a.id
                       /\ a.status = 200 => calls'[a.id].done = 1
    BY <1>2 DEF AnswersAreTrue
  <2>1. a.id \in 1..n
    BY <1>3 DEF Answers
  <2>2. PICK d \in Callers : cur[d] = a.id
    BY DEF AnswersAreTrue
  <2>3. cur'[d] = a.id
    BY <1>1, <1>9, <2>2
  <2>. QED BY <1>8, <2>1, <2>3 DEF AnswersAreTrue
<1>14. Returned'
  <2>. SUFFICES ASSUME NEW j \in 1..n, calls'[j].res = "ok"
                PROVE  calls'[j].done = 1 \/ calls'[j].req.how \in {"swallow", "nothing"}
    BY <1>7 DEF Returned
  <2>1. CASE j = i
    BY <1>1, <1>6, <1>7, <2>1
  <2>2. CASE j # i
    BY <1>1, <1>7, <2>2 DEF Returned
  <2>. QED BY <2>1, <2>2
<1>15. Certain'
  <2>. SUFFICES ASSUME sure, certain PROVE Certain'
    BY <1>2 DEF Certain
  <2>1. PICK a \in wire : /\ a.id = i
                          /\ \/ a.status = 200 /\ res = "ok"
                             \/ a.status = 400 /\ res # "ok"
    BY <1>1
  <2>2. /\ \A d, e \in Callers : cur[d] # 0 /\ cur[e] # 0 => d = e
        /\ a.status = 200 => gw = Effect(asked, r)
        /\ a.status = 400 => gw = asked
        /\ DOMAIN net = {}
    BY <1>1, <2>1 DEF Certain
  <2>3. gw' = asked'
    BY <1>2, <2>1, <2>2
  <2>4. \A d \in Callers : cur'[d] = 0
    BY <1>1, <1>9, <2>2
  <2>5. wire' = {}
    <3>1. \A b \in wire' : b.id \in 1..n /\ \E d \in Callers : cur'[d] = b.id
      BY <1>2, <1>3, <1>13 DEF AnswersAreTrue, Answers
    <3>. QED BY <2>4, <3>1
  <2>. QED BY <2>2, <2>3, <2>4, <2>5 DEF Certain
<1>16. RemovedNoticeIsPrivate' /\ HolesAreFilled'
  BY DEF RemovedNoticeIsPrivate, HolesAreFilled
<1>. QED BY <1>10, <1>11, <1>12, <1>13, <1>14, <1>15, <1>16

\* What a method makes of an answer: nil only of a 200, and never nil of a 400.
LEMMA ResultIs ==
    ASSUME NEW how \in Hows \ {"nothing"}, NEW a, a.status \in {200, 400, 500}
    PROVE  /\ Result(how, a) \in {"ok", "error", "panic"}
           /\ Result(how, a) = "ok" => a.status = 200
BY DEF Result, Hows, handlerIMError, StatusError, Decoded, StreamDecoded

LEMMA AnswerIInv ==
    ASSUME IInv, NEW c \in Callers, Answer(c)
    PROVE  IInv'
<1>1. PICK a \in wire :
         /\ a.id = cur[c]
         /\ Finish(c, Result(calls[a.id].req.how, a),
                   Result(calls[a.id].req.how, a) = "ok" \/ a.status = 400)
  BY DEF Answer
<1>2. PICK how : how = calls[a.id].req.how
  OBVIOUS
<1>3. PICK res : res = Result(how, a)
  OBVIOUS
<1>4. PICK certain \in BOOLEAN : certain = (res = "ok" \/ a.status = 400)
  OBVIOUS
<1>5. Finish(c, res, certain)
  BY <1>1, <1>2, <1>3, <1>4
<1>6. cur[c] # 0 /\ gw' = gw /\ net' = net
  BY DEF Answer, Idle
<1>7. a.id \in 1..Len(calls) /\ a.status \in {200, 400, 500}
  BY DEF IInv, TypeOK, Answers
<1>8. how \in Hows \ {"nothing"}
  <2>1. calls[a.id].req \in Explored
    <3>1. calls[a.id] \in CallRecord
      BY <1>7, LenProperties DEF IInv, TypeOK
    <3>. QED BY <3>1 DEF CallRecord
  <2>2. how # "nothing"
    BY <1>1, <1>2, <1>6 DEF IInv, CallsAreOpen
  <2>. QED BY <1>2, <2>1, <2>2, RequestsAreGood DEF GoodRequest
<1>9. res \in {"ok", "error", "panic"} /\ (res = "ok" => a.status = 200)
  BY <1>3, <1>7, <1>8, ResultIs
<1>10. res = "ok" => calls[cur[c]].done = 1
  BY <1>1, <1>9 DEF IInv, AnswersAreTrue
<1>11. certain => \E b \in wire : /\ b.id = cur[c]
                                  /\ \/ b.status = 200 /\ res = "ok"
                                     \/ b.status = 400 /\ res # "ok"
  <2>. SUFFICES ASSUME certain
                PROVE  \E b \in wire : /\ b.id = cur[c]
                                      /\ \/ b.status = 200 /\ res = "ok"
                                         \/ b.status = 400 /\ res # "ok"
    OBVIOUS
  <2>1. res = "ok" \/ a.status = 400
    BY <1>4
  <2>2. \/ a.status = 200 /\ res = "ok"
        \/ a.status = 400 /\ res # "ok"
    BY <1>9, <2>1
  <2>. QED BY <1>1, <2>2
<1>. QED BY <1>5, <1>6, <1>9, <1>10, <1>11, FinishIInv

LEMMA DisconnectIInv ==
    ASSUME IInv, NEW c \in Callers, Disconnect(c)
    PROVE  IInv'
<1>1. PICK res : res = Broken(calls[cur[c]].req.how)
  OBVIOUS
<1>2. PICK certain \in BOOLEAN : certain = FALSE
  OBVIOUS
<1>3. Finish(c, res, certain) /\ cur[c] # 0 /\ gw' = gw /\ net' = net
  BY <1>1, <1>2 DEF Disconnect, Idle
<1>4. /\ res \in {"ok", "error", "panic"}
      /\ res = "ok" => calls[cur[c]].req.how = "swallow"
  BY <1>1 DEF Broken
<1>. QED BY <1>2, <1>3, <1>4, FinishIInv

\* A step that changes nothing keeps every part.
LEMMA StutterIInv ==
    ASSUME IInv, UNCHANGED vars
    PROVE  IInv'
BY DEF IInv, vars, TypeOK, CallsAreOpen, OnTheirWay, AnswersAreTrue, Returned, Certain, Idle,
       RemovedNoticeIsPrivate, HolesAreFilled

----------------------------------------------------------------------------
(* The theorems.                                                           *)

\* Every number, request and answer stays with its call, whatever is lost, late or
\* refused (network.go, msg.go, stream.go).
THEOREM IMClientInductive == Spec => []IInv
<1>1. Init => IInv
  BY InitIInv
<1>2. IInv /\ [Next]_vars => IInv'
  <2>. SUFFICES ASSUME IInv, [Next]_vars PROVE IInv'
    OBVIOUS
  <2>1. ASSUME NEW c \in Callers, NEW r \in Explored, Call(c, r) \/ ReturnEarly(c, r)
        PROVE  IInv'
    BY <2>1, CallIInv, ReturnEarlyIInv
  <2>2. ASSUME NEW c \in Callers, Answer(c) \/ Disconnect(c)
        PROVE  IInv'
    BY <2>2, AnswerIInv, DisconnectIInv
  <2>3. ASSUME NEW m \in BagToSet(net), Execute(m) \/ Refuse(m)
        PROVE  IInv'
    BY <2>3, ExecuteIInv, RefuseIInv
  <2>4. CASE UNCHANGED vars
    BY <2>4, StutterIInv
  <2>. QED BY <2>1, <2>2, <2>3, <2>4 DEF Next, Terminating
<1>. QED BY <1>1, <1>2, PTL DEF Spec

\* A method that returns nil has had its request executed, exactly once, unless it had
\* nothing to send or swallows a broken connection (ClearConversationUnread and
\* DeleteConversation of msg.go); no request is executed twice.
THEOREM SuccessIsDone == Spec => []SuccessMeansDone
<1>1. IInv => SuccessMeansDone
  <2>. SUFFICES ASSUME IInv, NEW i \in DOMAIN calls
                PROVE  /\ calls[i].done <= 1
                       /\ calls[i].res = "ok" => \/ calls[i].done = 1
                                                 \/ calls[i].req.how \in {"swallow", "nothing"}
    BY DEF SuccessMeansDone
  <2>1. i \in 1..Len(calls) /\ calls[i] \in CallRecord
    BY LenProperties DEF IInv, TypeOK
  <2>2. calls[i].done \in {0, 1}
    BY <2>1 DEF CallRecord
  <2>. QED BY <2>1, <2>2 DEF IInv, Returned
<1>. QED BY <1>1, IMClientInductive, PTL

\* While every call returned before the next began and none left its caller in doubt,
\* the gateway holds what the calls of msg.go and stream.go that succeeded asked for.
THEOREM GatewayIsWhatWasAsked == Spec => []GatewayFollowsAnswers
<1>1. IInv => GatewayFollowsAnswers
  BY DEF IInv, Certain, GatewayFollowsAnswers
<1>. QED BY <1>1, IMClientInductive, PTL

\* SendGroupMemberBeRemove tells only those who were removed: the only requests that
\* carry the notice name them, and the gateway delivers to those a message names.
THEOREM OnlyTheRemovedAreTold == Spec => []RemovedNoticeIsPrivate
<1>1. IInv => RemovedNoticeIsPrivate
  BY DEF IInv
<1>. QED BY <1>1, IMClientInductive, PTL

\* Whatever sender of msg.go built it, a delivered text has a hole for each user named.
THEOREM TextsAreComplete == Spec => []HolesAreFilled
<1>1. IInv => HolesAreFilled
  BY DEF IInv
<1>. QED BY <1>1, IMClientInductive, PTL
============================================================================
