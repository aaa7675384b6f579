---------------------------- MODULE IMMessages ----------------------------
(***************************************************************************)
(* config/msg.go, msg_group.go, msg_channel.go, msg_rtc.go: the messages    *)
(* the library asks the IM gateway to deliver.                             *)
(*                                                                         *)
(* A message is its header, its setting byte, where it goes, and of its    *)
(* payload what a reader's screen depends on: the type, the users "extra"  *)
(* names, and the holes {0}, {1}, ... of the text they are to fill.  Names *)
(* and wording are left out.                                               *)
(***************************************************************************)
EXTENDS Naturals, Sequences, Functions

CONSTANT Users

Flag == {0, 1}
MsgHeader == [noPersist: Flag, redDot: Flag, syncOnce: Flag]
Header(noPersist, redDot, syncOnce) ==
    [noPersist |-> noPersist, redDot |-> redDot, syncOnce |-> syncOnce]

\* The types of the messages sent here.
ContentTypes == {"cmd", "tip", "friendApply", "groupCreate", "groupMemberAdd",
                 "groupMemberRemove", "friendSure", "groupUpdate", "groupMemberScanJoin",
                 "groupTransferGrouper", "groupMemberInvite", "groupMemberBeRemove",
                 "groupMemberQuit", "groupUpgrade", "videoCallResult"}

Setting == [receipt: BOOLEAN, noUpdateConversation: BOOLEAN, signal: BOOLEAN]
encodeBool(b) == IF b THEN 1 ELSE 0
ToUint8(s) == encodeBool(s.receipt) * 128 + encodeBool(s.noUpdateConversation) * 64
              + encodeBool(s.signal) * 32
SettingFromUint8(v) == [receipt |-> (v \div 128) % 2 > 0,
                        noUpdateConversation |-> (v \div 64) % 2 > 0,
                        signal |-> (v \div 32) % 2 > 0]
Quiet == ToUint8([receipt |-> FALSE, noUpdateConversation |-> TRUE, signal |-> FALSE])

\* A message goes to the group, or to one person.  Subscribers, when there
\* are any, are the only members it is delivered to; visibles are the ones
\* whose screens are to show it.
MsgSendReq == [type: ContentTypes, header: MsgHeader, setting: 0..255, group: BOOLEAN,
               person: SUBSET Users, subscribers: SUBSET Users, visibles: SUBSET Users,
               holes: Seq(Nat), extra: Seq(Users)]

Message(type, header, holes, extra) ==
    [type |-> type, header |-> header, setting |-> 0, group |-> TRUE, person |-> {},
     subscribers |-> {}, visibles |-> {}, holes |-> holes, extra |-> extra]
ToPerson(u, m) == [m EXCEPT !.group = FALSE, !.person = {u}]
Notice(type, holes, extra) == Message(type, Header(0, 1, 0), holes, extra)

Numbered(s) == [i \in DOMAIN s |-> i - 1]

----------------------------------------------------------------------------
\* Persons.
SendFriendApply(to) == ToPerson(to, Message("friendApply", Header(0, 0, 1), <<>>, <<>>))
SendFriendSure(to) == ToPerson(to, Message("friendSure", Header(0, 0, 1), <<>>, <<>>))
SendRTCCallResult(to) == ToPerson(to, Notice("videoCallResult", <<>>, <<>>))

\* Groups.  The one who creates a group is not named among the invited.
Invited(creator, members) == SelectSeq(members, LAMBDA m: m # creator)
SendGroupCreateCountsAll(creator, members) ==
    Notice("groupCreate", Numbered(members), Invited(creator, members))
SendGroupCreate(creator, members) ==
    LET invited == Invited(creator, members)
    IN  Notice("groupCreate", Numbered(invited), invited)
SendUnableAddDestoryAccountInGroup(creator, members) ==
    [SendGroupCreate(creator, members) EXCEPT !.type = "tip"]
SendGroupUpdate(operator) == Notice("groupUpdate", <<0>>, <<operator>>)
SendGroupMemberAdd(members) == Notice("groupMemberAdd", Numbered(members), members)
SendGroupUpgrade == Notice("groupUpgrade", <<>>, <<>>)
SendGroupMemberRemove(members) == Notice("groupMemberRemove", Numbered(members), members)
SendGroupMemberScanJoin(scaner, generator) ==
    Notice("groupMemberScanJoin", <<0, 1>>, <<scaner, generator>>)
SendGroupTransferGrouper(grouper) == Notice("groupTransferGrouper", <<0>>, <<grouper>>)
SendGroupMemberInviteReq(inviter, subscribers) ==
    [Notice("groupMemberInvite", <<0>>, <<inviter>>) EXCEPT !.visibles = subscribers]
SendGroupExit(uid, visibles) ==
    [Notice("groupMemberQuit", <<0>>, <<uid>>) EXCEPT !.visibles = visibles]

\* What the removed are told.  Without members nothing is sent (BeRemoveSends).
BeRemoveSendsAlways(members) == TRUE
BeRemoveSends(members) == Len(members) > 0
SendGroupMemberBeRemove(operator, members) ==
    [Notice("groupMemberBeRemove", <<0>>, <<operator>>) EXCEPT
        !.setting = Quiet, !.subscribers = Range(members), !.visibles = Range(members)]

\* Commands: never stored, whatever MsgCMDReq.NoPersist says.
SendCMD(subscribers) ==
    [Message("cmd", Header(1, 0, 1), <<>>, <<>>) EXCEPT
        !.setting = Quiet, !.subscribers = subscribers]
SendFriendDelete(from) == ToPerson(from, SendCMD({}))
SendRevoke == SendCMD({})
SendTyping == SendCMD({})
SendGroupMemberUpdate == SendCMD({})
SendChannelUpdateToGroup == SendCMD({})
SendChannelUpdateToUser(uid) == ToPerson(uid, SendCMD({}))
============================================================================
