---------------------------- MODULE MCIMClient ----------------------------
(***************************************************************************)
(* Two users, two goroutines, three calls in all: one that leaves a doubt  *)
(* or a duplicate behind, one that succeeds after it, one that overlaps    *)
(* them.  Requests that the client and the gateway treat alike are         *)
(* represented by one of them: the lists by the blacklist and the          *)
(* subscribers, the messages by one of each shape.                         *)
(***************************************************************************)
EXTENDS IMClient, TLC

CONSTANTS u1, u2, c1, c2

MCUsers == {u1, u2}
MCCallers == {c1, c2}
MCRosters == {<<>>, <<u1, u2>>}
MCUidSets == {{u1}}
MCExplored ==
    Blacklist \cup AddSubscriber \cup RemoveSubscriber \cup DelChannel \cup BeRemoved
    \cup {r \in ClearConversationUnread \cup DeleteConversation \cup GetConversations :
             r.uids = {u1}}
    \cup StreamStart
    \cup Sending({SendGroupCreate(u1, <<u1, u2>>), SendFriendSure(u2), SendRevoke})
MCSymmetry == Permutations(MCCallers)
============================================================================
