---------------------------- MODULE FriendPolicy ----------------------------
(***************************************************************************)
(* FriendPolicyHandler (bot_client/access/friend_policy.py): the friend    *)
(* list is read once, after login, and every pending friend request is     *)
(* answered by the allowlist policy; from then on only FriendAcceptedPush  *)
(* packets change the cache.                                               *)
(*                                                                         *)
(* A request of this module and its answer are one step, taken by server   *)
(* and client together; a request whose answer is lost is a step of its    *)
(* own, after which start() fails.                                         *)
(***************************************************************************)
EXTENDS LiteIMServer

CONSTANTS
  Allowlisted,                   \* users the access policy allows
  AutoAcceptFriendRequests,      \* auto_accept_friend_requests
  RejectNonAllowlistedRequests   \* reject_non_allowlisted_friend_requests

ASSUME PolicyAssumption ==
  /\ Allowlisted \subseteq User
  /\ AutoAcceptFriendRequests \in BOOLEAN
  /\ RejectNonAllowlistedRequests \in BOOLEAN

VARIABLES
  phase,   \* how far the runtime is: see Phase
  todo     \* friend requests sync_after_login has still to look at

Starting == {"friends", "requests_list", "requests", "pull"}
Phase    == {"down"} \cup Starting \cup {"offline", "push", "dead"}

PolicyTypeOK ==
  /\ phase \in Phase
  /\ todo \subseteq User

Allows(u) == u \in Allowlisted

(* What the policy does with a pending request; the server's part of it.   *)
Accepts(u) == Allows(u) /\ AutoAcceptFriendRequests
Rejects(u) == ~Allows(u) /\ RejectNonAllowlistedRequests

ServerAccepts(u) ==
  /\ serverFriends'  = serverFriends \cup {u}
  /\ friendRequests' = friendRequests \ {u}
ServerRejects(u) ==
  /\ friendRequests' = friendRequests \ {u}
  /\ UNCHANGED serverFriends

otherServerVars == <<sessionVars, pushQueue, inflight, answer, stored, arrived,
                     pushes, accepted, offlineAcked>>

-----------------------------------------------------------------------------
ListFriends ==
  /\ phase = "friends" /\ LoggedIn
  /\ ReplaceFriends(serverFriends)
  /\ phase' = "requests_list"
  /\ UNCHANGED <<todo, serverVars>>

ListFriendRequests ==
  /\ phase = "requests_list" /\ LoggedIn
  /\ todo' = friendRequests
  /\ phase' = "requests"
  /\ UNCHANGED <<stateVars, serverVars>>

ApplyRequestPolicy(u) ==
  /\ phase = "requests" /\ u \in todo
  /\ todo' = todo \ {u}
  /\ UNCHANGED <<phase, otherServerVars>>
  /\ \/ /\ Accepts(u) /\ LoggedIn
        /\ ServerAccepts(u)
        /\ UpsertFriend(u, "accepted")
     \/ /\ Rejects(u) /\ LoggedIn
        /\ ServerRejects(u)
        /\ RecordFriendPolicyEvent("rejected", u)
     \/ /\ ~Accepts(u) /\ ~Rejects(u)
        /\ RecordFriendPolicyEvent("left_pending", u)
        /\ UNCHANGED <<serverFriends, friendRequests>>

RequestsDone ==
  /\ phase = "requests" /\ todo = {}
  /\ phase' = "pull"
  /\ UNCHANGED <<todo, stateVars, serverVars>>

(* Mutant: the push is recorded, the cache is not updated.                 *)
HandleFriendAcceptedNoUpsert(u) == RecordFriendPolicyEvent("accepted_push", u)

(* FriendAcceptedPush, called by the runtime's push loop.                  *)
HandleFriendAccepted(u) == UpsertFriend(u, "accepted_push")
=============================================================================
