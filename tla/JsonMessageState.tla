-------------------------- MODULE JsonMessageState --------------------------
(***************************************************************************)
(* The bot's durable state (bot_client/messages/state.py).                 *)
(*                                                                         *)
(* Every mutator changes one collection and rewrites the JSON file before  *)
(* it returns, through a temporary file that is renamed over the old one.  *)
(* What survives a crash is therefore exactly what the last mutator that   *)
(* ran left here: each operator below is one atomic, durable step, and two *)
(* mutators called one after the other are two steps.                      *)
(*                                                                         *)
(* The lists of the code are sets here: no operation reads a position or a *)
(* repetition.  The dedup key of a reply, agent-reply:<run id>:<message    *)
(* id> with run id liteim-message-<message id>, is the message itself.     *)
(***************************************************************************)
EXTENDS Naturals

CONSTANTS
  Message,      \* messages a LiteIM conversation can hand to the bot
  User          \* LiteIM accounts

VARIABLES
  processed,      \* _processed_message_ids
  friends,        \* keys of _friends
  policyEvents,   \* _friend_policy_events, as <<action, user>>
  groupMessages,  \* _group_messages
  receipts,       \* _receipts, by the message they are about
  replyEvents     \* _agent_reply_events

stateVars ==
  <<processed, friends, policyEvents, groupMessages, receipts, replyEvents>>

(***************************************************************************)
(* The client message id a reply carries: derived from the source message  *)
(* for a reply of the AgentService and for the fallback text, drawn fresh  *)
(* (uuid4, here the run and the send in it) when the processor names none. *)
(***************************************************************************)
ClientId == [kind : {"reply", "unavailable"}, msg : Message]
              \cup [kind : {"uuid"}, msg : Message, run : Nat, n : Nat]

PolicyAction == {"friend_list_synced", "accepted", "rejected", "left_pending",
                 "accepted_push", "blocked_non_friend_message"}

Nobody == "nobody"     \* user id 0: the event is about no profile

ReplyEvent == [status : {"sent", "failed"}, msg : Message, cid : ClientId]

StateTypeOK ==
  /\ processed     \subseteq Message
  /\ friends       \subseteq User
  /\ policyEvents  \subseteq PolicyAction \X (User \cup {Nobody})
  /\ groupMessages \subseteq Message
  /\ receipts      \subseteq Message
  /\ replyEvents   \subseteq ReplyEvent

StateInit ==
  /\ processed = {}
  /\ friends = {}
  /\ policyEvents = {}
  /\ groupMessages = {}
  /\ receipts = {}
  /\ replyEvents = {}

-----------------------------------------------------------------------------
(* Mutant: the local dedup of messages is dropped.                         *)
HasProcessedDropped(m) == FALSE

HasProcessed(m) == m \in processed

IsFriend(u) == u \in friends

(* The key set is rebuilt from the "sent" events when the file is loaded.  *)
HasSentAgentReply(m) ==
  \E e \in replyEvents : e.status = "sent" /\ e.msg = m

MarkProcessed(m) ==
  /\ processed' = processed \cup {m}
  /\ UNCHANGED <<friends, policyEvents, groupMessages, receipts, replyEvents>>

RecordReceipt(m) ==
  /\ receipts' = receipts \cup {m}
  /\ UNCHANGED <<processed, friends, policyEvents, groupMessages, replyEvents>>

RecordGroupMessage(m) ==
  /\ groupMessages' = groupMessages \cup {m}
  /\ UNCHANGED <<processed, friends, policyEvents, receipts, replyEvents>>

RecordFriendPolicyEvent(action, u) ==
  /\ policyEvents' = policyEvents \cup {<<action, u>>}
  /\ UNCHANGED <<processed, friends, groupMessages, receipts, replyEvents>>

(* replace_friends, or upsert_friend, followed by the record of the event: *)
(* no property tells the two writes apart.                                 *)
ReplaceFriends(fs) ==
  /\ friends' = fs
  /\ policyEvents' = policyEvents \cup {<<"friend_list_synced", Nobody>>}
  /\ UNCHANGED <<processed, groupMessages, receipts, replyEvents>>

UpsertFriend(u, action) ==
  /\ friends' = friends \cup {u}
  /\ policyEvents' = policyEvents \cup {<<action, u>>}
  /\ UNCHANGED <<processed, groupMessages, receipts, replyEvents>>

RecordAgentReplyEvent(status, m, cid) ==
  /\ replyEvents' = replyEvents \cup {[status |-> status, msg |-> m, cid |-> cid]}
  /\ UNCHANGED <<processed, friends, policyEvents, groupMessages, receipts>>
=============================================================================
