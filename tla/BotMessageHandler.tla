------------------------- MODULE BotMessageHandler -------------------------
(***************************************************************************)
(* BotMessageHandler (bot_client/messages/handler.py) with the processor   *)
(* it calls: EchoMessageProcessor or AgentServiceMessageProcessor.         *)
(*                                                                         *)
(* One step runs the code from one await to the next.  pc names the await, *)
(* or the gap between two saves of the state file, at which the coroutine  *)
(* stands; a crash can fall at each of them.                               *)
(***************************************************************************)
EXTENDS FiniteSets, FriendPolicy

CONSTANTS
  Mode,         \* "agent" or "echo": which runtime, hence which processor
  OfflineLimit  \* offline_message_limit

NoMessage == "no message"

ASSUME HandlerAssumption ==
  /\ Mode \in {"agent", "echo"}
  /\ OfflineLimit \in Nat \ {0}
  /\ NoMessage \notin Message

VARIABLES
  pc,       \* where the handler stands: see Step
  cur,      \* the message being processed
  result,   \* what the processor returned for it
  batch,    \* pulled offline messages still to be processed
  toAck,    \* acked_message_ids
  sends     \* sends[m]: replies to m put on the wire by this process

handlerVars == <<pc, cur, result, batch, toAck, sends>>

Waiting == {"delivery_ack", "read_ack", "offline_ack", Sending}
Step    == {"ready", "processor", "mark"} \cup Waiting
Result  == {"none", "silent", "reply", "fallback"}

HandlerTypeOK ==
  /\ pc \in Step
  /\ cur \in Message \cup {NoMessage}
  /\ result \in Result
  /\ batch \subseteq Message
  /\ toAck \subseteq Message
  /\ sends \in [Message -> Nat]

NothingSent == [m \in Message |-> 0]

HandlerInit ==
  /\ pc = "ready"
  /\ cur = NoMessage
  /\ result = "none"
  /\ batch = {}
  /\ toAck = {}
  /\ sends = NothingSent

-----------------------------------------------------------------------------
(* Mutant: own messages are not recognised.                                *)
IsSelfMessageDropped(m) == FALSE

(* _is_self_message: without an identity no message is the bot's own.      *)
IsSelfMessage(m) == identity /\ FromBot(m)

(* Mutant: a runtime built without require_friendship.                     *)
BlocksNonFriendMessageDropped(m) == FALSE

(* Both runtimes are built with require_friendship=True.                   *)
BlocksNonFriendMessage(m) == Private(m) /\ ~IsFriend(SenderOf[m])

(* Only the AgentService's commands carry a dedup key.                     *)
HasDedupKey == Mode = "agent"

ClientMessageId(m, res) ==
  IF HasDedupKey
  THEN [kind |-> IF res = "reply" THEN "reply" ELSE "unavailable", msg |-> m]
  ELSE [kind |-> "uuid", msg |-> m, run |-> run, n |-> sends[m]]

(* request(): the packet is written, then its response is awaited.         *)
Await(request) ==
  /\ connected
  /\ inflight' = inflight \cup {request}
  /\ answer' = "none"
  /\ pc' = request.op

Ack(op, ms) == [op |-> op, msgs |-> ms, run |-> run]

SendOf(m, res) ==
  [op |-> Sending, msgs |-> {m}, run |-> run,
   reply |-> [msg |-> m, cid |-> ClientMessageId(m, res), run |-> run]]

noRequest == <<inflight, answer>>
lineVars  == <<sessionVars, stored, arrived, pushes, accepted, offlineAcked,
               serverFriends, friendRequests>>
linkVars  == <<lineVars, pushQueue>>

(* The process is gone: what is not in the state file is lost, and so is   *)
(* the connection.                                                         *)
ProcessEnds ==
  /\ connected' = FALSE
  /\ identity' = FALSE
  /\ pushQueue' = <<>>
  /\ answer' = "none"
  /\ phase' = "down"
  /\ todo' = {}
  /\ pc' = "ready"
  /\ cur' = NoMessage
  /\ result' = "none"
  /\ batch' = {}
  /\ toAck' = {}
  /\ sends' = NothingSent
  /\ UNCHANGED <<run, inflight, stored, arrived, pushes, accepted, offlineAcked,
                 serverFriends, friendRequests, stateVars>>

(* An exception leaves the handler.  Under start() it ends the process;    *)
(* under the push loop it ends that task only, and the process lives on    *)
(* with the packets still in its queue.                                    *)
Raise(queue) ==
  \/ phase = "offline" /\ ProcessEnds
  \/ /\ phase = "push"
     /\ phase' = "dead"
     /\ pc' = "ready"
     /\ cur' = NoMessage
     /\ result' = "none"
     /\ pushQueue' = queue
     /\ UNCHANGED <<batch, toAck, sends, todo, stateVars, noRequest, lineVars>>

(* Mutant: the message is noted for the ack after cur was cleared.         *)
DoneLate(m) ==
  /\ pc' = "ready"
  /\ cur' = NoMessage
  /\ result' = "none"
  /\ toAck' = IF phase = "offline" THEN toAck \cup {NoMessage} ELSE toAck

(* _process_message is over for m; the offline loop notes it for the ack.  *)
Done(m) ==
  /\ pc' = "ready"
  /\ cur' = NoMessage
  /\ result' = "none"
  /\ toAck' = IF phase = "offline" THEN toAck \cup {m} ELSE toAck

Settle(m) == MarkProcessed(m) /\ Done(m) /\ UNCHANGED sends

(* Mutant: a blocked message is not marked as processed.                   *)
AdmitBlockedUnmarked(m) ==
  /\ ~HasProcessed(m)
  /\ \/ /\ BlocksNonFriendMessage(m)
        /\ RecordFriendPolicyEvent("blocked_non_friend_message", SenderOf[m])
        /\ Done(m)
        /\ UNCHANGED sends
     \/ /\ ~BlocksNonFriendMessage(m)
        /\ cur' = m
        /\ pc' = "processor"
        /\ UNCHANGED <<toAck, result, sends, stateVars>>

(* The part of _process_message between the delivery ack and the processor *)
(* for a message that was not processed before.                            *)
Admit(m) ==
  /\ ~HasProcessed(m)
  /\ cur' = m
  /\ UNCHANGED <<toAck, result, sends>>
  /\ \/ /\ BlocksNonFriendMessage(m)
        /\ RecordFriendPolicyEvent("blocked_non_friend_message", SenderOf[m])
        /\ pc' = "mark"
     \/ /\ ~BlocksNonFriendMessage(m)
        /\ pc' = "processor"
        /\ UNCHANGED stateVars

-----------------------------------------------------------------------------
(* sync_offline_after_login.  The server hands over at most limit messages *)
(* in one answer, and the code asks once.                                  *)
OfflinePage ==
  {b \in SUBSET stored : IF Cardinality(stored) <= OfflineLimit
                         THEN b = stored
                         ELSE Cardinality(b) = OfflineLimit}

PullOffline ==
  /\ phase = "pull" /\ LoggedIn
  /\ batch' \in OfflinePage
  /\ phase' = "offline"
  /\ UNCHANGED <<pc, cur, result, toAck, sends, todo, stateVars, serverVars>>

NextOffline(m) ==
  /\ phase = "offline" /\ pc = "ready" /\ m \in batch
  /\ batch' = batch \ {m}
  /\ UNCHANGED <<phase, todo, serverVars>>
  /\ \/ /\ IsSelfMessage(m)
        /\ UNCHANGED <<pc, cur, result, toAck, sends, stateVars>>
     \/ /\ ~IsSelfMessage(m) /\ HasProcessed(m)
        /\ toAck' = toAck \cup {m}
        /\ UNCHANGED <<pc, cur, result, sends, stateVars>>
     \/ ~IsSelfMessage(m) /\ Admit(m)

AckOffline ==
  /\ phase = "offline" /\ pc = "ready" /\ batch = {}
  /\ \/ /\ toAck = {}
        /\ phase' = "push"
        /\ UNCHANGED <<handlerVars, todo, stateVars, serverVars>>
     \/ /\ toAck # {}
        /\ Await(Ack("offline_ack", toAck))
        /\ UNCHANGED <<cur, result, batch, toAck, sends, phase, todo,
                       stateVars, linkVars>>
     \/ toAck # {} /\ ~connected /\ ProcessEnds

OfflineAckReturns ==
  /\ pc = "offline_ack" /\ answer = "ok"
  /\ pc' = "ready"
  /\ toAck' = {}
  /\ phase' = "push"
  /\ UNCHANGED <<cur, result, batch, sends, todo, stateVars, serverVars>>

-----------------------------------------------------------------------------
(* handle_packet, on the packet the push loop takes from the queue         *)
Taking(type) ==
  /\ phase = "push" /\ pc = "ready"
  /\ pushQueue # <<>> /\ Head(pushQueue).type = type

TakePrivatePush ==
  LET m == Head(pushQueue).msg
      rest == Tail(pushQueue)
  IN  /\ Taking("message") /\ Private(m)
      /\ \/ /\ IsSelfMessage(m)
            /\ pushQueue' = rest
            /\ UNCHANGED <<handlerVars, phase, todo, stateVars, noRequest, lineVars>>
         \/ /\ ~IsSelfMessage(m)
            /\ Await(Ack("delivery_ack", {m}))
            /\ cur' = m
            /\ pushQueue' = rest
            /\ UNCHANGED <<result, batch, toAck, sends, phase, todo, stateVars,
                           lineVars>>
         \/ ~connected /\ Raise(rest)

(* Everything else is only recorded. *)
TakeRecord ==
  /\ \/ /\ Taking("message") /\ ~Private(Head(pushQueue).msg)
        /\ RecordGroupMessage(Head(pushQueue).msg)
     \/ Taking("receipt") /\ RecordReceipt(Head(pushQueue).msg)
     \/ Taking("friend_accepted") /\ HandleFriendAccepted(Head(pushQueue).user)
  /\ pushQueue' = Tail(pushQueue)
  /\ UNCHANGED <<handlerVars, phase, todo, noRequest, lineVars>>

DeliveryAckReturns ==
  /\ pc = "delivery_ack" /\ answer = "ok"
  /\ UNCHANGED <<batch, phase, todo, serverVars>>
  /\ \/ /\ HasProcessed(cur)
        /\ Done(cur)
        /\ UNCHANGED <<sends, stateVars>>
     \/ Admit(cur)

-----------------------------------------------------------------------------
(* Mutants: the except branch records the reply as sent, leaves the        *)
(* message unprocessed for another try, or forgets the event.              *)
SendFailedAsSent(m, res) ==
  /\ RecordAgentReplyEvent("sent", m, ClientMessageId(m, res))
  /\ pc' = "mark"
  /\ result' = res
  /\ UNCHANGED <<cur, toAck, sends>>
SendFailedRetried(m, res) == Done(m) /\ UNCHANGED <<sends, stateVars>>
SendFailedUnrecorded(m, res) == Settle(m)

(* The reply, decided and sent without an await after the read ack.        *)
SendFailed(m, res) ==
  \/ /\ HasDedupKey
     /\ RecordAgentReplyEvent("failed", m, ClientMessageId(m, res))
     /\ pc' = "mark"
     /\ UNCHANGED <<cur, toAck, sends>>
     /\ result' = res
  \/ ~HasDedupKey /\ Settle(m)

NothingToSend(m, res) ==
  res = "silent" \/ (HasDedupKey /\ HasSentAgentReply(m))

(* Mutant: the message is marked as processed before the reply is sent.    *)
ReplyAfterMark(m, res) ==
  \/ NothingToSend(m, res) /\ Settle(m) /\ UNCHANGED noRequest
  \/ /\ ~NothingToSend(m, res)
     /\ Await(SendOf(m, res))
     /\ MarkProcessed(m)
     /\ sends' = [sends EXCEPT ![m] = @ + 1]
     /\ result' = res
     /\ UNCHANGED <<cur, toAck>>

Reply(m, res) ==
  \/ NothingToSend(m, res) /\ Settle(m) /\ UNCHANGED noRequest
  \/ /\ ~NothingToSend(m, res)
     /\ Await(SendOf(m, res))
     /\ sends' = [sends EXCEPT ![m] = @ + 1]
     /\ result' = res
     /\ UNCHANGED <<cur, toAck, stateVars>>
  \/ /\ ~NothingToSend(m, res)
     /\ ~connected
     /\ SendFailed(m, res)
     /\ UNCHANGED noRequest

(* The processor answers.  The AgentService's answer is a reply, nothing,  *)
(* or (service down, late, or its answer unusable) the fallback text; echo *)
(* returns the text, or nothing when it is disabled or the text is empty.  *)
ProcessorReturns(res) ==
  /\ pc = "processor"
  /\ res \in {"silent", "reply"} \cup (IF Mode = "agent" THEN {"fallback"} ELSE {})
  /\ \/ /\ Private(cur)
        /\ Await(Ack("read_ack", {cur}))
        /\ result' = res
        /\ UNCHANGED <<cur, batch, toAck, sends, phase, todo, stateVars, linkVars>>
     \/ Private(cur) /\ ~connected /\ Raise(pushQueue)
     \/ /\ ~Private(cur) /\ Reply(cur, res)
        /\ UNCHANGED <<batch, phase, todo, linkVars>>

ReadAckReturns ==
  /\ pc = "read_ack" /\ answer = "ok"
  /\ Reply(cur, result)
  /\ UNCHANGED <<batch, phase, todo, linkVars>>

SendReturns ==
  /\ pc = Sending /\ answer = "ok"
  /\ UNCHANGED <<batch, phase, todo, serverVars>>
  /\ \/ /\ HasDedupKey
        /\ RecordAgentReplyEvent("sent", cur, ClientMessageId(cur, result))
        /\ pc' = "mark"
        /\ UNCHANGED <<cur, result, toAck, sends>>
     \/ ~HasDedupKey /\ Settle(cur)

MarkCurrent ==
  /\ pc = "mark"
  /\ Settle(cur)
  /\ UNCHANGED <<batch, phase, todo, serverVars>>

(* Mutant: requests wait for their response without a timeout.             *)
RequestFailsNoTimeout ==
  /\ pc \in Waiting /\ answer = "error"
  /\ \/ /\ pc = Sending
        /\ SendFailed(cur, result)
        /\ answer' = "none"
        /\ UNCHANGED <<inflight, batch, phase, todo, linkVars>>
     \/ pc # Sending /\ Raise(pushQueue)

(* The awaited request fails: an error response, the 10 s timeout at any   *)
(* time, or the loss of the connection.  What the server did with it, or   *)
(* will still do, is another matter.                                       *)
RequestFails ==
  /\ pc \in Waiting
  /\ \/ /\ pc = Sending
        /\ SendFailed(cur, result)
        /\ answer' = "none"
        /\ UNCHANGED <<inflight, batch, phase, todo, linkVars>>
     \/ pc # Sending /\ Raise(pushQueue)
=============================================================================
