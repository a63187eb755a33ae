--------------------------- MODULE BotRuntimeProps ---------------------------
(***************************************************************************)
(* What the bot runtime promises about a message: how often it is          *)
(* answered, to whom, and what its records say about it afterwards.        *)
(***************************************************************************)
EXTENDS BotRuntime

(* A message the server was told to forget through the offline ack has its *)
(* outcome in the state file: acked_message_ids only ever holds processed  *)
(* messages (handler.py, sync_offline_after_login), whatever failed since. *)
AckedOfflineWasProcessed == offlineAcked \subseteq processed

(* A "sent" event is only recorded for a reply the server did take, under  *)
(* the client message id that was recorded (handler.py, _process_message). *)
SentMeansAccepted ==
  \A e \in replyEvents :
    e.status = "sent" =>
      \E a \in accepted : a.msg = e.msg /\ a.cid = e.cid

(* One run of the process sends at most one reply to a message, however    *)
(* often the server pushes it or hands it over as an offline message, and  *)
(* however its requests fail; a further reply takes a restart.             *)
OneSendPerRun == \A m \in Message : sends[m] <= 1

(* The reply of a private message goes to an account the server counts     *)
(* among the bot's friends, whatever the state of the friend cache.        *)
OnlyFriendsAreAnswered ==
  \A a \in accepted : Private(a.msg) => SenderOf[a.msg] \in serverFriends

(* While the client knows who it is, nothing is written about a message of *)
(* the bot's own: no ack and no reply, be the message checked before a     *)
(* disconnection and sent for after it, pushed, or pulled with others.     *)
(* (Between dropping its identity and dropping the writer it does answer:  *)
(* _is_self_message recognises nothing then, and the request goes out.)    *)
OwnMessagesAreIgnored ==
  [][\A r \in inflight' \ inflight : (\E m \in r.msgs : FromBot(m)) => ~identity]_vars

(* In agent mode a reply the server takes in this run of the process, be   *)
(* it long after the send timed out, is on record once its message is      *)
(* marked processed: sent or failed, with the client message id it had.    *)
RepliesOfThisRunAreOnRecord ==
  \A a \in accepted :
    (HasDedupKey /\ a.run = run /\ a.msg \in processed) =>
      \E e \in replyEvents : e.msg = a.msg /\ e.cid = a.cid

QueuedFriends ==
  {p.user : p \in {pushQueue[i] : i \in {j \in DOMAIN pushQueue :
                                       pushQueue[j].type = "friend_accepted"}}}

(* While the bot is logged in, the friends the server knows are the cached *)
(* ones and those whose FriendAcceptedPush waits in the queue: no accepted *)
(* friend falls between the list read at login and the pushes after it.    *)
FriendCacheCoherent ==
  (LoggedIn /\ phase # "friends") => serverFriends = friends \cup QueuedFriends

(* A message that has its outcome on disk is not answered any more, in     *)
(* this run or after any number of restarts.                               *)
NoSendOnceProcessed ==
  [][\A m \in processed : sends'[m] <= sends[m]]_vars

SendsInFlight == {r \in inflight : r.op = Sending}
RepliesInFlight == {r.reply : r \in SendsInFlight}

(* The bot's dealings with the server as a ledger: see MessageLedger.      *)
Ledger == INSTANCE MessageLedger WITH
  settled <- processed,
  wire    <- RepliesInFlight,
  taken   <- accepted

LedgerSpec == Ledger!Spec

-----------------------------------------------------------------------------
(* The inductive invariant, in named parts.                                *)

(* Steps at which the handler holds a message. *)
Admitted == {"processor", "read_ack", Sending, "mark"}
Holding  == Admitted \cup {"delivery_ack"}

(* The handler works only under the offline loop or the push loop, and it  *)
(* holds a message exactly between taking it and being done with it.       *)
ControlInv ==
  /\ phase \notin {"offline", "push"} => pc = "ready"
  /\ pc \in Holding <=> cur # NoMessage
  /\ pc = "offline_ack" => phase = "offline"

(* Offline acks speak of processed messages only, wherever they are.       *)
AckInv ==
  /\ toAck \subseteq processed
  /\ \A r \in inflight : r.op = "offline_ack" => r.msgs \subseteq processed
  /\ offlineAcked \subseteq processed

(* A message admitted to processing has no outcome yet, and a message that *)
(* has none and is not just being answered was not answered in this run.   *)
Answering(m) == cur = m /\ pc \in {Sending, "mark"}

SendInv ==
  /\ pc \in Admitted => cur \notin processed
  /\ \A m \in Message :
       /\ sends[m] <= 1
       /\ (m \notin processed /\ ~Answering(m)) => sends[m] = 0

(* What is on the wire or was taken as a reply was sent in some run, and,  *)
(* if in this one, for a message that is answered or being answered.       *)
WireInv ==
  /\ \A r \in SendsInFlight : r.msgs = {r.reply.msg} /\ r.reply.run = r.run
  /\ \A r \in inflight : r.run <= run
  /\ \A s \in RepliesInFlight \cup accepted :
       /\ s.run <= run
       /\ (phase # "down" /\ s.run = run)
            => (s.msg \in processed \/ Answering(s.msg))

(* The reply that is awaited is the one on the wire, and an answer to it   *)
(* means the server has it.                                                *)
RecordInv ==
  /\ \A r \in SendsInFlight :
       (HasDedupKey /\ pc = Sending /\ r.run = run /\ r.reply.msg = cur)
         => r.reply.cid = ClientMessageId(cur, result)
  /\ (HasDedupKey /\ pc = Sending /\ answer = "ok") =>
       \E a \in accepted : a.msg = cur /\ a.cid = ClientMessageId(cur, result)
  /\ SentMeansAccepted

(* A reply sent in this run is on record, unless it is the one still being *)
(* waited for, or the process ended before its message had an outcome.     *)
OnRecordInv ==
  HasDedupKey =>
    \A s \in RepliesInFlight \cup accepted :
      s.run = run =>
        \/ \E e \in replyEvents : e.msg = s.msg /\ e.cid = s.cid
        \/ pc = Sending /\ cur = s.msg /\ s.cid = ClientMessageId(cur, result)
        \/ phase = "down" /\ s.msg \notin processed

(* Whoever is cached as a friend, or announced as one in the queue, is one *)
(* for the server; and only friends get past the friendship check.         *)
FriendInv ==
  /\ friends \subseteq serverFriends
  /\ \A i \in DOMAIN pushQueue :
       pushQueue[i].type = "friend_accepted" => pushQueue[i].user \in serverFriends
  /\ (pc \in Admitted \ {"mark"} /\ Private(cur)) => SenderOf[cur] \in serverFriends
  /\ \A r \in SendsInFlight :
       Private(r.reply.msg) => SenderOf[r.reply.msg] \in serverFriends
  /\ OnlyFriendsAreAnswered

(* An own message gets past the identity check only when there is no       *)
(* identity, and within a run none comes back.                             *)
SelfInv ==
  /\ (cur # NoMessage /\ FromBot(cur)) => ~identity
  /\ (\E m \in toAck : FromBot(m)) => ~identity
  /\ phase # "offline" => toAck = {}

IInv == /\ TypeOK /\ ControlInv /\ AckInv /\ SendInv /\ WireInv
        /\ RecordInv /\ OnRecordInv /\ FriendInv /\ SelfInv

-----------------------------------------------------------------------------
InHand(m) ==
  \/ m \in batch \/ m = cur
  \/ \E i \in DOMAIN pushQueue : pushQueue[i] = [type |-> "message", msg |-> m]

(* A private message of somebody else that the bot has pulled or has in    *)
(* its push queue is processed, unless the process ends or its push loop   *)
(* dies: nothing in the handler waits for ever.                            *)
InHandIsWorkedOff ==
  \A m \in Message :
    (InHand(m) /\ Private(m) /\ ~FromBot(m))
      ~> (m \in processed \/ phase \in {"down", "dead"})

(* handler.py:93: group messages are only recorded and need no reply.      *)
GroupMessagesAreOnlyRecorded ==
  \A m \in GroupMessage : sends[m] = 0

(* README.md:24, "idempotent private replies": all replies the server      *)
(* takes for one message carry one client message id, by which it can tell *)
(* a repetition.                                                           *)
RepliesAreIdempotent ==
  \A a, b \in accepted : a.msg = b.msg => a.cid = b.cid

(* README.md:24, a BotClient "with login, heartbeat, reconnect": a bot in  *)
(* its push loop that has lost the connection gets it back, or ends.       *)
LostConnectionIsRestored ==
  (phase = "push" /\ ~connected) ~> (connected \/ phase = "down")
=============================================================================
