----------------------------- MODULE BotRuntime -----------------------------
(***************************************************************************)
(* EchoBotRuntime and AgentBotRuntime (bot_client/runtime/app.py) as the   *)
(* script scripts/runtime/run_bot_client.py runs them: start() logs in,    *)
(* syncs the friends, works through the offline messages and only then     *)
(* creates the push loop.  Around them: the LiteIM server, the users who   *)
(* write to the bot, losses of the connection, and ends of the process.    *)
(***************************************************************************)
EXTENDS BotMessageHandler

CONSTANTS
  MaxRuns,    \* bound: starts of the process
  MaxPush,    \* bound: pushes of one message
  MaxQueue,   \* bound: packets waiting in push_queue
  Receipt     \* messages whose delivery receipt the server may push

ASSUME BoundAssumption ==
  /\ MaxRuns \in Nat /\ MaxPush \in Nat /\ MaxQueue \in Nat
  /\ Receipt \subseteq Message

vars == <<stateVars, serverVars, phase, todo, handlerVars>>

TypeOK ==
  /\ StateTypeOK
  /\ ServerTypeOK
  /\ PolicyTypeOK
  /\ HandlerTypeOK

Init ==
  /\ StateInit
  /\ ServerInit
  /\ HandlerInit
  /\ phase = "down"
  /\ todo = {}

localVars == <<stateVars, phase, todo, handlerVars>>

-----------------------------------------------------------------------------
(* The process: start(), its failure, and its end                          *)

(* A fresh process: state file loaded, connected and logged in.            *)
Start ==
  /\ phase = "down" /\ run < MaxRuns
  /\ run' = run + 1
  /\ connected' = TRUE
  /\ identity' = TRUE
  /\ phase' = "friends"
  /\ UNCHANGED <<stateVars, handlerVars, todo, pushQueue, inflight, answer, stored,
                 arrived, pushes, accepted, offlineAcked, serverFriends,
                 friendRequests>>

(* A request of the friend sync or the offline pull fails; start() raises. *)
StartFails == phase \in Starting /\ ProcessEnds

(* As StartFails, but the server did act on the policy's request.          *)
StartFailsLate(u) ==
  /\ phase = "requests" /\ u \in todo /\ connected
  /\ \/ Accepts(u) /\ ServerAccepts(u)
     \/ Rejects(u) /\ ServerRejects(u)
  /\ phase' = "down"
  /\ connected' = FALSE
  /\ identity' = FALSE
  /\ pushQueue' = <<>>
  /\ answer' = "none"
  /\ todo' = {}
  /\ UNCHANGED <<stateVars, handlerVars, run, inflight, stored, arrived, pushes,
                 accepted, offlineAcked>>

(* kill, power loss, or SIGTERM: stop() cancels the push loop wherever it  *)
(* awaits and closes the client.                                           *)
Terminate == phase # "down" /\ ProcessEnds

-----------------------------------------------------------------------------
(* The server and the line *)

(* The response is matched to the waiting request by its sequence id.      *)
Awaited(r) ==
  /\ pc \in Waiting /\ r.op = pc /\ r.run = run
  /\ r.msgs = IF pc = "offline_ack" THEN toAck ELSE {cur}

HandleRequest(r) ==
  /\ r \in inflight
  /\ inflight' = inflight \ {r}
  /\ answer' = IF Awaited(r) /\ LoggedIn THEN "ok" ELSE answer
  /\ stored' = IF r.op \in {"delivery_ack", "offline_ack"}
               THEN stored \ r.msgs ELSE stored
  /\ offlineAcked' = IF r.op = "offline_ack"
                     THEN offlineAcked \cup r.msgs ELSE offlineAcked
  /\ accepted' = IF r.op = Sending
                 THEN accepted \cup {r.reply} ELSE accepted
  /\ UNCHANGED <<localVars, sessionVars, pushQueue, arrived, pushes,
                 serverFriends, friendRequests>>

RefuseRequest(r) ==
  /\ r \in inflight
  /\ inflight' = inflight \ {r}
  /\ answer' = IF Awaited(r) /\ LoggedIn THEN "error" ELSE answer
  /\ UNCHANGED <<localVars, sessionVars, pushQueue, stored, arrived, pushes,
                 accepted, offlineAcked, serverFriends, friendRequests>>

LoseRequest(r) ==
  /\ r \in inflight
  /\ ~LoggedIn \/ r.run # run
  /\ inflight' = inflight \ {r}
  /\ UNCHANGED <<localVars, sessionVars, pushQueue, answer, stored, arrived,
                 pushes, accepted, offlineAcked, serverFriends, friendRequests>>

(* The receive loop ends: the identity is dropped, and while the heartbeat *)
(* task is awaited the writer is still there and takes requests.           *)
LoseIdentity ==
  /\ identity
  /\ identity' = FALSE
  /\ UNCHANGED <<localVars, connected, run, pushQueue, inflight, answer, stored,
                 arrived, pushes, accepted, offlineAcked, serverFriends,
                 friendRequests>>

(* The writer goes: dropped by _mark_disconnected, which had dropped the   *)
(* identity before (in the same step when the heartbeat task runs it), or  *)
(* closed by a reset, which the receive loop only notices later.  Nothing  *)
(* in the runtime connects again.                                          *)
Disconnect ==
  /\ connected
  /\ connected' = FALSE
  /\ identity' = FALSE \/ UNCHANGED identity
  /\ UNCHANGED <<localVars, run, pushQueue, inflight, answer, stored, arrived,
                 pushes, accepted, offlineAcked, serverFriends, friendRequests>>

Arrive(m) ==
  /\ m \notin arrived
  /\ arrived' = arrived \cup {m}
  /\ stored' = stored \cup {m}
  /\ UNCHANGED <<localVars, sessionVars, pushQueue, inflight, answer, pushes,
                 accepted, offlineAcked, serverFriends, friendRequests>>

Enqueue(p) ==
  /\ LoggedIn /\ Len(pushQueue) < MaxQueue
  /\ pushQueue' = Append(pushQueue, p)

PushMessage(m) ==
  /\ m \in stored /\ pushes[m] < MaxPush
  /\ Enqueue([type |-> "message", msg |-> m])
  /\ pushes' = [pushes EXCEPT ![m] = @ + 1]
  /\ UNCHANGED <<localVars, sessionVars, inflight, answer, stored, arrived,
                 accepted, offlineAcked, serverFriends, friendRequests>>

PushReceipt(m) ==
  /\ m \in Receipt /\ m \in {a.msg : a \in accepted}
  /\ m \notin receipts
  /\ Enqueue([type |-> "receipt", msg |-> m])
  /\ UNCHANGED <<localVars, sessionVars, inflight, answer, stored, arrived,
                 pushes, accepted, offlineAcked, serverFriends, friendRequests>>

(* A friendship made by other means than the policy: the server tells the  *)
(* bot if it is logged in.                                                 *)
BecomeFriend(u) ==
  /\ u \notin serverFriends \cup {Bot}
  /\ serverFriends' = serverFriends \cup {u}
  /\ friendRequests' = friendRequests \ {u}
  /\ \/ Enqueue([type |-> "friend_accepted", user |-> u])
     \/ ~LoggedIn /\ UNCHANGED pushQueue
  /\ UNCHANGED <<localVars, sessionVars, inflight, answer, stored, arrived,
                 pushes, accepted, offlineAcked>>

-----------------------------------------------------------------------------
Friends ==
  \/ ListFriends \/ ListFriendRequests \/ RequestsDone
  \/ \E u \in User : ApplyRequestPolicy(u)

Handler ==
  \/ PullOffline \/ AckOffline \/ OfflineAckReturns
  \/ \E m \in Message : NextOffline(m)
  \/ TakePrivatePush \/ TakeRecord
  \/ DeliveryAckReturns \/ ReadAckReturns \/ SendReturns \/ MarkCurrent
  \/ \E res \in Result : ProcessorReturns(res)

HandlerStep == (Friends /\ UNCHANGED handlerVars) \/ Handler \/ RequestFails

Next ==
  \/ Start \/ StartFails \/ Terminate
  \/ \E u \in User : StartFailsLate(u) \/ BecomeFriend(u)
  \/ HandlerStep
  \/ \E r \in inflight : HandleRequest(r) \/ RefuseRequest(r) \/ LoseRequest(r)
  \/ LoseIdentity \/ Disconnect
  \/ \E m \in Message : Arrive(m) \/ PushMessage(m) \/ PushReceipt(m)

Spec == Init /\ [][Next]_vars

(* asyncio runs a coroutine that can go on, and every request has a        *)
(* timeout: whatever the handler or start() awaits is over some day.  The  *)
(* server, the users and whoever starts the process owe nothing.           *)
Fairness == WF_vars(HandlerStep \/ StartFails)

FairSpec == Spec /\ Fairness

=============================================================================
