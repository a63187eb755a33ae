-------------------------- MODULE BotRuntimeProofs --------------------------
(* Proofs about the bot runtime, for every value of its constants. *)
EXTENDS BotRuntimeProps, TLAPS

USE ServerAssumption, PolicyAssumption, HandlerAssumption, BoundAssumption

TypeInv == TypeOK /\ ControlInv

(* Operators: what they return has the type the state expects.             *)
LEMMA EmptyQueue == <<>> \in Seq(Packet)
OBVIOUS

LEMMA QueueAppend ==
  ASSUME NEW q \in Seq(Packet), NEW p \in Packet
  PROVE  Append(q, p) \in Seq(Packet)
OBVIOUS

LEMMA QueueHead ==
  ASSUME NEW q \in Seq(Packet), q # <<>>
  PROVE  /\ Head(q) \in Packet
         /\ Tail(q) \in Seq(Packet)
OBVIOUS

LEMMA AckType ==
  ASSUME NEW op \in AckOp, NEW ms \in SUBSET Message, run \in Nat
  PROVE  Ack(op, ms) \in Request
BY DEF Ack, Request

LEMMA ClientIdType ==
  ASSUME TypeOK, NEW m \in Message, NEW res
  PROVE  ClientMessageId(m, res) \in ClientId
BY DEF ClientMessageId, ClientId, TypeOK, ServerTypeOK, HandlerTypeOK

LEMMA SendType ==
  ASSUME TypeOK, NEW m \in Message, NEW res
  PROVE  SendOf(m, res) \in Request /\ SendOf(m, res).op = Sending
BY ClientIdType DEF SendOf, Request, Sent, TypeOK, ServerTypeOK

LEMMA AwaitType ==
  ASSUME inflight \subseteq Request, NEW request \in Request, Await(request)
  PROVE  inflight' \subseteq Request /\ pc' = request.op /\ answer' = "none"
BY DEF Await

LEMMA TakenType ==
  ASSUME NEW r \in Request, r.op = Sending
  PROVE  r.reply \in Sent
BY DEF Request, Sending, AckOp

LEMMA TypeInit == Init => TypeInv
<1> SUFFICES ASSUME Init PROVE TypeInv
  OBVIOUS
<1>1. StateTypeOK BY DEF Init, StateInit, StateTypeOK
<1>2. ServerTypeOK BY EmptyQueue DEF Init, ServerInit, ServerTypeOK
<1>3. PolicyTypeOK BY DEF Init, PolicyTypeOK, Phase
<1>4. HandlerTypeOK BY DEF Init, HandlerInit, NothingSent, HandlerTypeOK, Step, Result
<1>5. ControlInv
  BY DEF Init, HandlerInit, ControlInv, Holding, Admitted, Sending
<1>6. QED BY <1>1, <1>2, <1>3, <1>4, <1>5 DEF TypeInv, TypeOK

LEMMA TypeProcessEnds == TypeInv /\ ProcessEnds => TypeInv'
<1> SUFFICES ASSUME TypeInv, ProcessEnds PROVE TypeInv'
  OBVIOUS
<1> USE DEF ProcessEnds, TypeInv, TypeOK, stateVars
<1>1. StateTypeOK' BY DEF StateTypeOK
<1>2. ServerTypeOK' BY EmptyQueue DEF ServerTypeOK
<1>3. PolicyTypeOK' BY DEF PolicyTypeOK, Phase
<1>4. HandlerTypeOK' BY DEF HandlerTypeOK, NothingSent, Step, Result
<1>5. ControlInv' BY DEF ControlInv, Holding, Admitted, Sending
<1>6. QED BY <1>1, <1>2, <1>3, <1>4, <1>5

LEMMA TypeRaise ==
  ASSUME TypeInv, NEW q \in Seq(Packet), Raise(q)
  PROVE  TypeInv'
<1>1. CASE phase = "offline" /\ ProcessEnds BY <1>1, TypeProcessEnds
<1>2. CASE phase = "push"
  BY <1>2
     DEF Raise, TypeInv, TypeOK, StateTypeOK, ServerTypeOK, PolicyTypeOK,
         HandlerTypeOK, ControlInv, Phase, Step, Result, Holding, Admitted, Sending,
         Waiting, Starting, stateVars, noRequest, lineVars, sessionVars
<1>3. QED BY <1>1, <1>2 DEF Raise

(* What the reply part of the handler leaves well-typed: the file, its own *)
(* variables, and the request it may have put on the wire.                 *)
ReplyTypeOK ==
  /\ StateTypeOK
  /\ pc \in Step \ {"offline_ack"}
  /\ cur \in Message \cup {NoMessage}
  /\ pc \in Holding <=> cur # NoMessage
  /\ result \in Result
  /\ toAck \subseteq Message
  /\ sends \in [Message -> Nat]

LEMMA TypeSettle ==
  ASSUME TypeInv, NEW m \in Message, Settle(m)
  PROVE  ReplyTypeOK'
BY DEF Settle, MarkProcessed, Done, ReplyTypeOK, TypeInv, TypeOK, StateTypeOK,
       HandlerTypeOK, Step, Waiting, Holding, Admitted, Sending, Result

LEMMA TypeReplyEvent ==
  ASSUME TypeInv, NEW m \in Message, NEW res, NEW status \in {"sent", "failed"},
         RecordAgentReplyEvent(status, m, ClientMessageId(m, res))
  PROVE  StateTypeOK'
<1>1. [status |-> status, msg |-> m, cid |-> ClientMessageId(m, res)] \in ReplyEvent
  BY ClientIdType DEF ReplyEvent, TypeInv
<1>2. QED BY <1>1 DEF RecordAgentReplyEvent, StateTypeOK, TypeInv, TypeOK

LEMMA TypeSendFailed ==
  ASSUME TypeInv, cur \in Message, pc \in Holding, NEW res \in Result,
         SendFailed(cur, res)
  PROVE  ReplyTypeOK'
<1>1. CASE Settle(cur) BY <1>1, TypeSettle
<1>2. CASE ~Settle(cur)
  <2>1. StateTypeOK' BY <1>2, TypeReplyEvent DEF SendFailed
  <2>2. QED
    BY <1>2, <2>1
       DEF SendFailed, ReplyTypeOK, TypeInv, TypeOK, HandlerTypeOK, Step, Waiting,
           Holding, Admitted, Sending
<1>3. QED BY <1>1, <1>2

LEMMA TypeReply ==
  ASSUME TypeInv, cur \in Message, pc \in Holding, NEW res \in Result,
         Reply(cur, res)
  PROVE  ReplyTypeOK' /\ inflight' \subseteq Request /\ answer' \in {"none", "ok", "error"}
<1>1. CASE NothingToSend(cur, res) /\ Settle(cur) /\ UNCHANGED noRequest
  BY <1>1, TypeSettle DEF noRequest, TypeInv, TypeOK, ServerTypeOK
<1>2. CASE SendFailed(cur, res) /\ UNCHANGED noRequest
  BY <1>2, TypeSendFailed DEF noRequest, TypeInv, TypeOK, ServerTypeOK
<1>3. CASE /\ Await(SendOf(cur, res))
           /\ sends' = [sends EXCEPT ![cur] = @ + 1]
           /\ result' = res
           /\ UNCHANGED <<cur, toAck, stateVars>>
  <2>1. inflight' \subseteq Request /\ pc' = Sending /\ answer' = "none"
    BY <1>3, SendType, AwaitType DEF TypeInv, TypeOK, ServerTypeOK
  <2>2. QED
    BY <1>3, <2>1
       DEF ReplyTypeOK, TypeInv, TypeOK, StateTypeOK, HandlerTypeOK, Step, Waiting,
           Holding, Admitted, Sending, stateVars
<1>4. QED BY <1>1, <1>2, <1>3 DEF Reply

LEMMA TypeStep == TypeInv /\ [Next]_vars => TypeInv'
<1> SUFFICES ASSUME TypeInv, [Next]_vars PROVE TypeInv'
  OBVIOUS
<1> USE DEF TypeInv, TypeOK, StateTypeOK, ServerTypeOK, PolicyTypeOK, HandlerTypeOK,
            ControlInv, Phase, Starting, Step, Result, Waiting, Holding, Admitted, Sending,
            stateVars, serverVars, sessionVars, otherServerVars, handlerVars, localVars, lineVars, linkVars,
            noRequest
<1>1. CASE Start BY <1>1 DEF Start
<1>2. CASE StartFails BY <1>2, TypeProcessEnds DEF StartFails
<1>3. CASE Terminate BY <1>3, TypeProcessEnds DEF Terminate
<1>4. ASSUME NEW u \in User, StartFailsLate(u) PROVE TypeInv'
  BY <1>4, EmptyQueue DEF StartFailsLate, ServerAccepts, ServerRejects
<1>5. ASSUME NEW u \in User, BecomeFriend(u) PROVE TypeInv'
  <2>1. [type |-> "friend_accepted", user |-> u] \in Packet
    BY DEF Packet
  <2>2. Append(pushQueue, [type |-> "friend_accepted", user |-> u]) \in Seq(Packet)
    BY <2>1, QueueAppend
  <2>3. pushQueue' \in Seq(Packet) BY <1>5, <2>2 DEF BecomeFriend, Enqueue
  <2>4. QED BY <1>5, <2>3 DEF BecomeFriend
<1>6. CASE Friends /\ UNCHANGED handlerVars
  <2>1. CASE ListFriends BY <1>6, <2>1 DEF ListFriends, ReplaceFriends, PolicyAction
  <2>2. CASE ListFriendRequests BY <1>6, <2>2 DEF ListFriendRequests
  <2>3. CASE RequestsDone BY <1>6, <2>3 DEF RequestsDone
  <2>4. ASSUME NEW u \in User, ApplyRequestPolicy(u) PROVE TypeInv'
    BY <1>6, <2>4 DEF ApplyRequestPolicy, ServerAccepts, ServerRejects, UpsertFriend,
                      RecordFriendPolicyEvent, PolicyAction
  <2>5. QED BY <1>6, <2>1, <2>2, <2>3, <2>4 DEF Friends
<1>7. CASE PullOffline BY <1>7 DEF PullOffline, OfflinePage
<1>8. ASSUME NEW m \in Message, NextOffline(m) PROVE TypeInv'
  BY <1>8 DEF NextOffline, Admit, RecordFriendPolicyEvent, PolicyAction
<1>9. CASE AckOffline
  <2>1. CASE toAck = {} BY <1>9, <2>1, TypeProcessEnds DEF AckOffline
  <2>2. CASE toAck # {} /\ Await(Ack("offline_ack", toAck))
    <3>1. Ack("offline_ack", toAck) \in Request /\ Ack("offline_ack", toAck).op = "offline_ack"
      BY AckType DEF AckOp, Ack
    <3>2. QED BY <1>9, <2>2, <3>1, AwaitType, TypeProcessEnds DEF AckOffline, Await
  <2>3. CASE ~connected /\ ProcessEnds BY <2>3, TypeProcessEnds
  <2>4. QED BY <1>9, <2>1, <2>2, <2>3 DEF AckOffline
<1>10. CASE OfflineAckReturns BY <1>10 DEF OfflineAckReturns
<1>11. CASE TakePrivatePush
  <2> DEFINE m == Head(pushQueue).msg
  <2>1. m \in Message /\ Tail(pushQueue) \in Seq(Packet)
    BY <1>11, QueueHead DEF TakePrivatePush, Taking, Packet
  <2>2. CASE Raise(Tail(pushQueue)) BY <2>1, <2>2, TypeRaise
  <2>3. CASE IsSelfMessage(m)
    BY <1>11, <2>1, <2>2, <2>3 DEF TakePrivatePush, Taking
  <2>4. CASE Await(Ack("delivery_ack", {m})) /\ ~IsSelfMessage(m) /\ ~Raise(Tail(pushQueue))
    <3>1. Ack("delivery_ack", {m}) \in Request /\ Ack("delivery_ack", {m}).op = "delivery_ack"
      BY <2>1, AckType DEF AckOp, Ack
    <3>2. inflight' \subseteq Request /\ pc' = "delivery_ack" /\ answer' = "none"
      BY <2>4, <3>1, AwaitType
    <3>3. QED BY <1>11, <2>1, <2>4, <3>2 DEF TakePrivatePush, Taking
  <2>5. QED BY <1>11, <2>2, <2>3, <2>4 DEF TakePrivatePush
<1>12. CASE TakeRecord
  BY <1>12 DEF TakeRecord, Taking, RecordGroupMessage, RecordReceipt, HandleFriendAccepted,
               UpsertFriend, PolicyAction, Packet
<1>13. CASE DeliveryAckReturns
  BY <1>13 DEF DeliveryAckReturns, Done, Admit, RecordFriendPolicyEvent, PolicyAction
<1>14. CASE ReadAckReturns
  BY <1>14, TypeReply DEF ReadAckReturns, ReplyTypeOK
<1>15. CASE SendReturns
  <2>1. CASE Settle(cur) BY <1>15, <2>1, TypeSettle DEF SendReturns, ReplyTypeOK
  <2>2. CASE ~Settle(cur)
    <3>1. StateTypeOK' BY <1>15, <2>2, TypeReplyEvent DEF SendReturns
    <3>2. QED BY <1>15, <2>2, <3>1 DEF SendReturns
  <2>3. QED BY <2>1, <2>2
<1>16. CASE MarkCurrent
  BY <1>16 DEF MarkCurrent, Settle, Done, MarkProcessed
<1>17. ASSUME NEW res \in Result, ProcessorReturns(res) PROVE TypeInv'
  <2>1. CASE Raise(pushQueue) BY <2>1, TypeRaise
  <2>2. CASE Private(cur) /\ Await(Ack("read_ack", {cur})) /\ ~Raise(pushQueue)
    <3>1. Ack("read_ack", {cur}) \in Request /\ Ack("read_ack", {cur}).op = "read_ack"
      BY <1>17, AckType DEF AckOp, Ack, ProcessorReturns
    <3>2. inflight' \subseteq Request /\ pc' = "read_ack" /\ answer' = "none"
      BY <2>2, <3>1, AwaitType
    <3>3. QED BY <1>17, <2>2, <3>2 DEF ProcessorReturns
  <2>3. CASE ~Private(cur)
    BY <1>17, <2>3, TypeReply DEF ProcessorReturns, ReplyTypeOK
  <2>4. QED BY <1>17, <2>1, <2>2, <2>3 DEF ProcessorReturns
<1>18. CASE RequestFails
  <2>1. CASE pc = Sending
    BY <1>18, <2>1, TypeSendFailed DEF RequestFails, ReplyTypeOK
  <2>2. CASE pc # Sending BY <1>18, <2>2, TypeRaise DEF RequestFails
  <2>3. QED BY <2>1, <2>2
<1>19. ASSUME NEW r \in inflight, HandleRequest(r) PROVE TypeInv'
  <2>1. accepted' \subseteq Sent
    BY <1>19, TakenType DEF HandleRequest
  <2>2. r.msgs \subseteq Message BY DEF Request
  <2>3. QED BY <1>19, <2>1, <2>2 DEF HandleRequest
<1>20. ASSUME NEW r \in inflight, RefuseRequest(r) PROVE TypeInv'
  BY <1>20 DEF RefuseRequest
<1>21. ASSUME NEW r \in inflight, LoseRequest(r) PROVE TypeInv'
  BY <1>21 DEF LoseRequest
<1>22. CASE LoseIdentity \/ Disconnect
  <2>1. identity' \in BOOLEAN /\ connected' \in BOOLEAN
    BY <1>22 DEF LoseIdentity, Disconnect
  <2>2. QED BY <1>22, <2>1 DEF LoseIdentity, Disconnect
<1>23. ASSUME NEW m \in Message, Arrive(m) PROVE TypeInv'
  BY <1>23 DEF Arrive
<1>24. ASSUME NEW m \in Message, PushMessage(m) PROVE TypeInv'
  BY <1>24 DEF PushMessage, Enqueue, Packet
<1>25. ASSUME NEW m \in Message, PushReceipt(m) PROVE TypeInv'
  BY <1>25 DEF PushReceipt, Enqueue, Packet
<1>26. CASE UNCHANGED vars BY <1>26 DEF vars
<1>27. QED
  BY <1>1, <1>2, <1>3, <1>4, <1>5, <1>6, <1>7, <1>8, <1>9, <1>10, <1>11, <1>12, <1>13,
     <1>14, <1>15, <1>16, <1>17, <1>18, <1>19, <1>20, <1>21, <1>22, <1>23, <1>24, <1>25,
     <1>26 DEF Next, HandlerStep, Handler

(* The types of all variables, and where the handler can be when.          *)
THEOREM TypeCorrect == Spec => []TypeOK
<1>1. Spec => []TypeInv
  BY TypeInit, TypeStep, PTL DEF Spec
<1>2. TypeInv => TypeOK BY DEF TypeInv
<1>3. QED BY <1>1, <1>2, PTL

-----------------------------------------------------------------------------
(* The offline ack.                                                        *)
LEMMA AckInit == Init => AckInv
BY DEF Init, StateInit, ServerInit, HandlerInit, AckInv

LEMMA AckStep == TypeInv /\ AckInv /\ [Next]_vars => AckInv'
<1> SUFFICES ASSUME TypeInv, AckInv, [Next]_vars PROVE AckInv'
  OBVIOUS
<1> USE DEF AckInv, stateVars, serverVars, sessionVars, otherServerVars, handlerVars, localVars,
            lineVars, linkVars, noRequest
<1>e. ASSUME ProcessEnds PROVE AckInv'
  BY <1>e DEF ProcessEnds
<1>r. ASSUME NEW q, Raise(q) PROVE AckInv'
  BY <1>r, <1>e DEF Raise
<1>s. ASSUME NEW m, Settle(m) PROVE toAck' \subseteq processed' /\ processed \subseteq processed'
  BY <1>s DEF Settle, MarkProcessed, Done
<1>f. ASSUME NEW m, NEW res, SendFailed(m, res)
      PROVE  toAck' \subseteq processed' /\ processed \subseteq processed'
  BY <1>f, <1>s DEF SendFailed, RecordAgentReplyEvent
<1>p. ASSUME NEW m, NEW res, Reply(m, res), UNCHANGED offlineAcked PROVE AckInv'
  BY <1>p, <1>s, <1>f DEF Reply, Await, SendOf, Sending
<1>1. CASE Start BY <1>1 DEF Start
<1>2. CASE StartFails BY <1>2, <1>e DEF StartFails
<1>3. CASE Terminate BY <1>3, <1>e DEF Terminate
<1>4. ASSUME NEW u \in User, StartFailsLate(u) PROVE AckInv'
  BY <1>4 DEF StartFailsLate
<1>5. ASSUME NEW u \in User, BecomeFriend(u) PROVE AckInv'
  BY <1>5 DEF BecomeFriend
<1>6. CASE Friends /\ UNCHANGED handlerVars
  BY <1>6 DEF Friends, ListFriends, ListFriendRequests, RequestsDone, ApplyRequestPolicy,
              ReplaceFriends, UpsertFriend, RecordFriendPolicyEvent
<1>7. CASE PullOffline BY <1>7 DEF PullOffline
<1>8. ASSUME NEW m \in Message, NextOffline(m) PROVE AckInv'
  BY <1>8 DEF NextOffline, Admit, RecordFriendPolicyEvent, HasProcessed
<1>9. CASE AckOffline BY <1>9, <1>e DEF AckOffline, Await, Ack
<1>10. CASE OfflineAckReturns BY <1>10 DEF OfflineAckReturns
<1>11. CASE TakePrivatePush BY <1>11, <1>r DEF TakePrivatePush, Await, Ack
<1>12. CASE TakeRecord
  BY <1>12 DEF TakeRecord, RecordGroupMessage, RecordReceipt, HandleFriendAccepted, UpsertFriend
<1>13. CASE DeliveryAckReturns
  BY <1>13 DEF DeliveryAckReturns, Done, HasProcessed, Admit, RecordFriendPolicyEvent
<1>14. CASE ReadAckReturns BY <1>14, <1>p DEF ReadAckReturns
<1>15. CASE SendReturns BY <1>15, <1>s DEF SendReturns, RecordAgentReplyEvent
<1>16. CASE MarkCurrent BY <1>16, <1>s DEF MarkCurrent
<1>17. ASSUME NEW res \in Result, ProcessorReturns(res) PROVE AckInv'
  BY <1>17, <1>r, <1>p DEF ProcessorReturns, Await, Ack
<1>18. CASE RequestFails BY <1>18, <1>r, <1>f DEF RequestFails
<1>19. ASSUME NEW r \in inflight, HandleRequest(r) PROVE AckInv'
  BY <1>19 DEF HandleRequest
<1>20. ASSUME NEW r \in inflight, RefuseRequest(r) \/ LoseRequest(r) PROVE AckInv'
  BY <1>20 DEF RefuseRequest, LoseRequest
<1>21. ASSUME NEW m \in Message, Arrive(m) \/ PushMessage(m) \/ PushReceipt(m) PROVE AckInv'
  BY <1>21 DEF Arrive, PushMessage, PushReceipt
<1>22. CASE LoseIdentity \/ Disconnect \/ UNCHANGED vars BY <1>22 DEF LoseIdentity, Disconnect, vars
<1>23. QED
  BY <1>1, <1>2, <1>3, <1>4, <1>5, <1>6, <1>7, <1>8, <1>9, <1>10, <1>11, <1>12, <1>13,
     <1>14, <1>15, <1>16, <1>17, <1>18, <1>19, <1>20, <1>21, <1>22
     DEF Next, HandlerStep, Handler

(* What the server was told to forget has its outcome on disk.             *)
THEOREM AckedOfflineSafe == Spec => []AckedOfflineWasProcessed
<1>1. Spec => [](TypeInv /\ AckInv)
  BY TypeInit, TypeStep, AckInit, AckStep, PTL DEF Spec
<1>2. AckInv => AckedOfflineWasProcessed BY DEF AckInv, AckedOfflineWasProcessed
<1>3. QED BY <1>1, <1>2, PTL

-----------------------------------------------------------------------------
(* How often a message is answered.                                        *)
LEMMA SendInit == Init => SendInv
BY DEF Init, StateInit, ServerInit, HandlerInit, SendInv, NothingSent, Admitted, Answering, Sending

LEMMA SendStep == TypeInv /\ SendInv /\ [Next]_vars => SendInv'
<1> SUFFICES ASSUME TypeInv, SendInv, [Next]_vars PROVE SendInv'
  OBVIOUS
<1> USE DEF SendInv, Answering, Admitted, Sending, stateVars, serverVars, sessionVars, otherServerVars,
            handlerVars, localVars, lineVars, linkVars, noRequest
<1>t. /\ sends \in [Message -> Nat] /\ run \in Nat
      /\ pc \in Holding <=> cur # NoMessage
      /\ cur \in Message \cup {NoMessage}
      /\ phase \notin {"offline", "push"} => pc = "ready"
      /\ pc = "offline_ack" => phase = "offline"
      /\ sends' \in [Message -> Nat] /\ run' \in Nat
  BY TypeStep DEF TypeInv, TypeOK, ServerTypeOK, HandlerTypeOK, ControlInv
<1>e. ASSUME ProcessEnds PROVE SendInv'
  BY <1>e DEF ProcessEnds, NothingSent
<1>r. ASSUME NEW q, Raise(q), pc \notin {Sending, "mark"} PROVE SendInv'
  BY <1>r, <1>e, <1>t DEF Raise
<1>s. ASSUME Settle(cur), cur \in Message, UNCHANGED <<run, phase>> PROVE SendInv'
  BY <1>s, <1>t DEF Settle, MarkProcessed, Done
<1>f. ASSUME NEW res, SendFailed(cur, res), cur \in Message, pc \in Admitted,
             UNCHANGED <<run, phase>>
      PROVE  SendInv'
  BY <1>f, <1>s, <1>t DEF SendFailed, RecordAgentReplyEvent
<1>p. ASSUME NEW res, Reply(cur, res), cur \in Message, pc \in {"processor", "read_ack"},
             UNCHANGED <<run, phase>>
      PROVE  SendInv'
  <2>1. CASE Settle(cur) BY <2>1, <1>p, <1>s
  <2>2. CASE SendFailed(cur, res) BY <2>2, <1>p, <1>f
  <2>3. CASE /\ Await(SendOf(cur, res))
             /\ sends' = [sends EXCEPT ![cur] = @ + 1]
             /\ UNCHANGED <<cur, stateVars>>
    <3>1. sends[cur] = 0 BY <1>p, <1>t DEF Holding
    <3>2. pc' = Sending /\ sends'[cur] = sends[cur] + 1
      BY <2>3, <1>p, <1>t DEF Await, SendOf
    <3>3. QED BY <2>3, <3>1, <3>2, <1>p, <1>t
  <2>4. QED BY <2>1, <2>2, <2>3, <1>p DEF Reply
<1>1. CASE Start BY <1>1, <1>t DEF Start
<1>2. CASE StartFails BY <1>2, <1>e DEF StartFails
<1>3. CASE Terminate BY <1>3, <1>e DEF Terminate
<1>4. ASSUME NEW u \in User, StartFailsLate(u) PROVE SendInv'
  BY <1>4 DEF StartFailsLate
<1>5. ASSUME NEW u \in User, BecomeFriend(u) PROVE SendInv'
  BY <1>5 DEF BecomeFriend
<1>6. CASE Friends /\ UNCHANGED handlerVars
  BY <1>6 DEF Friends, ListFriends, ListFriendRequests, RequestsDone, ApplyRequestPolicy,
              ReplaceFriends, UpsertFriend, RecordFriendPolicyEvent
<1>7. CASE PullOffline BY <1>7 DEF PullOffline
<1>8. ASSUME NEW m \in Message, NextOffline(m) PROVE SendInv'
  BY <1>8, <1>t DEF NextOffline, Admit, RecordFriendPolicyEvent, HasProcessed, Holding
<1>9. CASE AckOffline BY <1>9, <1>e, <1>t DEF AckOffline, Await, Ack
<1>10. CASE OfflineAckReturns BY <1>10, <1>t DEF OfflineAckReturns
<1>11. CASE TakePrivatePush
  BY <1>11, <1>r, <1>t DEF TakePrivatePush, Taking, Await, Ack, Holding
<1>12. CASE TakeRecord
  BY <1>12 DEF TakeRecord, RecordGroupMessage, RecordReceipt, HandleFriendAccepted, UpsertFriend
<1>13. CASE DeliveryAckReturns
  BY <1>13, <1>t DEF DeliveryAckReturns, Done, HasProcessed, Admit, RecordFriendPolicyEvent
<1>14. CASE ReadAckReturns
  BY <1>14, <1>p, <1>t DEF ReadAckReturns, Holding
<1>15. CASE SendReturns
  BY <1>15, <1>s, <1>t DEF SendReturns, RecordAgentReplyEvent, Holding
<1>16. CASE MarkCurrent BY <1>16, <1>s, <1>t DEF MarkCurrent, Holding
<1>17. ASSUME NEW res \in Result, ProcessorReturns(res) PROVE SendInv'
  <2>1. CASE Private(cur) /\ Await(Ack("read_ack", {cur}))
    BY <1>17, <2>1, <1>r, <1>t DEF ProcessorReturns, Await, Ack
  <2>2. CASE Raise(pushQueue) BY <1>17, <2>2, <1>r DEF ProcessorReturns
  <2>3. CASE ~Private(cur) BY <1>17, <2>3, <1>p, <1>t DEF ProcessorReturns, Holding
  <2>4. QED BY <1>17, <2>1, <2>2, <2>3 DEF ProcessorReturns
<1>18. CASE RequestFails
  <2>1. CASE pc = Sending BY <1>18, <2>1, <1>f, <1>t DEF RequestFails, Holding
  <2>2. CASE pc # Sending BY <1>18, <2>2, <1>r DEF RequestFails, Waiting
  <2>3. QED BY <2>1, <2>2
<1>19. ASSUME NEW r \in inflight, HandleRequest(r) \/ RefuseRequest(r) \/ LoseRequest(r)
       PROVE  SendInv'
  BY <1>19 DEF HandleRequest, RefuseRequest, LoseRequest
<1>20. ASSUME NEW m \in Message, Arrive(m) \/ PushMessage(m) \/ PushReceipt(m) PROVE SendInv'
  BY <1>20 DEF Arrive, PushMessage, PushReceipt
<1>21. CASE LoseIdentity \/ Disconnect \/ UNCHANGED vars BY <1>21 DEF LoseIdentity, Disconnect, vars
<1>22. QED
  BY <1>1, <1>2, <1>3, <1>4, <1>5, <1>6, <1>7, <1>8, <1>9, <1>10, <1>11, <1>12, <1>13,
     <1>14, <1>15, <1>16, <1>17, <1>18, <1>19, <1>20, <1>21
     DEF Next, HandlerStep, Handler

(* However often a message is pushed or pulled and whatever requests fail, *)
(* one run of the process puts at most one reply to it on the wire.        *)
THEOREM OneSendPerRunSafe == Spec => []OneSendPerRun
<1>1. Spec => [](TypeInv /\ SendInv)
  BY TypeInit, TypeStep, SendInit, SendStep, PTL DEF Spec
<1>2. SendInv => OneSendPerRun BY DEF SendInv, OneSendPerRun
<1>3. QED BY <1>1, <1>2, PTL

(* The sends of a message grow only while it is being processed.           *)
SendsChange ==
  \/ sends' = sends
  \/ sends' = NothingSent
  \/ /\ pc \in {"processor", "read_ack"} /\ cur \in Message
     /\ sends' = [sends EXCEPT ![cur] = @ + 1]

LEMMA SendsStep ==
  ASSUME TypeInv, Next
  PROVE  SendsChange
<1> USE DEF SendsChange, handlerVars, localVars, lineVars, linkVars, noRequest, stateVars,
            serverVars, sessionVars
<1>1. ASSUME NEW q, Raise(q) PROVE SendsChange BY <1>1 DEF Raise, ProcessEnds
<1>2. ASSUME NEW m, NEW res, SendFailed(m, res) PROVE sends' = sends
  BY <1>2 DEF SendFailed, Settle
<1>3. ASSUME NEW res, Reply(cur, res), pc \in {"processor", "read_ack"}
      PROVE  SendsChange
  BY <1>2, <1>3
     DEF Reply, Settle, TypeInv, TypeOK, HandlerTypeOK, ControlInv, Holding, Admitted
<1>4. CASE HandlerStep
  <2>1. CASE ReadAckReturns BY <2>1, <1>3 DEF ReadAckReturns
  <2>2. ASSUME NEW res \in Result, ProcessorReturns(res) PROVE SendsChange
    BY <2>2, <1>1, <1>3 DEF ProcessorReturns
  <2>3. CASE RequestFails BY <2>3, <1>1, <1>2 DEF RequestFails
  <2>4. CASE TakePrivatePush \/ TakeRecord
    BY <2>4, <1>1 DEF TakePrivatePush, TakeRecord
  <2>5. CASE PullOffline \/ AckOffline \/ OfflineAckReturns
             \/ \E m \in Message : NextOffline(m)
    BY <2>5 DEF PullOffline, AckOffline, OfflineAckReturns, NextOffline, Admit, ProcessEnds
  <2>6. CASE DeliveryAckReturns \/ SendReturns \/ MarkCurrent
    BY <2>6 DEF DeliveryAckReturns, Admit, SendReturns, MarkCurrent, Settle
  <2>7. QED BY <1>4, <2>1, <2>2, <2>3, <2>4, <2>5, <2>6 DEF HandlerStep, Handler
<1>5. CASE ~HandlerStep
  BY <1>5 DEF Next, Start, StartFails, StartFailsLate, Terminate, ProcessEnds, BecomeFriend,
              HandleRequest, RefuseRequest, LoseRequest, LoseIdentity, Disconnect, Arrive,
              PushMessage, PushReceipt
<1>6. QED BY <1>4, <1>5

(* A message that has its outcome on disk is never answered again, in this *)
(* run or in a later one.                                                  *)
THEOREM NoSendOnceProcessedSafe == Spec => NoSendOnceProcessed
<1>1. TypeInv /\ SendInv /\ [Next]_vars
        => [\A m \in processed : sends'[m] <= sends[m]]_vars
  <2> SUFFICES ASSUME TypeInv, SendInv, Next, NEW m \in processed
               PROVE  sends'[m] <= sends[m]
    OBVIOUS
  <2>1. m \in Message /\ sends \in [Message -> Nat]
    BY DEF TypeInv, TypeOK, StateTypeOK, HandlerTypeOK
  <2>2. CASE sends' = sends BY <2>1, <2>2
  <2>3. CASE sends' = NothingSent BY <2>1, <2>3 DEF NothingSent
  <2>4. CASE /\ pc \in {"processor", "read_ack"} /\ cur \in Message
             /\ sends' = [sends EXCEPT ![cur] = @ + 1]
    <3>1. cur # m BY <2>4 DEF SendInv, Admitted
    <3>2. QED BY <2>1, <2>4, <3>1
  <2>5. QED BY <2>2, <2>3, <2>4, SendsStep DEF SendsChange
<1>2. Spec => [](TypeInv /\ SendInv)
  BY TypeInit, TypeStep, SendInit, SendStep, PTL DEF Spec
<1>3. QED BY <1>1, <1>2, PTL DEF Spec, NoSendOnceProcessed

-----------------------------------------------------------------------------
(* Whom the bot answers.                                                   *)
LEMMA FriendInit == Init => FriendInv
BY DEF Init, StateInit, ServerInit, HandlerInit, FriendInv, Admitted, Sending, SendsInFlight,
       OnlyFriendsAreAnswered

LEMMA FriendStep == TypeInv /\ FriendInv /\ [Next]_vars => FriendInv'
<1> SUFFICES ASSUME TypeInv, FriendInv, [Next]_vars PROVE FriendInv'
  OBVIOUS
<1> USE DEF FriendInv, OnlyFriendsAreAnswered, SendsInFlight, Admitted, Sending, Private,
            stateVars, serverVars, sessionVars, otherServerVars, handlerVars, localVars, lineVars,
            linkVars, noRequest
<1>t. /\ pushQueue \in Seq(Packet) /\ inflight \subseteq Request
      /\ accepted \subseteq Sent
      /\ pc \in Holding <=> cur # NoMessage
      /\ cur \in Message \cup {NoMessage}
  BY DEF TypeInv, TypeOK, ServerTypeOK, HandlerTypeOK, ControlInv
<1>e. ASSUME ProcessEnds PROVE FriendInv'
  BY <1>e DEF ProcessEnds
<1>q. ASSUME pushQueue # <<>>
      PROVE  /\ Head(pushQueue) = pushQueue[1] /\ 1 \in DOMAIN pushQueue
             /\ \A i \in DOMAIN Tail(pushQueue) :
                  i + 1 \in DOMAIN pushQueue /\ Tail(pushQueue)[i] = pushQueue[i + 1]
  BY <1>q, <1>t
<1>r. ASSUME NEW q, Raise(q), q = pushQueue \/ (pushQueue # <<>> /\ q = Tail(pushQueue))
      PROVE  FriendInv'
  BY <1>r, <1>e, <1>q DEF Raise
<1>a. ASSUME NEW m \in Message, Admit(m), UNCHANGED serverVars PROVE FriendInv'
  BY <1>a DEF Admit, BlocksNonFriendMessage, IsFriend, RecordFriendPolicyEvent
<1>s. ASSUME NEW m, Settle(m), UNCHANGED <<inflight, linkVars>> PROVE FriendInv'
  BY <1>s DEF Settle, MarkProcessed, Done
<1>f. ASSUME NEW res, SendFailed(cur, res), UNCHANGED <<inflight, linkVars>>
      PROVE  FriendInv'
  BY <1>f, <1>s DEF SendFailed, RecordAgentReplyEvent
<1>p. ASSUME NEW res, Reply(cur, res), pc \in {"processor", "read_ack"}, UNCHANGED linkVars
      PROVE  FriendInv'
  BY <1>p, <1>s, <1>f DEF Reply, Await, SendOf
<1>1. CASE Start BY <1>1 DEF Start
<1>2. CASE StartFails BY <1>2, <1>e DEF StartFails
<1>3. CASE Terminate BY <1>3, <1>e DEF Terminate
<1>4. ASSUME NEW u \in User, StartFailsLate(u) PROVE FriendInv'
  BY <1>4 DEF StartFailsLate, ServerAccepts, ServerRejects
<1>5. ASSUME NEW u \in User, BecomeFriend(u) PROVE FriendInv'
  BY <1>5, <1>t DEF BecomeFriend, Enqueue
<1>6. CASE Friends /\ UNCHANGED handlerVars
  BY <1>6 DEF Friends, ListFriends, ListFriendRequests, RequestsDone, ApplyRequestPolicy,
              ReplaceFriends, UpsertFriend, RecordFriendPolicyEvent, ServerAccepts, ServerRejects
<1>7. CASE PullOffline BY <1>7 DEF PullOffline
<1>8. ASSUME NEW m \in Message, NextOffline(m) PROVE FriendInv'
  BY <1>8, <1>a DEF NextOffline
<1>9. CASE AckOffline BY <1>9, <1>e DEF AckOffline, Await, Ack
<1>10. CASE OfflineAckReturns BY <1>10 DEF OfflineAckReturns
<1>11. CASE TakePrivatePush
  BY <1>11, <1>r, <1>q DEF TakePrivatePush, Taking, Await, Ack
<1>12. CASE TakeRecord
  BY <1>12, <1>q DEF TakeRecord, Taking, RecordGroupMessage, RecordReceipt,
                     HandleFriendAccepted, UpsertFriend
<1>13. CASE DeliveryAckReturns
  BY <1>13, <1>a, <1>t DEF DeliveryAckReturns, Done, Holding
<1>14. CASE ReadAckReturns BY <1>14, <1>p DEF ReadAckReturns
<1>15. CASE SendReturns BY <1>15, <1>s DEF SendReturns, RecordAgentReplyEvent
<1>16. CASE MarkCurrent BY <1>16, <1>s DEF MarkCurrent
<1>17. ASSUME NEW res \in Result, ProcessorReturns(res) PROVE FriendInv'
  BY <1>17, <1>r, <1>p DEF ProcessorReturns, Await, Ack
<1>18. CASE RequestFails BY <1>18, <1>r, <1>f DEF RequestFails
<1>19. ASSUME NEW r \in inflight, HandleRequest(r) PROVE FriendInv'
  BY <1>19 DEF HandleRequest
<1>20. ASSUME NEW r \in inflight, RefuseRequest(r) \/ LoseRequest(r) PROVE FriendInv'
  BY <1>20 DEF RefuseRequest, LoseRequest
<1>21. ASSUME NEW m \in Message, Arrive(m) \/ PushMessage(m) \/ PushReceipt(m) PROVE FriendInv'
  <2>1. CASE Arrive(m) BY <2>1 DEF Arrive
  <2>2. ASSUME NEW type \in {"message", "receipt"}, Enqueue([type |-> type, msg |-> m])
        PROVE  \A i \in DOMAIN pushQueue' :
                 pushQueue'[i].type = "friend_accepted" => pushQueue'[i].user \in serverFriends
    BY <2>2, <1>t DEF Enqueue
  <2>3. CASE PushMessage(m) BY <2>2, <2>3 DEF PushMessage
  <2>4. CASE PushReceipt(m) BY <2>2, <2>4 DEF PushReceipt
  <2>5. QED BY <1>21, <2>1, <2>3, <2>4
<1>22. CASE LoseIdentity \/ Disconnect \/ UNCHANGED vars BY <1>22 DEF LoseIdentity, Disconnect, vars
<1>23. QED
  BY <1>1, <1>2, <1>3, <1>4, <1>5, <1>6, <1>7, <1>8, <1>9, <1>10, <1>11, <1>12, <1>13,
     <1>14, <1>15, <1>16, <1>17, <1>18, <1>19, <1>20, <1>21, <1>22
     DEF Next, HandlerStep, Handler

(* Every reply to a private message that the server takes goes to one of   *)
(* the bot's friends, however stale the cache of friends may be.           *)
THEOREM OnlyFriendsAreAnsweredSafe == Spec => []OnlyFriendsAreAnswered
<1>1. Spec => [](TypeInv /\ FriendInv)
  BY TypeInit, TypeStep, FriendInit, FriendStep, PTL DEF Spec
<1>2. FriendInv => OnlyFriendsAreAnswered BY DEF FriendInv
<1>3. QED BY <1>1, <1>2, PTL

-----------------------------------------------------------------------------
(* The cache of friends.                                                   *)

(* The friends announced in a queue, after a packet was put in or taken.   *)
FriendsIn(q) ==
  {p.user : p \in {q[i] : i \in {j \in DOMAIN q : q[j].type = "friend_accepted"}}}

LEMMA FriendsInMember ==
  ASSUME NEW q, NEW u
  PROVE  u \in FriendsIn(q) <=>
           \E i \in DOMAIN q : q[i].type = "friend_accepted" /\ q[i].user = u
BY DEF FriendsIn

LEMMA FriendsInAppend ==
  ASSUME NEW q \in Seq(Packet), NEW p \in Packet
  PROVE  FriendsIn(Append(q, p)) =
           FriendsIn(q) \cup (IF p.type = "friend_accepted" THEN {p.user} ELSE {})
<1>1. DOMAIN Append(q, p) = DOMAIN q \cup {Len(q) + 1} OBVIOUS
<1>2. \A i \in DOMAIN q : Append(q, p)[i] = q[i] OBVIOUS
<1>3. Append(q, p)[Len(q) + 1] = p OBVIOUS
<1>4. ASSUME NEW u
      PROVE  u \in FriendsIn(Append(q, p)) <=>
               u \in FriendsIn(q) \/ (p.type = "friend_accepted" /\ p.user = u)
  <2>1. u \in FriendsIn(Append(q, p)) <=>
          \E i \in DOMAIN Append(q, p) :
            Append(q, p)[i].type = "friend_accepted" /\ Append(q, p)[i].user = u
    BY FriendsInMember
  <2>2. u \in FriendsIn(q) <=>
          \E i \in DOMAIN q : q[i].type = "friend_accepted" /\ q[i].user = u
    BY FriendsInMember
  <2>3. QED BY <1>1, <1>2, <1>3, <2>1, <2>2, Zenon
<1>5. QED BY <1>4

LEMMA FriendsInTail ==
  ASSUME NEW q \in Seq(Packet), q # <<>>
  PROVE  FriendsIn(q) =
           FriendsIn(Tail(q)) \cup
             (IF Head(q).type = "friend_accepted" THEN {Head(q).user} ELSE {})
<1>1. /\ Head(q) = q[1] /\ 1 \in DOMAIN q
      /\ \A i \in DOMAIN Tail(q) : i + 1 \in DOMAIN q /\ Tail(q)[i] = q[i + 1]
      /\ \A i \in DOMAIN q : i # 1 => i - 1 \in DOMAIN Tail(q) /\ q[i] = Tail(q)[i - 1]
  OBVIOUS
<1>2. ASSUME NEW u
      PROVE  u \in FriendsIn(q) <=>
               \/ u \in FriendsIn(Tail(q))
               \/ Head(q).type = "friend_accepted" /\ Head(q).user = u
  <2>1. u \in FriendsIn(q) <=>
          \E i \in DOMAIN q : q[i].type = "friend_accepted" /\ q[i].user = u
    BY FriendsInMember
  <2>2. u \in FriendsIn(Tail(q)) <=>
          \E i \in DOMAIN Tail(q) :
            Tail(q)[i].type = "friend_accepted" /\ Tail(q)[i].user = u
    BY FriendsInMember
  <2>3. ASSUME NEW i \in DOMAIN q, q[i].type = "friend_accepted", q[i].user = u
        PROVE  \/ u \in FriendsIn(Tail(q))
               \/ Head(q).type = "friend_accepted" /\ Head(q).user = u
    <3>1. CASE i = 1 BY <1>1, <2>3, <3>1
    <3>2. CASE i # 1
      <4>1. i - 1 \in DOMAIN Tail(q) /\ q[i] = Tail(q)[i - 1] BY <1>1, <3>2
      <4>2. QED BY <2>2, <2>3, <4>1
    <3>3. QED BY <3>1, <3>2
  <2>4. ASSUME u \in FriendsIn(Tail(q)) PROVE u \in FriendsIn(q)
    <3>1. PICK i \in DOMAIN Tail(q) :
            Tail(q)[i].type = "friend_accepted" /\ Tail(q)[i].user = u
      BY <2>2, <2>4
    <3>2. i + 1 \in DOMAIN q /\ Tail(q)[i] = q[i + 1] BY <1>1
    <3>3. QED BY <2>1, <3>1, <3>2
  <2>5. ASSUME Head(q).type = "friend_accepted", Head(q).user = u PROVE u \in FriendsIn(q)
    BY <1>1, <2>1, <2>5
  <2>6. QED BY <2>1, <2>3, <2>4, <2>5
<1>3. QED BY <1>2

LEMMA CacheInit == Init => FriendCacheCoherent
BY DEF Init, ServerInit, FriendCacheCoherent, LoggedIn

LEMMA CacheStep ==
  TypeInv /\ FriendInv /\ FriendCacheCoherent /\ [Next]_vars => FriendCacheCoherent'
<1> SUFFICES ASSUME TypeInv, FriendInv, FriendCacheCoherent, [Next]_vars
             PROVE  FriendCacheCoherent'
  OBVIOUS
<1>d. /\ QueuedFriends = FriendsIn(pushQueue)
      /\ QueuedFriends' = FriendsIn(pushQueue')
  BY DEF QueuedFriends, FriendsIn
<1> USE DEF FriendCacheCoherent, LoggedIn, stateVars, serverVars, sessionVars, otherServerVars, handlerVars,
            localVars, lineVars, linkVars, noRequest
<1>t. pushQueue \in Seq(Packet) BY DEF TypeInv, TypeOK, ServerTypeOK
<1>k. FriendsIn(pushQueue) \subseteq serverFriends BY FriendsInMember DEF FriendInv
<1>e. ASSUME ProcessEnds PROVE FriendCacheCoherent'
  BY <1>e DEF ProcessEnds
<1>u. ASSUME UNCHANGED <<phase, connected, identity, pushQueue, serverFriends, friends>>
      PROVE  FriendCacheCoherent'
  BY <1>u, <1>d
<1>q. ASSUME pushQueue # <<>>, Head(pushQueue).type = "message"
      PROVE  FriendsIn(Tail(pushQueue)) = FriendsIn(pushQueue)
  BY <1>q, <1>t, FriendsInTail
<1>r. ASSUME NEW q, Raise(q), FriendsIn(q) = FriendsIn(pushQueue) PROVE FriendCacheCoherent'
  BY <1>r, <1>e, <1>d DEF Raise
<1>n. ASSUME NEW p \in Packet, Enqueue(p)
      PROVE  FriendsIn(pushQueue') = FriendsIn(pushQueue) \cup
               (IF p.type = "friend_accepted" THEN {p.user} ELSE {})
  BY <1>n, <1>t, FriendsInAppend DEF Enqueue
<1>s. ASSUME NEW m, Settle(m) PROVE UNCHANGED friends
  BY <1>s DEF Settle, MarkProcessed
<1>f. ASSUME NEW res, SendFailed(cur, res) PROVE UNCHANGED friends
  BY <1>f, <1>s DEF SendFailed, RecordAgentReplyEvent
<1>p. ASSUME NEW res, Reply(cur, res) PROVE UNCHANGED friends
  BY <1>p, <1>s, <1>f DEF Reply
<1>a. ASSUME NEW m, Admit(m) PROVE UNCHANGED friends
  BY <1>a DEF Admit, RecordFriendPolicyEvent
<1>1. CASE Start BY <1>1 DEF Start
<1>2. CASE StartFails \/ Terminate BY <1>2, <1>e DEF StartFails, Terminate
<1>3. ASSUME NEW u \in User, StartFailsLate(u) PROVE FriendCacheCoherent'
  BY <1>3 DEF StartFailsLate
<1>4. ASSUME NEW u \in User, BecomeFriend(u) PROVE FriendCacheCoherent'
  <2>1. CASE Enqueue([type |-> "friend_accepted", user |-> u])
    <3>1. [type |-> "friend_accepted", user |-> u] \in Packet BY DEF Packet
    <3>2. FriendsIn(pushQueue') = FriendsIn(pushQueue) \cup {u} BY <2>1, <3>1, <1>n
    <3>3. QED BY <1>4, <1>d, <2>1, <3>2 DEF BecomeFriend, Enqueue
  <2>2. CASE ~LoggedIn BY <1>4, <2>2 DEF BecomeFriend
  <2>3. QED BY <1>4, <2>1, <2>2 DEF BecomeFriend
<1>5. CASE Friends /\ UNCHANGED handlerVars
  <2>1. CASE ListFriends BY <2>1, <1>d, <1>k DEF ListFriends, ReplaceFriends
  <2>2. CASE ListFriendRequests BY <2>2, <1>d DEF ListFriendRequests
  <2>3. CASE RequestsDone BY <2>3, <1>d DEF RequestsDone
  <2>4. ASSUME NEW u \in User, ApplyRequestPolicy(u) PROVE FriendCacheCoherent'
    BY <2>4, <1>d DEF ApplyRequestPolicy, UpsertFriend, RecordFriendPolicyEvent,
                      ServerAccepts, ServerRejects
  <2>5. QED BY <1>5, <2>1, <2>2, <2>3, <2>4 DEF Friends
<1>6. CASE PullOffline BY <1>6, <1>d DEF PullOffline
<1>7. ASSUME NEW m \in Message, NextOffline(m) PROVE FriendCacheCoherent'
  BY <1>7, <1>a, <1>u DEF NextOffline
<1>8. CASE AckOffline BY <1>8, <1>e, <1>d DEF AckOffline, Await
<1>9. CASE OfflineAckReturns
  BY <1>9, <1>d DEF OfflineAckReturns, TypeInv, ControlInv
<1>10. CASE TakePrivatePush BY <1>10, <1>q, <1>r, <1>d DEF TakePrivatePush, Taking, Await
<1>11. CASE TakeRecord
  <2>1. CASE Taking("friend_accepted") /\ HandleFriendAccepted(Head(pushQueue).user)
    BY <1>11, <2>1, <1>d, <1>t, FriendsInTail
       DEF TakeRecord, Taking, HandleFriendAccepted, UpsertFriend
  <2>2. CASE /\ pushQueue # <<>> /\ Head(pushQueue).type # "friend_accepted"
             /\ UNCHANGED friends
    BY <1>11, <2>2, <1>d, <1>t, FriendsInTail DEF TakeRecord
  <2>3. QED BY <1>11, <2>1, <2>2 DEF TakeRecord, Taking, RecordGroupMessage, RecordReceipt
<1>12. CASE DeliveryAckReturns BY <1>12, <1>a, <1>u DEF DeliveryAckReturns
<1>13. CASE ReadAckReturns BY <1>13, <1>p, <1>u DEF ReadAckReturns
<1>14. CASE SendReturns BY <1>14, <1>s, <1>u DEF SendReturns, RecordAgentReplyEvent
<1>15. CASE MarkCurrent BY <1>15, <1>s, <1>u DEF MarkCurrent
<1>16. ASSUME NEW res \in Result, ProcessorReturns(res) PROVE FriendCacheCoherent'
  BY <1>16, <1>p, <1>r, <1>u DEF ProcessorReturns
<1>17. CASE RequestFails BY <1>17, <1>f, <1>r, <1>u DEF RequestFails
<1>18. ASSUME NEW r \in inflight, HandleRequest(r) \/ RefuseRequest(r) \/ LoseRequest(r)
       PROVE  FriendCacheCoherent'
  BY <1>18, <1>u DEF HandleRequest, RefuseRequest, LoseRequest
<1>19. ASSUME NEW m \in Message, Arrive(m) \/ PushMessage(m) \/ PushReceipt(m)
       PROVE  FriendCacheCoherent'
  <2>1. CASE Arrive(m) BY <2>1, <1>u DEF Arrive
  <2>2. ASSUME NEW type \in {"message", "receipt"}, Enqueue([type |-> type, msg |-> m])
        PROVE  FriendsIn(pushQueue') = FriendsIn(pushQueue)
    <3>1. [type |-> type, msg |-> m] \in Packet BY DEF Packet
    <3>2. QED BY <2>2, <3>1, <1>n
  <2>3. CASE PushMessage(m) BY <2>2, <2>3, <1>d DEF PushMessage
  <2>4. CASE PushReceipt(m) BY <2>2, <2>4, <1>d DEF PushReceipt
  <2>5. QED BY <1>19, <2>1, <2>3, <2>4
<1>20. CASE LoseIdentity \/ Disconnect \/ UNCHANGED vars BY <1>20, <1>u DEF LoseIdentity, Disconnect, vars
<1>21. QED
  BY <1>1, <1>2, <1>3, <1>4, <1>5, <1>6, <1>7, <1>8, <1>9, <1>10, <1>11, <1>12, <1>13,
     <1>14, <1>15, <1>16, <1>17, <1>18, <1>19, <1>20
     DEF Next, HandlerStep, Handler

(* As long as the connection is up, every friend of the server's list is   *)
(* cached or announced in the push queue: none falls between the list read *)
(* at login and the pushes that follow, whatever arrives in between.       *)
THEOREM FriendCacheCoherentSafe == Spec => []FriendCacheCoherent
BY TypeInit, TypeStep, FriendInit, FriendStep, CacheInit, CacheStep, PTL DEF Spec

-----------------------------------------------------------------------------
(* The bot's own messages.                                                 *)
LEMMA SelfInit == Init => SelfInv
BY DEF Init, StateInit, ServerInit, HandlerInit, SelfInv

LEMMA SelfStep == TypeInv /\ SelfInv /\ [Next]_vars => SelfInv'
<1> SUFFICES ASSUME TypeInv, SelfInv, [Next]_vars PROVE SelfInv'
  OBVIOUS
<1> USE DEF SelfInv, FromBot, IsSelfMessage, Sending,
            stateVars, serverVars, sessionVars, otherServerVars, handlerVars, localVars, lineVars,
            linkVars, noRequest
<1>t. /\ phase \notin {"offline", "push"} => pc = "ready"
      /\ pc \in Holding <=> cur # NoMessage
      /\ pc = "offline_ack" => phase = "offline"
  BY DEF TypeInv, ControlInv
<1>h. Holding = {"processor", "read_ack", "send", "mark", "delivery_ack"}
  BY DEF Holding, Admitted
<1>e. ASSUME ProcessEnds PROVE SelfInv'
  BY <1>e DEF ProcessEnds
<1>r. ASSUME NEW q, Raise(q) PROVE SelfInv'
  BY <1>r, <1>e DEF Raise
<1>s. ASSUME Settle(cur), pc \in Holding, UNCHANGED <<lineVars, phase>> PROVE SelfInv'
  BY <1>s, <1>t DEF Settle, MarkProcessed, Done
<1>f. ASSUME NEW res, SendFailed(cur, res), pc \in Holding, UNCHANGED <<lineVars, phase>>
      PROVE  SelfInv'
  BY <1>f, <1>s DEF SendFailed, RecordAgentReplyEvent
<1>p. ASSUME NEW res, Reply(cur, res), pc \in {"processor", "read_ack"},
             UNCHANGED <<lineVars, phase>>
      PROVE  SelfInv'
  BY <1>p, <1>s, <1>f, <1>h DEF Reply, Await, SendOf
<1>1. CASE Start BY <1>1, <1>t, <1>h DEF Start
<1>2. CASE StartFails \/ Terminate BY <1>2, <1>e DEF StartFails, Terminate
<1>3. ASSUME NEW u \in User, StartFailsLate(u) \/ BecomeFriend(u) PROVE SelfInv'
  BY <1>3, <1>t DEF StartFailsLate, BecomeFriend
<1>4. CASE Friends /\ UNCHANGED handlerVars
  BY <1>4 DEF Friends, ListFriends, ListFriendRequests, RequestsDone, ApplyRequestPolicy
<1>5. CASE PullOffline BY <1>5 DEF PullOffline
<1>6. ASSUME NEW m \in Message, NextOffline(m) PROVE SelfInv'
  BY <1>6 DEF NextOffline, Admit
<1>7. CASE AckOffline BY <1>7, <1>e DEF AckOffline, Await, Ack
<1>8. CASE OfflineAckReturns BY <1>8, <1>t, <1>h DEF OfflineAckReturns
<1>9. CASE TakePrivatePush BY <1>9, <1>r DEF TakePrivatePush, Taking, Await, Ack
<1>10. CASE TakeRecord BY <1>10 DEF TakeRecord
<1>11. CASE DeliveryAckReturns
  BY <1>11, <1>t, <1>h DEF DeliveryAckReturns, Done, Admit
<1>12. CASE ReadAckReturns BY <1>12, <1>p DEF ReadAckReturns
<1>13. CASE SendReturns \/ MarkCurrent
  BY <1>13, <1>s, <1>h DEF SendReturns, MarkCurrent
<1>14. ASSUME NEW res \in Result, ProcessorReturns(res) PROVE SelfInv'
  BY <1>14, <1>r, <1>p DEF ProcessorReturns, Await, Ack
<1>15. CASE RequestFails BY <1>15, <1>r, <1>f, <1>h DEF RequestFails
<1>16. ASSUME NEW r \in inflight, HandleRequest(r) \/ RefuseRequest(r) \/ LoseRequest(r)
       PROVE  SelfInv'
  BY <1>16 DEF HandleRequest, RefuseRequest, LoseRequest
<1>17. ASSUME NEW m \in Message, Arrive(m) \/ PushMessage(m) \/ PushReceipt(m) PROVE SelfInv'
  BY <1>17 DEF Arrive, PushMessage, PushReceipt, Enqueue
<1>18. CASE LoseIdentity \/ Disconnect \/ UNCHANGED vars
  BY <1>18 DEF LoseIdentity, Disconnect, vars
<1>19. QED
  BY <1>1, <1>2, <1>3, <1>4, <1>5, <1>6, <1>7, <1>8, <1>9, <1>10, <1>11, <1>12, <1>13,
     <1>14, <1>15, <1>16, <1>17, <1>18
     DEF Next, HandlerStep, Handler

(* A request that goes out is about the message in hand, or about those to *)
(* be acked after the offline messages; none of them is the bot's own.     *)
NewRequestsAreOfOthers ==
  \A r \in inflight' \ inflight : (\E m \in r.msgs : FromBot(m)) => ~identity

LEMMA OwnIgnoredStep == TypeInv /\ SelfInv /\ [Next]_vars => [NewRequestsAreOfOthers]_vars
<1> SUFFICES ASSUME TypeInv, SelfInv, Next PROVE NewRequestsAreOfOthers
  OBVIOUS
<1> USE DEF NewRequestsAreOfOthers, SelfInv, FromBot, IsSelfMessage,
            stateVars, serverVars, sessionVars, otherServerVars, handlerVars, localVars, lineVars,
            linkVars, noRequest
<1>t. pc \in {"processor", "read_ack"} => cur # NoMessage
  BY DEF TypeInv, ControlInv, Holding, Admitted
<1>q. inflight' \subseteq inflight => NewRequestsAreOfOthers
  OBVIOUS
<1>e. ASSUME ProcessEnds PROVE NewRequestsAreOfOthers
  BY <1>e DEF ProcessEnds
<1>r. ASSUME NEW q, Raise(q) PROVE NewRequestsAreOfOthers
  BY <1>r, <1>e DEF Raise
<1>p. ASSUME NEW res, Reply(cur, res), pc \in {"processor", "read_ack"}
      PROVE  NewRequestsAreOfOthers
  <2>1. CASE Await(SendOf(cur, res))
    <3>1. inflight' = inflight \cup {SendOf(cur, res)} /\ SendOf(cur, res).msgs = {cur}
      BY <2>1 DEF Await, SendOf
    <3>2. QED BY <3>1, <1>p, <1>t
  <2>2. CASE inflight' = inflight BY <2>2
  <2>3. QED BY <1>p, <2>1, <2>2 DEF Reply
<1>1. CASE AckOffline
  <2>1. CASE Await(Ack("offline_ack", toAck)) BY <2>1 DEF Await, Ack
  <2>2. QED BY <1>1, <2>1, <1>e DEF AckOffline
<1>2. CASE TakePrivatePush
  <2> DEFINE m == Head(pushQueue).msg
  <2>1. CASE Await(Ack("delivery_ack", {m})) /\ ~IsSelfMessage(m)
    BY <2>1 DEF Await, Ack
  <2>2. QED BY <1>2, <2>1, <1>r DEF TakePrivatePush
<1>3. ASSUME NEW res \in Result, ProcessorReturns(res) PROVE NewRequestsAreOfOthers
  <2>1. CASE Await(Ack("read_ack", {cur})) BY <1>3, <1>t, <2>1 DEF Await, Ack, ProcessorReturns
  <2>2. QED BY <1>3, <2>1, <1>r, <1>p DEF ProcessorReturns
<1>4. CASE ReadAckReturns BY <1>4, <1>p DEF ReadAckReturns
<1>5. CASE RequestFails BY <1>5, <1>r DEF RequestFails
<1>6. CASE \/ Friends /\ UNCHANGED handlerVars
           \/ PullOffline \/ OfflineAckReturns \/ TakeRecord \/ DeliveryAckReturns
           \/ SendReturns \/ MarkCurrent \/ \E m \in Message : NextOffline(m)
  BY <1>6, <1>q
     DEF Friends, ListFriends, ListFriendRequests, RequestsDone, ApplyRequestPolicy,
         PullOffline, OfflineAckReturns, TakeRecord, DeliveryAckReturns, SendReturns,
         MarkCurrent, NextOffline
<1>7. CASE ~HandlerStep
  BY <1>7, <1>q, <1>e
     DEF Next, Start, StartFails, StartFailsLate, Terminate, BecomeFriend, HandleRequest,
         RefuseRequest, LoseRequest, LoseIdentity, Disconnect, Arrive, PushMessage, PushReceipt
<1>8. QED BY <1>1, <1>2, <1>3, <1>4, <1>5, <1>6, <1>7 DEF HandlerStep, Handler

(* As long as the client knows who it is, no ack and no reply goes out for *)
(* a message of the bot's own, whatever was lost since it was checked.     *)
THEOREM OwnMessagesAreIgnoredSafe == Spec => OwnMessagesAreIgnored
<1>1. TypeInv /\ SelfInv /\ [Next]_vars
        => [\A r \in inflight' \ inflight :
              (\E m \in r.msgs : FromBot(m)) => ~identity]_vars
  BY OwnIgnoredStep DEF NewRequestsAreOfOthers
<1>2. Spec => [](TypeInv /\ SelfInv)
  BY TypeInit, TypeStep, SelfInit, SelfStep, PTL DEF Spec
<1>3. QED BY <1>1, <1>2, PTL DEF Spec, OwnMessagesAreIgnored

-----------------------------------------------------------------------------
(* Replies on the wire.                                                    *)
LEMMA WireInit == Init => WireInv
BY DEF Init, ServerInit, WireInv, SendsInFlight, RepliesInFlight

LEMMA WireStep == TypeInv /\ SendInv /\ WireInv /\ [Next]_vars => WireInv'
<1> SUFFICES ASSUME TypeInv, SendInv, WireInv, [Next]_vars PROVE WireInv'
  OBVIOUS
<1> USE DEF WireInv, SendsInFlight, RepliesInFlight, Answering, Sending,
            stateVars, serverVars, sessionVars, otherServerVars, handlerVars, localVars, lineVars,
            linkVars, noRequest
<1>t. /\ run \in Nat
      /\ inflight \subseteq Request /\ accepted \subseteq Sent
      /\ \A r \in inflight : r.run \in Nat
      /\ \A s \in RepliesInFlight \cup accepted : s.run \in Nat
      /\ pc \in Holding <=> cur # NoMessage
      /\ cur \in Message \cup {NoMessage}
      /\ phase \notin {"offline", "push"} => pc = "ready"
  <2>1. inflight \subseteq Request /\ accepted \subseteq Sent
    BY DEF TypeInv, TypeOK, ServerTypeOK
  <2>2. \A r \in inflight : r.run \in Nat BY <2>1 DEF Request
  <2>3. \A s \in RepliesInFlight \cup accepted : s.run \in Nat
    BY <2>1, <2>2, TakenType DEF Sent
  <2>4. QED BY <2>1, <2>2, <2>3 DEF TypeInv, TypeOK, ServerTypeOK, HandlerTypeOK, ControlInv
<1>e. ASSUME ProcessEnds PROVE WireInv'
  BY <1>e DEF ProcessEnds
<1>r. ASSUME NEW q, Raise(q), pc \notin {Sending, "mark"} PROVE WireInv'
  BY <1>r, <1>e DEF Raise
<1>s. ASSUME Settle(cur), UNCHANGED <<inflight, lineVars, phase>> PROVE WireInv'
  BY <1>s DEF Settle, MarkProcessed, Done
<1>f. ASSUME NEW res, SendFailed(cur, res), UNCHANGED <<inflight, lineVars, phase>>
      PROVE  WireInv'
  BY <1>f, <1>s DEF SendFailed, RecordAgentReplyEvent
<1>p. ASSUME NEW res, Reply(cur, res), pc \in {"processor", "read_ack"},
             UNCHANGED <<lineVars, phase>>
      PROVE  WireInv'
  <2>1. CASE Await(SendOf(cur, res)) /\ UNCHANGED <<cur, stateVars>>
    <3>1. cur \notin processed BY <1>p DEF SendInv, Admitted
    <3>2. pc' = Sending BY <2>1 DEF Await, SendOf
    <3>3. QED BY <1>p, <1>t, <2>1, <3>1, <3>2 DEF Await, SendOf
  <2>2. QED BY <2>1, <1>p, <1>s, <1>f DEF Reply
<1>a. ASSUME NEW op \in AckOp, NEW ms, Await(Ack(op, ms)), pc \notin {Sending, "mark"},
             UNCHANGED <<stateVars, lineVars, phase>>
      PROVE  WireInv'
  BY <1>a, <1>t DEF Await, Ack, AckOp
<1>1. CASE Start BY <1>1, <1>t DEF Start
<1>2. CASE StartFails \/ Terminate BY <1>2, <1>e DEF StartFails, Terminate
<1>3. ASSUME NEW u \in User, StartFailsLate(u) \/ BecomeFriend(u) PROVE WireInv'
  BY <1>3 DEF StartFailsLate, BecomeFriend
<1>4. CASE Friends /\ UNCHANGED handlerVars
  BY <1>4 DEF Friends, ListFriends, ListFriendRequests, RequestsDone, ApplyRequestPolicy,
              ReplaceFriends, UpsertFriend, RecordFriendPolicyEvent
<1>5. CASE PullOffline BY <1>5 DEF PullOffline
<1>6. ASSUME NEW m \in Message, NextOffline(m) PROVE WireInv'
  BY <1>6, <1>t DEF NextOffline, Admit, RecordFriendPolicyEvent, HasProcessed
<1>7. CASE AckOffline BY <1>7, <1>e, <1>a DEF AckOffline, AckOp
<1>8. CASE OfflineAckReturns BY <1>8, <1>t DEF OfflineAckReturns
<1>9. CASE TakePrivatePush
  BY <1>9, <1>r, <1>t DEF TakePrivatePush, Taking, Await, Ack
<1>10. CASE TakeRecord
  BY <1>10 DEF TakeRecord, RecordGroupMessage, RecordReceipt, HandleFriendAccepted,
               UpsertFriend
<1>11. CASE DeliveryAckReturns
  BY <1>11, <1>t DEF DeliveryAckReturns, Done, Admit, HasProcessed, RecordFriendPolicyEvent
<1>12. CASE ReadAckReturns BY <1>12, <1>p DEF ReadAckReturns
<1>13. CASE SendReturns BY <1>13, <1>s DEF SendReturns, RecordAgentReplyEvent
<1>14. CASE MarkCurrent BY <1>14, <1>s DEF MarkCurrent
<1>15. ASSUME NEW res \in Result, ProcessorReturns(res) PROVE WireInv'
  BY <1>15, <1>r, <1>p, <1>a DEF ProcessorReturns, AckOp
<1>16. CASE RequestFails
  <2>1. CASE pc = Sending BY <1>16, <2>1, <1>f DEF RequestFails
  <2>2. CASE pc # Sending BY <1>16, <2>2, <1>r DEF RequestFails, Waiting
  <2>3. QED BY <2>1, <2>2
<1>17. ASSUME NEW r \in inflight, HandleRequest(r) \/ RefuseRequest(r) \/ LoseRequest(r)
       PROVE  WireInv'
  BY <1>17 DEF HandleRequest, RefuseRequest, LoseRequest
<1>18. ASSUME NEW m \in Message, Arrive(m) \/ PushMessage(m) \/ PushReceipt(m) PROVE WireInv'
  BY <1>18 DEF Arrive, PushMessage, PushReceipt
<1>19. CASE LoseIdentity \/ Disconnect \/ UNCHANGED vars BY <1>19 DEF LoseIdentity, Disconnect, vars
<1>20. QED
  BY <1>1, <1>2, <1>3, <1>4, <1>5, <1>6, <1>7, <1>8, <1>9, <1>10, <1>11, <1>12, <1>13,
     <1>14, <1>15, <1>16, <1>17, <1>18, <1>19
     DEF Next, HandlerStep, Handler

-----------------------------------------------------------------------------
(* What is on record.                                                      *)
LEMMA RecordInit == Init => RecordInv
BY DEF Init, StateInit, ServerInit, HandlerInit, RecordInv, SendsInFlight, SentMeansAccepted,
       Sending

LEMMA RecordStep ==
  TypeInv /\ SendInv /\ WireInv /\ RecordInv /\ [Next]_vars => RecordInv'
<1> SUFFICES ASSUME TypeInv, SendInv, WireInv, RecordInv, [Next]_vars PROVE RecordInv'
  OBVIOUS
<1> USE DEF RecordInv, SentMeansAccepted, SendsInFlight, Sending, HasDedupKey,
            ClientMessageId, stateVars, serverVars, sessionVars, otherServerVars, handlerVars, localVars,
            lineVars, linkVars, noRequest
<1>t. /\ inflight \subseteq Request
      /\ pc \in Holding <=> cur # NoMessage
      /\ phase \notin {"offline", "push"} => pc = "ready"
  BY DEF TypeInv, TypeOK, ServerTypeOK, ControlInv
<1>e. ASSUME ProcessEnds PROVE RecordInv'
  BY <1>e DEF ProcessEnds
<1>r. ASSUME NEW q, Raise(q) PROVE RecordInv'
  BY <1>r, <1>e DEF Raise
<1>s. ASSUME NEW m, Settle(m), UNCHANGED <<inflight, accepted>> PROVE RecordInv'
  BY <1>s DEF Settle, MarkProcessed, Done
<1>f. ASSUME NEW res, SendFailed(cur, res), UNCHANGED <<inflight, accepted>>
      PROVE  RecordInv'
  BY <1>f, <1>s DEF SendFailed, RecordAgentReplyEvent
<1>p. ASSUME NEW res, Reply(cur, res), pc \in {"processor", "read_ack"},
             UNCHANGED linkVars
      PROVE  RecordInv'
  <2>1. CASE Await(SendOf(cur, res)) /\ result' = res /\ UNCHANGED <<cur, stateVars>>
    <3>1. cur \notin processed /\ phase # "down"
      BY <1>p, <1>t DEF SendInv, Admitted
    <3>2. \A r \in inflight :
            r.op = Sending /\ r.run = run => r.reply.msg # cur
      <4> SUFFICES ASSUME NEW r \in SendsInFlight, r.run = run PROVE r.reply.msg # cur
        OBVIOUS
      <4>1. r.reply \in RepliesInFlight /\ r.reply.run = run
        BY DEF WireInv, RepliesInFlight
      <4>2. QED BY <4>1, <3>1, <1>p DEF WireInv, Answering
    <3>3. pc' = Sending /\ answer' = "none" BY <2>1 DEF Await, SendOf
    <3>4. QED BY <1>p, <2>1, <3>2, <3>3 DEF Await, SendOf
  <2>2. QED BY <2>1, <1>p, <1>s, <1>f DEF Reply
<1>1. CASE Start BY <1>1, <1>t DEF Start
<1>2. CASE StartFails \/ Terminate BY <1>2, <1>e DEF StartFails, Terminate
<1>3. ASSUME NEW u \in User, StartFailsLate(u) \/ BecomeFriend(u) PROVE RecordInv'
  BY <1>3 DEF StartFailsLate, BecomeFriend
<1>4. CASE Friends /\ UNCHANGED handlerVars
  BY <1>4 DEF Friends, ListFriends, ListFriendRequests, RequestsDone, ApplyRequestPolicy,
              ReplaceFriends, UpsertFriend, RecordFriendPolicyEvent
<1>5. CASE PullOffline BY <1>5 DEF PullOffline
<1>6. ASSUME NEW m \in Message, NextOffline(m) PROVE RecordInv'
  BY <1>6 DEF NextOffline, Admit, RecordFriendPolicyEvent
<1>7. CASE AckOffline BY <1>7, <1>e DEF AckOffline, Await, Ack
<1>8. CASE OfflineAckReturns BY <1>8 DEF OfflineAckReturns
<1>9. CASE TakePrivatePush
  BY <1>9, <1>r DEF TakePrivatePush, Taking, Await, Ack
<1>10. CASE TakeRecord
  BY <1>10, <1>t DEF TakeRecord, Taking, RecordGroupMessage, RecordReceipt,
                     HandleFriendAccepted, UpsertFriend
<1>11. CASE DeliveryAckReturns
  BY <1>11 DEF DeliveryAckReturns, Done, Admit, RecordFriendPolicyEvent
<1>12. CASE ReadAckReturns BY <1>12, <1>p DEF ReadAckReturns
<1>13. CASE SendReturns BY <1>13, <1>s DEF SendReturns, RecordAgentReplyEvent
<1>14. CASE MarkCurrent BY <1>14, <1>s DEF MarkCurrent
<1>15. ASSUME NEW res \in Result, ProcessorReturns(res) PROVE RecordInv'
  BY <1>15, <1>r, <1>p DEF ProcessorReturns, Await, Ack
<1>16. CASE RequestFails BY <1>16, <1>r, <1>f DEF RequestFails
<1>17. ASSUME NEW r \in inflight, HandleRequest(r) PROVE RecordInv'
  <2>1. (pc = Sending /\ Awaited(r) /\ HasDedupKey) =>
           r.reply.msg = cur /\ r.reply.cid = ClientMessageId(cur, result)
    BY DEF Awaited, WireInv
  <2>2. QED BY <1>17, <2>1 DEF HandleRequest, Awaited
<1>18. ASSUME NEW r \in inflight, RefuseRequest(r) \/ LoseRequest(r) PROVE RecordInv'
  BY <1>18 DEF RefuseRequest, LoseRequest
<1>19. ASSUME NEW m \in Message, Arrive(m) \/ PushMessage(m) \/ PushReceipt(m)
       PROVE  RecordInv'
  BY <1>19 DEF Arrive, PushMessage, PushReceipt
<1>20. CASE LoseIdentity \/ Disconnect \/ UNCHANGED vars BY <1>20 DEF LoseIdentity, Disconnect, vars
<1>21. QED
  BY <1>1, <1>2, <1>3, <1>4, <1>5, <1>6, <1>7, <1>8, <1>9, <1>10, <1>11, <1>12, <1>13,
     <1>14, <1>15, <1>16, <1>17, <1>18, <1>19, <1>20
     DEF Next, HandlerStep, Handler

LEMMA InductiveInvariant ==
  Spec => [](TypeInv /\ SendInv /\ WireInv /\ RecordInv)
BY TypeInit, TypeStep, SendInit, SendStep, WireInit, WireStep, RecordInit, RecordStep, PTL
   DEF Spec

(* A reply recorded as sent was taken by the server.                       *)
THEOREM SentMeansAcceptedSafe == Spec => []SentMeansAccepted
<1>1. RecordInv => SentMeansAccepted BY DEF RecordInv
<1>2. QED BY <1>1, InductiveInvariant, PTL

(* Every reply of this run is on record.                                   *)
LEMMA OnRecordInit == Init => OnRecordInv
BY DEF Init, ServerInit, OnRecordInv, SendsInFlight, RepliesInFlight

LEMMA OnRecordStep ==
  TypeInv /\ SendInv /\ WireInv /\ OnRecordInv /\ [Next]_vars => OnRecordInv'
<1> SUFFICES ASSUME TypeInv, SendInv, WireInv, OnRecordInv, [Next]_vars PROVE OnRecordInv'
  OBVIOUS
<1> USE DEF OnRecordInv, SendsInFlight, RepliesInFlight, Sending, HasDedupKey,
            ClientMessageId, stateVars, serverVars, sessionVars, otherServerVars, handlerVars, localVars,
            lineVars, linkVars, noRequest
<1>t. /\ run \in Nat
      /\ pc \in Holding <=> cur # NoMessage
      /\ phase \notin {"offline", "push"} => pc = "ready"
      /\ pc = Sending => cur \notin processed
  BY DEF TypeInv, TypeOK, ServerTypeOK, ControlInv, SendInv, Admitted
<1>e. ASSUME ProcessEnds PROVE OnRecordInv'
  BY <1>e, <1>t DEF ProcessEnds
<1>r. ASSUME NEW q, Raise(q), pc # Sending PROVE OnRecordInv'
  BY <1>r, <1>e, <1>t DEF Raise
<1>s. ASSUME NEW m, Settle(m), pc # Sending \/ ~HasDedupKey, phase # "down",
             UNCHANGED <<inflight, accepted, run, phase>>
      PROVE  OnRecordInv'
  BY <1>s DEF Settle, MarkProcessed, Done
<1>v. ASSUME NEW status, RecordAgentReplyEvent(status, cur, ClientMessageId(cur, result)),
             phase # "down",
             UNCHANGED <<inflight, accepted, run, phase>>
      PROVE  OnRecordInv'
  <2> DEFINE event == [status |-> status, msg |-> cur, cid |-> ClientMessageId(cur, result)]
  <2> SUFFICES ASSUME HasDedupKey, NEW s \in RepliesInFlight \cup accepted, s.run = run
               PROVE  \E e \in replyEvents' : e.msg = s.msg /\ e.cid = s.cid
    BY <1>v
  <2>1. replyEvents' = replyEvents \cup {event} BY <1>v DEF RecordAgentReplyEvent
  <2>2. event.msg = cur /\ event.cid = ClientMessageId(cur, result) OBVIOUS
  <2>3. QED BY <1>v, <2>1, <2>2
<1>f. ASSUME NEW res, SendFailed(cur, res), pc # Sending \/ res = result, phase # "down",
             UNCHANGED <<inflight, accepted, run, phase>>
      PROVE  OnRecordInv'
  <2>1. CASE ~HasDedupKey BY <1>f, <2>1 DEF SendFailed
  <2>2. CASE pc = Sending /\ res = result BY <1>f, <1>v, <2>2 DEF SendFailed
  <2>3. CASE pc # Sending BY <1>f, <2>3, <1>s DEF SendFailed, RecordAgentReplyEvent
  <2>4. QED BY <1>f, <2>1, <2>2, <2>3
<1>p. ASSUME NEW res, Reply(cur, res), pc \in {"processor", "read_ack"},
             UNCHANGED <<linkVars, phase>>
      PROVE  OnRecordInv'
  <2>1. phase # "down" BY <1>p, <1>t
  <2>2. CASE Await(SendOf(cur, res)) /\ result' = res /\ UNCHANGED <<cur, stateVars>>
    BY <1>p, <2>1, <2>2 DEF Await, SendOf
  <2>3. QED BY <2>1, <2>2, <1>p, <1>s, <1>f DEF Reply
<1>1. CASE Start
  <2>1. \A s \in RepliesInFlight \cup accepted : s.run # run'
    <3> SUFFICES ASSUME NEW s \in RepliesInFlight \cup accepted PROVE s.run # run'
      OBVIOUS
    <3>1. s.run <= run BY DEF WireInv
    <3>2. s.run \in Nat
      BY TakenType DEF TypeInv, TypeOK, ServerTypeOK, Sent, Request
    <3>3. QED BY <1>1, <1>t, <3>1, <3>2 DEF Start
  <2>2. QED BY <1>1, <2>1 DEF Start
<1>2. CASE StartFails \/ Terminate BY <1>2, <1>e DEF StartFails, Terminate
<1>3. ASSUME NEW u \in User, StartFailsLate(u) \/ BecomeFriend(u) PROVE OnRecordInv'
  BY <1>3, <1>t DEF StartFailsLate, BecomeFriend
<1>4. CASE Friends /\ UNCHANGED handlerVars
  BY <1>4 DEF Friends, ListFriends, ListFriendRequests, RequestsDone, ApplyRequestPolicy,
              ReplaceFriends, UpsertFriend, RecordFriendPolicyEvent
<1>5. CASE PullOffline BY <1>5 DEF PullOffline
<1>6. ASSUME NEW m \in Message, NextOffline(m) PROVE OnRecordInv'
  BY <1>6 DEF NextOffline, Admit, RecordFriendPolicyEvent
<1>7. CASE AckOffline BY <1>7, <1>e DEF AckOffline, Await, Ack
<1>8. CASE OfflineAckReturns BY <1>8, <1>t DEF OfflineAckReturns
<1>9. CASE TakePrivatePush
  BY <1>9, <1>r DEF TakePrivatePush, Taking, Await, Ack
<1>10. CASE TakeRecord
  BY <1>10, <1>t DEF TakeRecord, Taking, RecordGroupMessage, RecordReceipt,
                     HandleFriendAccepted, UpsertFriend
<1>11. CASE DeliveryAckReturns
  BY <1>11 DEF DeliveryAckReturns, Done, Admit, RecordFriendPolicyEvent
<1>12. CASE ReadAckReturns BY <1>12, <1>p DEF ReadAckReturns
<1>13. CASE SendReturns
  BY <1>13, <1>s, <1>t, <1>v DEF SendReturns
<1>14. CASE MarkCurrent BY <1>14, <1>s, <1>t DEF MarkCurrent
<1>15. ASSUME NEW res \in Result, ProcessorReturns(res) PROVE OnRecordInv'
  BY <1>15, <1>r, <1>p DEF ProcessorReturns, Await, Ack
<1>16. CASE RequestFails
  <2>1. CASE pc = Sending BY <1>16, <2>1, <1>f, <1>t DEF RequestFails
  <2>2. CASE pc # Sending BY <1>16, <2>2, <1>r DEF RequestFails
  <2>3. QED BY <2>1, <2>2
<1>17. ASSUME NEW r \in inflight, HandleRequest(r) \/ RefuseRequest(r) \/ LoseRequest(r)
       PROVE  OnRecordInv'
  BY <1>17 DEF HandleRequest, RefuseRequest, LoseRequest
<1>18. ASSUME NEW m \in Message, Arrive(m) \/ PushMessage(m) \/ PushReceipt(m)
       PROVE  OnRecordInv'
  BY <1>18 DEF Arrive, PushMessage, PushReceipt
<1>19. CASE LoseIdentity \/ Disconnect \/ UNCHANGED vars BY <1>19 DEF LoseIdentity, Disconnect, vars
<1>20. QED
  BY <1>1, <1>2, <1>3, <1>4, <1>5, <1>6, <1>7, <1>8, <1>9, <1>10, <1>11, <1>12, <1>13,
     <1>14, <1>15, <1>16, <1>17, <1>18, <1>19
     DEF Next, HandlerStep, Handler

(* In agent mode the records of this run are complete: a reply the server  *)
(* took, even one whose send had timed out, has its event with its client  *)
(* message id by the time its message is marked processed.                 *)
THEOREM RepliesOfThisRunAreOnRecordSafe == Spec => []RepliesOfThisRunAreOnRecord
<1>1. SendInv /\ OnRecordInv => RepliesOfThisRunAreOnRecord
  BY DEF SendInv, Admitted, OnRecordInv, RepliesOfThisRunAreOnRecord
<1>2. Spec => [](SendInv /\ OnRecordInv)
  BY InductiveInvariant, OnRecordInit, OnRecordStep, PTL DEF Spec
<1>3. QED BY <1>1, <1>2, PTL

-----------------------------------------------------------------------------
(* The runtime implements the ledger.                                      *)
LEMMA LedgerInit == Init => Ledger!Init
BY DEF Init, StateInit, ServerInit, Ledger!Init, RepliesInFlight, SendsInFlight

SendRequest == [op : {Sending}, msgs : SUBSET Message, run : Nat, reply : Sent]

LEMMA SendsAreSendRequests ==
  ASSUME inflight \subseteq Request
  PROVE  SendsInFlight \subseteq SendRequest
BY DEF Request, SendRequest, SendsInFlight, AckOp, Sending

LEMMA LedgerStep ==
  TypeInv /\ SendInv /\ WireInv /\ [Next]_vars => [Ledger!Next]_Ledger!ledgerVars
<1> SUFFICES ASSUME TypeInv, SendInv, WireInv, [Next]_vars
             PROVE  Ledger!Next \/ UNCHANGED <<run, processed, RepliesInFlight, accepted>>
  BY DEF Ledger!ledgerVars
<1> USE DEF stateVars, serverVars, sessionVars, otherServerVars, handlerVars, localVars, lineVars,
            linkVars, noRequest
<1> DEFINE Stutter == UNCHANGED <<run, processed, RepliesInFlight, accepted>>
<1>w. inflight' = inflight => RepliesInFlight' = RepliesInFlight
  BY DEF RepliesInFlight, SendsInFlight
<1>a. ASSUME NEW op \in AckOp, NEW ms, Await(Ack(op, ms))
      PROVE  RepliesInFlight' = RepliesInFlight
  BY <1>a DEF Await, Ack, AckOp, Sending, RepliesInFlight, SendsInFlight
<1>e. ASSUME ProcessEnds PROVE Stutter
  BY <1>e, <1>w DEF ProcessEnds
<1>r. ASSUME NEW q, Raise(q) PROVE Stutter
  BY <1>r, <1>e, <1>w DEF Raise
<1>s. ASSUME Settle(cur), pc \in Admitted, cur \in Message, UNCHANGED <<inflight, lineVars>>
      PROVE  Ledger!Next
  <2>1. cur \notin processed BY <1>s DEF SendInv
  <2>2. Ledger!Settle(cur)
    BY <1>s, <2>1, <1>w DEF Settle, MarkProcessed, Ledger!Settle
  <2>3. QED BY <1>s, <2>2 DEF Ledger!Next
<1>f. ASSUME NEW res, SendFailed(cur, res), pc \in Admitted, cur \in Message,
             UNCHANGED <<inflight, lineVars>>
      PROVE  Ledger!Next \/ Stutter
  BY <1>f, <1>s, <1>w DEF SendFailed, RecordAgentReplyEvent
<1>t. pc \in Holding => cur \in Message
  BY DEF TypeInv, TypeOK, HandlerTypeOK, ControlInv
<1>p. ASSUME NEW res, Reply(cur, res), pc \in {"processor", "read_ack"}, UNCHANGED lineVars
      PROVE  Ledger!Next \/ Stutter
  <2>1. pc \in Admitted /\ cur \in Message BY <1>p, <1>t DEF Admitted, Holding
  <2>2. CASE Await(SendOf(cur, res)) /\ UNCHANGED stateVars
    <3> DEFINE s == SendOf(cur, res).reply
    <3>1. s.msg = cur /\ s.run = run BY DEF SendOf
    <3>2. RepliesInFlight' = RepliesInFlight \cup {s}
      BY <2>2 DEF Await, SendOf, RepliesInFlight, SendsInFlight
    <3>3. cur \notin processed /\ phase # "down"
      BY <2>1, <1>p DEF SendInv, TypeInv, ControlInv
    <3>4. ~\E r \in RepliesInFlight \cup accepted : r.msg = cur /\ r.run = run
      BY <3>3, <1>p DEF WireInv, Answering, Sending
    <3>5. Ledger!Send(cur)
      BY <1>p, <2>2, <3>1, <3>2, <3>3, <3>4 DEF Ledger!Send
    <3>6. QED BY <3>5, <2>1 DEF Ledger!Next
  <2>3. QED BY <2>1, <2>2, <1>p, <1>s, <1>f DEF Reply
<1>1. CASE Start BY <1>1, <1>w DEF Start, Ledger!Next, Ledger!NewRun
<1>2. CASE StartFails \/ Terminate BY <1>2, <1>e DEF StartFails, Terminate
<1>3. ASSUME NEW u \in User, StartFailsLate(u) \/ BecomeFriend(u) PROVE Stutter
  BY <1>3, <1>w DEF StartFailsLate, BecomeFriend
<1>4. CASE Friends /\ UNCHANGED handlerVars
  BY <1>4, <1>w
     DEF Friends, ListFriends, ListFriendRequests, RequestsDone, ApplyRequestPolicy,
         ReplaceFriends, UpsertFriend, RecordFriendPolicyEvent
<1>5. CASE PullOffline BY <1>5, <1>w DEF PullOffline
<1>6. ASSUME NEW m \in Message, NextOffline(m) PROVE Stutter
  BY <1>6, <1>w DEF NextOffline, Admit, RecordFriendPolicyEvent
<1>7. CASE AckOffline BY <1>7, <1>e, <1>a, <1>w DEF AckOffline, AckOp
<1>8. CASE OfflineAckReturns BY <1>8, <1>w DEF OfflineAckReturns
<1>9. CASE TakePrivatePush
  BY <1>9, <1>r, <1>a, <1>w DEF TakePrivatePush, AckOp
<1>10. CASE TakeRecord
  BY <1>10, <1>w DEF TakeRecord, RecordGroupMessage, RecordReceipt, HandleFriendAccepted,
                     UpsertFriend
<1>11. CASE DeliveryAckReturns
  BY <1>11, <1>w DEF DeliveryAckReturns, Admit, RecordFriendPolicyEvent
<1>12. CASE ReadAckReturns BY <1>12, <1>p DEF ReadAckReturns
<1>13. CASE SendReturns
  BY <1>13, <1>s, <1>t, <1>w DEF SendReturns, RecordAgentReplyEvent, Admitted, Holding
<1>14. CASE MarkCurrent BY <1>14, <1>s, <1>t DEF MarkCurrent, Admitted, Holding
<1>15. ASSUME NEW res \in Result, ProcessorReturns(res) PROVE Ledger!Next \/ Stutter
  BY <1>15, <1>r, <1>p, <1>a DEF ProcessorReturns, AckOp
<1>16. CASE RequestFails
  BY <1>16, <1>r, <1>f, <1>t DEF RequestFails, Admitted, Holding
<1>17. ASSUME NEW r \in inflight, HandleRequest(r) \/ RefuseRequest(r) \/ LoseRequest(r)
       PROVE  Ledger!Next \/ Stutter
  <2>0. inflight' = inflight \ {r} /\ UNCHANGED <<run, processed>>
    BY <1>17 DEF HandleRequest, RefuseRequest, LoseRequest
  <2>1. CASE r.op # Sending
    BY <1>17, <2>0, <2>1
       DEF HandleRequest, RefuseRequest, LoseRequest, RepliesInFlight, SendsInFlight
  <2>2. CASE r.op = Sending
    <3>1. ASSUME NEW q \in SendsInFlight, q.reply = r.reply PROVE q = r
      <4>1. r \in SendsInFlight BY <2>2 DEF SendsInFlight
      <4>2. q \in SendRequest /\ r \in SendRequest
        BY <4>1, SendsAreSendRequests DEF TypeInv, TypeOK, ServerTypeOK
      <4>3. q.msgs = r.msgs /\ q.run = r.run /\ q.op = r.op
        BY <3>1, <4>1 DEF WireInv, SendsInFlight
      <4>4. QED BY <3>1, <4>2, <4>3 DEF SendRequest
    <3>2. r.reply \in RepliesInFlight /\ RepliesInFlight' = RepliesInFlight \ {r.reply}
      BY <2>0, <2>2, <3>1 DEF RepliesInFlight, SendsInFlight
    <3>3. CASE HandleRequest(r)
      BY <2>0, <2>2, <3>2, <3>3 DEF HandleRequest, Ledger!Next, Ledger!Take, Sending
    <3>4. CASE RefuseRequest(r) \/ LoseRequest(r)
      BY <2>0, <3>2, <3>4 DEF RefuseRequest, LoseRequest, Ledger!Next, Ledger!Lose
    <3>5. QED BY <1>17, <3>3, <3>4
  <2>3. QED BY <2>1, <2>2
<1>18. ASSUME NEW m \in Message, Arrive(m) \/ PushMessage(m) \/ PushReceipt(m)
       PROVE  Stutter
  BY <1>18, <1>w DEF Arrive, PushMessage, PushReceipt
<1>19. CASE LoseIdentity \/ Disconnect \/ UNCHANGED vars BY <1>19, <1>w DEF LoseIdentity, Disconnect, vars
<1>20. QED
  BY <1>1, <1>2, <1>3, <1>4, <1>5, <1>6, <1>7, <1>8, <1>9, <1>10, <1>11, <1>12, <1>13,
     <1>14, <1>15, <1>16, <1>17, <1>18, <1>19
     DEF Next, HandlerStep, Handler

(* The bot runtime, with all its failures, implements the ledger: the      *)
(* server takes at most one reply per message and run, of those sent for a *)
(* message that had no outcome yet, and outcomes are for good.             *)
THEOREM RuntimeImplementsLedger == Spec => LedgerSpec
BY LedgerInit, LedgerStep, InductiveInvariant, PTL DEF Spec, LedgerSpec, Ledger!Spec

=============================================================================
