------------------------------- MODULE BotWire -------------------------------
(***************************************************************************)
(* The bytes between a BotClient and LiteIM, with what they say: the       *)
(* server answers and pushes rows, the client reads them out of the        *)
(* packets its FrameDecoder delivers, and asks about what it read.         *)
(* BotClient and BotRuntime take packets and messages as they are; this    *)
(* module is about the way they get there.                                 *)
(***************************************************************************)
EXTENDS FrameDecoder, PacketBodies

CONSTANTS
  Answer,   \* what the server may say: a type, a sequence id and rows
  Account,  \* name, password and nickname of the bot
  ReplyText, ClientId, PageLimit

VARIABLES
  answers,  \* what the packets in sent say
  requests  \* requests the client is writing

vars == <<wireVars, answers, requests>>

-----------------------------------------------------------------------------
(* What a message of the server is about, by its type, and what it may     *)
(* leave out (the readers of parsers.py).                                  *)
ReceiptTypes == {DeliveryReceiptPush, ReadReceiptPush}
FriendTypes  == {ListFriendsResponse, FriendRequestsResponse, AcceptFriendResponse,
                 RejectFriendResponse, FriendAcceptedPush}
PushTypes    == {PrivateMessageResponse, PrivateMessagePush, GroupMessagePush}
MessageTypes == PushTypes \cup {OfflineResponse, HistoryResponse}

FieldsOfType(type) ==
  CASE type \in ReceiptTypes -> ReceiptFields(type)
    [] type = ListFriendsResponse -> FriendFields
    [] type \in FriendTypes \ {ListFriendsResponse} -> RequestFields
    [] OTHER -> MessageFields
KeyOf(type)    == IF type \in FriendTypes THEN FriendId ELSE MessageId
OptionalOf(type) == IF type \in MessageTypes THEN {ClientMessageId} ELSE {}

(* A row names what it is about, and has no fields of another type.        *)
RowOf(type, row) ==
  /\ row \in [DOMAIN row -> Seq(Cell)]
  /\ KeyOf(type) \in DOMAIN row
  /\ DOMAIN row \subseteq FieldsOfType(type) \cup OptionalOf(type)
  /\ \A f \in DOMAIN row : Len(row[f]) <= MaxValueLength

(* The server writes its rows one behind the other, each in the order of  *)
(* the field types.                                                        *)
RowFields(row) ==
  LET types == InOrder(DOMAIN row)
  IN [i \in DOMAIN types |-> Field(types[i], row[types[i]])]

FieldsOf(a) == FlattenSeq([i \in DOMAIN a.rows |-> RowFields(a.rows[i])])
PacketOf(a) == MakePacket(a.type, a.seq, Body(FieldsOf(a)))

(* A push and the answer to a message hold one row.                        *)
ASSUME AnswerAssumption ==
  \A a \in Answer :
    /\ PacketOf(a) \in Packet
    /\ a.type \in MessageTypes \cup ReceiptTypes \cup FriendTypes
    /\ a.rows \in Seq(Range(a.rows))
    /\ \A i \in DOMAIN a.rows : RowOf(a.type, a.rows[i])
    /\ a.type \in PushTypes \cup ReceiptTypes => Len(a.rows) = 1

(* What the client sends with is what the builders accept. *)
ASSUME RequestAssumption ==
  /\ 1 <= MaxValueLength /\ PageLimit \in Nat \ {0}
  /\ \A value \in {Account.name, Account.password, Account.nickname, ReplyText, ClientId} :
       value \in Seq(Cell) /\ Len(value) <= MaxValueLength

(* A request: what it is about, that is, a row of the packet number to,    *)
(* and its body; unless the builder refuses one of the numbers, a zero.    *)
Ask(kind, to, row, numbers, body) ==
  IF 0 \in numbers THEN {} ELSE {[kind |-> kind, to |-> to, row |-> row, body |-> body]}

(* What is asked before anything was read. *)
Hello ==
  Ask("login", 0, 0, {}, LoginBody(Account.name, Account.password))
    \cup Ask("register", 0, 0, {}, RegisterBody(Account.name, Account.password, Account.nickname))
    \cup Ask("pull", 0, 0, {}, OfflineRequestBody(PageLimit))

Init ==
  /\ FrameInit
  /\ answers = <<>>
  /\ requests = Hello

ServerSays(a) ==
  /\ PeerSends(PacketOf(a))
  /\ answers' = Append(answers, a)
  /\ requests' = {}

DecoderSteps ==
  /\ \/ \E h \in ForeignHeader : PeerSendsForeign(h)
     \/ ReadAny
     \/ DecodeFrame
     \/ RefuseHeader
     \/ FeedReturns
     \/ ConnectionEnds
  /\ UNCHANGED answers
  /\ requests' = {}

ReconnectAnew ==
  /\ Reconnect
  /\ answers' = <<>>
  /\ requests' = Hello

-----------------------------------------------------------------------------
(* Requests about what was read                                            *)

Reading(i) == ReadPacket(delivered[i])
Number(i, n, f) == Reading(i).rows[n][f][1]

Asks(new) ==
  /\ at = "read"
  /\ requests' = new
  /\ UNCHANGED <<wireVars, answers>>

(* ack_offline_messages, of all the messages that were read *)
AckOffline(i) ==
  LET ids == [n \in DOMAIN Reading(i).rows |-> Number(i, n, MessageId)]
  IN /\ delivered[i].header.type = OfflineResponse
     /\ Reading(i).rows # <<>>
     /\ Asks(Ask("ack", i, 0, Range(ids), OfflineAckBody(ids)))

(* send_delivery_ack, send_read_ack, pull_history_messages, before the     *)
(* message or from the end, and send_private_message, for a message        *)
AboutMessage(i, n) ==
  LET id           == Number(i, n, MessageId)
      conversation == Number(i, n, ConversationId)
      type         == Number(i, n, ConversationType)
      sender       == Number(i, n, SenderId)
      history(kind, before) ==
        Ask(kind, i, n, {type, conversation},
            HistoryRequestBody(type, conversation, before, PageLimit))
  IN /\ MessageFields \subseteq DOMAIN Reading(i).rows[n]
     /\ Asks(Ask("delivery", i, n, {id}, DeliveryAckBody(id))
              \cup Ask("read", i, n, {conversation, id}, ReadAckBody(conversation, id))
              \cup history("history", id) \cup history("newest", 0)
              \cup Ask("reply", i, n, {sender, Len(ReplyText), Len(ClientId)},
                       PrivateMessageBody(sender, ReplyText, ClientId)))

(* accept_friend_request and reject_friend_request *)
AnswerFriend(i, n) ==
  LET id == Number(i, n, FriendId)
  IN /\ RequestFields \subseteq DOMAIN Reading(i).rows[n]
     /\ Asks(Ask("friend", i, n, {id}, FriendActionBody(id)))

Next ==
  \/ \E a \in Answer : ServerSays(a)
  \/ DecoderSteps
  \/ ReconnectAnew
  \/ \E i \in DOMAIN delivered :
       \/ AckOffline(i)
       \/ \E n \in DOMAIN Reading(i).rows : AboutMessage(i, n) \/ AnswerFriend(i, n)

(* The event loop runs the receive loop when there is something to read,   *)
(* and a feed runs to its end.                                             *)
Fairness ==
  /\ WF_vars(ReadAny /\ UNCHANGED answers /\ requests' = {})
  /\ WF_vars((DecodeFrame \/ RefuseHeader \/ FeedReturns) /\ UNCHANGED answers /\ requests' = {})

Spec == Init /\ [][Next]_vars /\ Fairness

-----------------------------------------------------------------------------
(* Properties                                                              *)

(* The packets sent are the answers.                                       *)
AnswersAreSent ==
  /\ answers \in Seq(Answer) /\ Len(answers) = Len(sent)
  /\ \A i \in 1 .. Len(sent) : sent[i] = PacketOf(answers[i])

(* A friend is online or not; everything else is read as it was written.   *)
Meaning(a) ==
  [i \in DOMAIN a.rows |->
     [f \in DOMAIN a.rows[i] |->
        IF f = OnlineStatus THEN Uint64(IF a.rows[i][f][1] = 0 THEN 0 ELSE 1)
        ELSE a.rows[i][f]]]

Complete(a) ==
  /\ \A i \in DOMAIN a.rows :
       /\ FieldsOfType(a.type) \subseteq DOMAIN a.rows[i]
       /\ \A f \in DOMAIN a.rows[i] : Legible(f, a.rows[i][f])
       /\ DOMAIN a.rows[i] = DOMAIN a.rows[1]
  /\ a.type \in FriendTypes \ {ListFriendsResponse, FriendRequestsResponse} => Len(a.rows) = 1

(* The client reads what the server wrote, never values of one row in      *)
(* another: a response one of whose rows lacks a value, or has one that    *)
(* is not legible, is refused as a whole or reads as empty (parsers.py).   *)
ReadIsWhatWasSent ==
  \A i \in DOMAIN delivered :
    LET read == Reading(i) IN
    /\ read.ok => read.rows \in {<<>>, Meaning(answers[i])}
    /\ Complete(answers[i]) => read.ok /\ read.rows = Meaning(answers[i])

(* What a request is meant to say of a field, from the rows the server     *)
(* wrote.                                                                  *)
Says(f, values) == [field |-> f, values |-> values]
Meant(r, rows) ==
  LET row   == rows[r.row]
      login == {Says(Username, <<Account.name>>), Says(Password, <<Account.password>>)}
      place == Says(ConversationId, <<row[ConversationId]>>)
  IN CASE r.kind = "login" -> login \cup {Says(Nickname, <<>>)}
       [] r.kind = "register" ->
            login \cup {Says(Nickname, IF Account.nickname = <<>> THEN <<>>
                                       ELSE <<Account.nickname>>)}
       [] r.kind = "pull" -> {Says(Limit, <<Uint64(PageLimit)>>)}
       [] r.kind = "ack" ->
            {Says(MessageId, [n \in DOMAIN rows |-> rows[n][MessageId]])}
       [] r.kind = "delivery" -> {Says(MessageId, <<row[MessageId]>>)}
       [] r.kind = "read"     -> {place, Says(MessageId, <<row[MessageId]>>)}
       [] r.kind = "history"  ->
            {place, Says(MessageId, IF row[MessageId] = Uint64(0) THEN <<>>
                                    ELSE <<row[MessageId]>>)}
       [] r.kind = "newest"   -> {place, Says(MessageId, <<>>)}
       [] r.kind = "reply" ->
            {Says(ReceiverId, <<row[SenderId]>>), Says(MessageText, <<ReplyText>>),
             Says(ClientMessageId, <<ClientId>>)}
       [] r.kind = "friend" -> {Says(TargetUserId, <<row[FriendId]>>)}

(* The server reads in a request what the client meant, and an             *)
(* acknowledgement or reply names the message the server wrote             *)
(* (builders.py, client.py ack_offline_messages to send_private_message).  *)
RequestsSayWhatIsMeant ==
  \A r \in requests :
    LET read == ParseTlvMap(r.body) IN
    /\ read.ok
    /\ \A m \in Meant(r, answers[r.to].rows) : ValuesOf(read.fields, m.field) = m.values

(* A packet does not wait in the buffer for the next one: it is delivered, *)
(* or the connection ends (the loop of feed, and _receive_loop).           *)
EverythingArrives ==
  \A n \in 1 .. MaxPackets :
    (Len(sent) >= n) ~> (Len(delivered) >= n \/ at = "off")
=============================================================================
