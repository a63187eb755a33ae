---------------------------- MODULE PacketBodies ----------------------------
(***************************************************************************)
(* What packets say: the message types and field types BotClient uses      *)
(* (bot_client/protocol/codec.py), the bodies of requests (builders.py)    *)
(* and the reading of responses and pushes (parsers.py).                   *)
(*                                                                         *)
(* A row is a function from field types to values.  A message, a friend, a *)
(* friend request and a receipt are rows; a response that lists some holds *)
(* one value per row of every field, in the order of the rows.             *)
(***************************************************************************)
EXTENDS PacketCodec

PrivateMessageResponse == 301
PrivateMessagePush     == 302
GroupMessagePush       == 408
DeliveryReceiptPush    == 508
ReadReceiptPush        == 511
FriendAcceptedPush     == 210
ListFriendsResponse    == 203
FriendRequestsResponse == 209
AcceptFriendResponse   == 205
RejectFriendResponse   == 207
OfflineResponse        == 501
HistoryResponse        == 503

Username == 1
Password == 2
UserId == 3
Nickname == 4
FriendId == 20
TargetUserId == 21
OnlineStatus == 22
FriendRequestStatus == 23
ConversationType == 40
ConversationId == 41
MessageId == 42
MessageText == 43
SenderId == 44
ReceiverId == 45
TimestampMs == 46
Limit == 48
DeliveryStatus == 50
ClientMessageId == 51

StringFields == {Username, Password, Nickname, MessageText, ClientMessageId}

MessageFields == {MessageId, ConversationType, ConversationId, SenderId,
                  ReceiverId, MessageText, TimestampMs}
FriendFields  == {FriendId, Username, Nickname, OnlineStatus}
RequestFields == FriendFields \cup {FriendRequestStatus}

-----------------------------------------------------------------------------
(* parsers.py: the rows read, or a ProtocolError                           *)

Refused == [ok |-> FALSE, rows |-> <<>>]
Rows(rows) == [ok |-> TRUE, rows |-> rows]

(* The reader of a field accepts one value of it. *)
Legible(field, value) == IF field \in StringFields THEN IsUtf8(value) ELSE IsUint64(value)

(* _uint64_values and _string_values *)
ColumnLegible(column, f) == \A i \in DOMAIN column : Legible(f, column[i])

(* Mutant: the shorter columns are taken as they are, and the rows zipped. *)
RowsOfZipped(fields, columns, key, optional) ==
  LET count == Len(ValuesOf(fields, key))
      there(i) == {f \in columns \cup optional : Len(ValuesOf(fields, f)) >= i}
  IN Rows([i \in 1 .. count |-> [f \in there(i) |-> ValuesOf(fields, f)[i]]])
(* The rows of a list response: every column is legible and has as many    *)
(* values as the key column, an optional one (_optional_string_values)     *)
(* that many or none.                                                      *)
RowsOf(fields, columns, key, optional) ==
  LET count   == Len(ValuesOf(fields, key))
      given   == {f \in optional : ValuesOf(fields, f) # <<>>}
      column  == [f \in columns \cup given |-> ValuesOf(fields, f)]
      legible == \A f \in DOMAIN column :
                   ColumnLegible(column[f], f) /\ Len(column[f]) = count
  IN IF legible
     THEN Rows([i \in 1 .. count |-> [f \in DOMAIN column |-> column[f][i]]])
     ELSE Refused

(* parse_offline_messages, parse_history_messages.  Without a message id   *)
(* the list is empty, whatever else the response holds.                    *)
ParseOfflineMessages(fields) ==
  IF ValuesOf(fields, MessageId) = <<>> THEN Rows(<<>>)
  ELSE RowsOf(fields, MessageFields, MessageId, {ClientMessageId})

(* parse_friends and parse_friend_requests; a friend is online or not. *)
OnlineOrNot(friend) ==
  [friend EXCEPT ![OnlineStatus] = Uint64(IF @[1] # 0 THEN 1 ELSE 0)]

ParseFriendRows(fields, columns) ==
  IF ValuesOf(fields, FriendId) = <<>> THEN Rows(<<>>)
  ELSE LET read == RowsOf(fields, columns, FriendId, {}) IN
       [read EXCEPT !.rows = [i \in DOMAIN @ |-> OnlineOrNot(@[i])]]

ParseFriends(fields)        == ParseFriendRows(fields, FriendFields)
ParseFriendRequests(fields) == ParseFriendRows(fields, RequestFields)

(* parse_friend_action *)
ParseFriendAction(fields) ==
  LET read == ParseFriendRequests(fields) IN
  IF read.ok /\ Len(read.rows) = 1 THEN read ELSE Refused

(* One row of the first values: parse_incoming_message, parse_receipt.  A  *)
(* client message id that is not UTF-8 is refused too, by another error.   *)
FirstRow(fields, columns, optional) ==
  LET given == {f \in optional : ValuesOf(fields, f) # <<>>} IN
  IF \A f \in columns \cup given :
       ValuesOf(fields, f) # <<>> /\ Legible(f, GetFirst(fields, f))
  THEN Rows(<<[f \in columns \cup given |-> GetFirst(fields, f)]>>)
  ELSE Refused

ParseIncomingMessage(fields) == FirstRow(fields, MessageFields, {ClientMessageId})

(* The peer of a read receipt is its reader, that of a delivery receipt    *)
(* the one it was delivered to.                                            *)
ReceiptFields(type) ==
  {MessageId, ConversationId, DeliveryStatus,
   IF type = ReadReceiptPush THEN UserId ELSE ReceiverId}

ParseReceipt(type, fields) == FirstRow(fields, ReceiptFields(type), {})

(* What the callers of the parsers read in a packet, by its type. *)
ReadPacket(p) ==
  LET body == ParseTlvMap(p.body)
      type == p.header.type
  IN CASE ~body.ok -> Refused
       [] body.ok /\ type \in {PrivateMessageResponse, PrivateMessagePush, GroupMessagePush} ->
            ParseIncomingMessage(body.fields)
       [] body.ok /\ type \in {DeliveryReceiptPush, ReadReceiptPush} ->
            ParseReceipt(type, body.fields)
       [] body.ok /\ type \in {OfflineResponse, HistoryResponse} ->
            ParseOfflineMessages(body.fields)
       [] body.ok /\ type = ListFriendsResponse -> ParseFriends(body.fields)
       [] body.ok /\ type = FriendRequestsResponse -> ParseFriendRequests(body.fields)
       [] body.ok /\ type \in {AcceptFriendResponse, RejectFriendResponse, FriendAcceptedPush} ->
            ParseFriendAction(body.fields)

-----------------------------------------------------------------------------
(* builders.py: the fields of a body, of arguments that are not refused    *)

Field(type, value) == [type |-> type, value |-> value]
IdField(type, n) == Field(type, Uint64(n))

LoginFields(name, password) == <<Field(Username, name), Field(Password, password)>>
LoginBody(name, password) == Body(LoginFields(name, password))

RegisterBody(name, password, nickname) ==
  Body(LoginFields(name, password)
       \o (IF nickname = <<>> THEN <<>> ELSE <<Field(Nickname, nickname)>>))

FriendActionBody(id) == Body(<<IdField(TargetUserId, id)>>)

OfflineRequestBody(limit) == Body(<<IdField(Limit, limit)>>)

(* Mutant: the ids are written as the values of one field.                 *)
OfflineAckBodyJoined(ids) == Body(<<Field(MessageId, ids)>>)
OfflineAckBody(ids) == Body([i \in DOMAIN ids |-> IdField(MessageId, ids[i])])

DeliveryAckBody(id) == Body(<<IdField(MessageId, id)>>)

ReadAckBody(conversation, id) ==
  Body(<<IdField(ConversationType, 1), IdField(ConversationId, conversation),
         IdField(MessageId, id)>>)

HistoryRequestBody(type, conversation, before, limit) ==
  Body(<<IdField(ConversationType, type), IdField(ConversationId, conversation)>>
       \o (IF before = 0 THEN <<>> ELSE <<IdField(MessageId, before)>>)
       \o <<IdField(Limit, limit)>>)

PrivateMessageBody(receiver, text, clientId) ==
  Body(<<IdField(ReceiverId, receiver), Field(MessageText, text),
         Field(ClientMessageId, clientId)>>)
=============================================================================
