------------------------------ MODULE MCBotWire ------------------------------
EXTENDS BotWire, TLC

Text(c) == <<c>>
Num(n) == <<n>>

Message(id, sender, text) ==
  (MessageId :> Num(id)) @@ (ConversationType :> Num(1)) @@ (ConversationId :> Num(sender + 100))
    @@ (SenderId :> Num(sender)) @@ (ReceiverId :> Num(9)) @@ (MessageText :> text)
    @@ (TimestampMs :> Num(id + 5))
With(row, f, value) == (f :> value) @@ row
Without(row, f) == [g \in DOMAIN row \ {f} |-> row[g]]

hello == Message(7, 3, Text(70))
empty == Message(8, 4, <<>>)
named(row) == With(row, ClientMessageId, <<60, row[MessageId][1]>>)

Friend(id, online) ==
  (FriendId :> Num(id)) @@ (Username :> Text(id)) @@ (Nickname :> <<id, id>>)
    @@ (OnlineStatus :> Num(online))
Asking(id, status) == With(Friend(id, 0), FriendRequestStatus, Num(status))

Receipt(peer) ==
  (MessageId :> Num(7)) @@ (ConversationId :> Num(103)) @@ (peer :> Num(3))
    @@ (DeliveryStatus :> Num(2))

Saying(type, rows) == [type |-> type, seq |-> 0, rows |-> rows]

(* Complete answers, one about a message without a number; and lists in    *)
(* which a row lacks a value, has one too many, or one that is not legible. *)
MCAnswer ==
  {Saying(PrivateMessagePush, <<named(hello)>>),
   Saying(PrivateMessageResponse, <<Message(0, 3, Text(70))>>),
   Saying(GroupMessagePush, <<With(hello, MessageText, Text(BadUtf8))>>),
   Saying(OfflineResponse, <<>>),
   Saying(OfflineResponse, <<named(hello), named(empty)>>),
   Saying(OfflineResponse, <<hello, named(empty)>>),
   Saying(HistoryResponse, <<Without(hello, MessageText), empty>>),
   Saying(DeliveryReceiptPush, <<Receipt(ReceiverId)>>),
   Saying(ReadReceiptPush, <<Receipt(UserId)>>),
   Saying(ListFriendsResponse, <<Friend(3, 7), Friend(4, 0)>>),
   Saying(FriendRequestsResponse, <<Asking(3, 0), Without(Asking(4, 0), FriendRequestStatus)>>),
   Saying(FriendRequestsResponse, <<Asking(3, 0), Asking(4, 2)>>),
   Saying(FriendAcceptedPush, <<Asking(3, 1)>>)}

MCPacket == {PacketOf(a) : a \in MCAnswer}

Header(version, length) ==
  [magic |-> PacketMagic, version |-> version, flags |-> 0, type |-> 1, seq |-> 0, length |-> length]
MCForeign == {Header(2, 0), Header(PacketVersion, MaxBodyLength + 1)}

MCAccount == [name |-> <<11>>, password |-> <<>>, nickname |-> <<>>]
MCReplyText == <<80, 81>>
MCClientId == <<61>>
=============================================================================
