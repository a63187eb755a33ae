---------------------------- MODULE FrameDecoder ----------------------------
(***************************************************************************)
(* The FrameDecoder (bot_client/protocol/frame_decoder.py) fed by the      *)
(* receive loop of a BotClient, one connection after another.  The peer    *)
(* writes packets to a stream of cells; a read takes any part of what is   *)
(* under way.  An iteration of the loop in feed is an action.              *)
(***************************************************************************)
EXTENDS PacketCodec

CONSTANTS
  Packet,         \* packets the peer may send
  ForeignHeader,  \* headers it may send that are none of this protocol
  ReadSize,       \* the most a read takes
  MaxPackets,     \* bound: packets on the first connection, one less on each later one
  MaxConnections  \* bound: connections

ASSUME PacketAssumption ==
  \A p \in Packet : p \in WirePacket /\ Encodable(p)

ASSUME ForeignAssumption ==
  \A h \in ForeignHeader : h \in PacketHeader /\ ~ValidHeader(h)

ASSUME BoundAssumption ==
  ReadSize \in Nat /\ MaxPackets \in Nat /\ MaxConnections \in Nat

VARIABLES
  \* the peer and the stream to the client
  stream,       \* what the peer wrote on this connection
  fed,          \* how much of it was read
  sent,         \* packets it holds
  ends,         \* where they end in it
  foreign,      \* a foreign header comes behind them
  \* FrameDecoder
  buffer,       \* _buffer
  error,        \* _error
  readIndex,    \* read_index of feed
  packets,      \* packets of feed
  \* the receive loop
  at,           \* "read", "feed", or "off" when it ended
  delivered,    \* packets dispatched on this connection
  connections

streamVars  == <<stream, fed, sent, ends, foreign>>
decoderVars == <<buffer, error, readIndex, packets>>
wireVars    == <<streamVars, decoderVars, at, delivered, connections>>

DropFront(s, n) == SubSeq(s, n + 1, Len(s))
Least(a, b) == IF a < b THEN a ELSE b

FrameInit ==
  /\ stream = <<>> /\ fed = 0 /\ sent = <<>> /\ ends = <<>> /\ foreign = FALSE
  /\ buffer = <<>> /\ error = FALSE /\ readIndex = 0 /\ packets = <<>>
  /\ at = "read"
  /\ delivered = <<>>
  /\ connections = 1

-----------------------------------------------------------------------------
(* The peer                                                                *)

PeerSends(p) ==
  /\ at # "off" /\ ~foreign
  /\ Len(sent) + connections <= MaxPackets
  /\ stream' = stream \o EncodePacket(p)
  /\ sent' = Append(sent, p)
  /\ ends' = Append(ends, Len(stream'))
  /\ UNCHANGED <<fed, foreign, decoderVars, at, delivered, connections>>

PeerSendsForeign(h) ==
  /\ at # "off" /\ ~foreign
  /\ stream' = stream \o Pack(h)
  /\ foreign' = TRUE
  /\ UNCHANGED <<fed, sent, ends, decoderVars, at, delivered, connections>>

-----------------------------------------------------------------------------
(* _receive_loop and feed                                                  *)

(* read(4096) returns n cells, and feed puts them into its buffer.         *)
Read(n) ==
  /\ at = "read"
  /\ fed' = fed + n
  /\ buffer' = buffer \o SubSeq(stream, fed + 1, fed + n)
  /\ at' = "feed"
  /\ UNCHANGED <<stream, sent, ends, foreign, error, readIndex, packets, delivered, connections>>

ReadAny == \E n \in 1 .. Least(ReadSize, Len(stream) - fed) : Read(n)

Unread == Len(buffer) - readIndex
NextHeader == ParseHeader(SubSeq(buffer, readIndex + 1, readIndex + HeaderSize))
FrameSize == HeaderSize + NextHeader.length

(* Mutant: a frame is taken when more than it is there.                    *)
FrameIsThereAndMore == Unread > FrameSize
FrameIsThere == Unread >= FrameSize

TakeFrame ==
  /\ packets' = Append(packets,
                  [header |-> NextHeader,
                   body |-> SubSeq(buffer, readIndex + HeaderSize + 1, readIndex + FrameSize)])
  /\ readIndex' = readIndex + FrameSize
  /\ UNCHANGED <<streamVars, buffer, error, at, delivered, connections>>

DecodeFrame ==
  /\ at = "feed"
  /\ Unread >= HeaderSize /\ ValidHeader(NextHeader) /\ FrameIsThere
  /\ TakeFrame

(* The error of feed ends the receive loop; the packets of this feed that  *)
(* were decoded before are lost with it.                                   *)
RefuseHeader ==
  /\ at = "feed"
  /\ Unread >= HeaderSize /\ ~ValidHeader(NextHeader)
  /\ buffer' = DropFront(buffer, readIndex)
  /\ error' = TRUE
  /\ readIndex' = 0
  /\ packets' = <<>>
  /\ at' = "off"
  /\ UNCHANGED <<streamVars, delivered, connections>>

(* feed returns, and the loop dispatches what it returned.                 *)
FeedReturns ==
  /\ at = "feed"
  /\ \/ Unread < HeaderSize
     \/ Unread >= HeaderSize /\ ValidHeader(NextHeader) /\ ~FrameIsThere
  /\ buffer' = DropFront(buffer, readIndex)
  /\ readIndex' = 0
  /\ packets' = <<>>
  /\ delivered' = delivered \o packets
  /\ at' = "read"
  /\ UNCHANGED <<streamVars, error, connections>>

(* The line fails or ends, or the client closes it.                        *)
ConnectionEnds ==
  /\ at = "read"
  /\ at' = "off"
  /\ UNCHANGED <<streamVars, decoderVars, delivered, connections>>

(* Mutant: what is left of the last connection stays in the buffer.        *)
ResetErrorOnly ==
  /\ buffer' = buffer
  /\ error' = FALSE
(* reset *)
Reset ==
  /\ buffer' = <<>>
  /\ error' = FALSE

Reconnect ==
  /\ at = "off"
  /\ connections < MaxConnections
  /\ connections' = connections + 1
  /\ Reset
  /\ stream' = <<>> /\ fed' = 0 /\ sent' = <<>> /\ ends' = <<>> /\ foreign' = FALSE
  /\ delivered' = <<>>
  /\ at' = "read"
  /\ UNCHANGED <<readIndex, packets>>

FrameNext ==
  \/ \E p \in Packet : PeerSends(p)
  \/ \E h \in ForeignHeader : PeerSendsForeign(h)
  \/ ReadAny
  \/ DecodeFrame
  \/ RefuseHeader
  \/ FeedReturns
  \/ ConnectionEnds
  \/ Reconnect

FrameSpec == FrameInit /\ [][FrameNext]_wireVars

-----------------------------------------------------------------------------
(* Properties                                                              *)

(* However the network cuts the stream, and whatever comes behind the      *)
(* packets, the client gets the packets of a connection whole, once and in *)
(* order, and none of an earlier connection (frame_decoder.py, and the     *)
(* reset in client.py connect).                                            *)
Wire == INSTANCE FrameChannel WITH
  sent <- [i \in 1 .. Len(sent) |-> OnWire(sent[i])],
  got  <- delivered,
  up   <- at # "off"
ChannelSpec == Wire!Spec

-----------------------------------------------------------------------------
(* Why it holds: the inductive invariant                                   *)

(* Where the i-th packet ends in the stream. *)
End(i) == IF i = 0 THEN 0 ELSE ends[i]

DecoderTypeOK ==
  /\ stream \in Seq(Cell) /\ fed \in 0 .. Len(stream)
  /\ sent \in Seq(Packet) /\ ends \in Seq(Nat) /\ foreign \in BOOLEAN
  /\ buffer \in Seq(Cell) /\ error \in BOOLEAN
  /\ readIndex \in 0 .. Len(buffer)
  /\ packets \in Seq(WirePacket)
  /\ delivered \in Seq(WirePacket)
  /\ at \in {"read", "feed", "off"}
  /\ connections \in Nat

(* The stream is the packets sent, one behind the other, and then perhaps  *)
(* a foreign header.                                                       *)
StreamHoldsPackets ==
  /\ Len(ends) = Len(sent)
  /\ \A i \in 1 .. Len(sent) :
       /\ ends[i] = End(i - 1) + HeaderSize + Len(sent[i].body)
       /\ ends[i] <= Len(stream)
       /\ \A k \in 1 .. HeaderSize + Len(sent[i].body) :
            stream[End(i - 1) + k] = EncodePacket(sent[i])[k]
  /\ ~foreign => Len(stream) = End(Len(sent))
  /\ foreign => \E h \in ForeignHeader :
       /\ Len(stream) = End(Len(sent)) + HeaderSize
       /\ \A k \in 1 .. HeaderSize : stream[End(Len(sent)) + k] = Pack(h)[k]

(* The buffer is the end of what was read, and feed starts anew. *)
BufferIsUnread ==
  /\ at # "feed" => readIndex = 0 /\ packets = <<>>
  /\ at # "off" =>
       /\ ~error
       /\ Len(buffer) <= fed
       /\ \A k \in 1 .. Len(buffer) : buffer[k] = stream[fed - Len(buffer) + k]

Taken == Len(delivered) + Len(packets)

(* feed stands at the end of the last packet it took. *)
TakenInOrder ==
  /\ Len(delivered) <= Len(sent)
  /\ \A i \in 1 .. Len(delivered) : delivered[i] = OnWire(sent[i])
  /\ at # "off" =>
       /\ Taken <= Len(sent)
       /\ \A j \in 1 .. Len(packets) : packets[j] = OnWire(sent[Len(delivered) + j])
       /\ fed - Len(buffer) + readIndex = End(Taken)

FrameInv == DecoderTypeOK /\ StreamHoldsPackets /\ BufferIsUnread /\ TakenInOrder
=============================================================================
