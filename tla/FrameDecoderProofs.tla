-------------------------- MODULE FrameDecoderProofs --------------------------
(***************************************************************************)
(* Proof that the receiving side of the connection delivers the packets of *)
(* the peer whole, once and in order, for every packet, foreign header,    *)
(* size of a read and bound.                                               *)
(***************************************************************************)
EXTENDS BotWire, SequenceTheorems, TLAPS

LEMMA CellsConcat ==
  ASSUME NEW S, NEW s \in Seq(S), NEW t \in Seq(S)
  PROVE  /\ s \o t \in Seq(S)
         /\ Len(s \o t) = Len(s) + Len(t)
         /\ \A i \in 1 .. Len(s) : (s \o t)[i] = s[i]
         /\ \A i \in 1 .. Len(t) : (s \o t)[Len(s) + i] = t[i]
BY ConcatProperties

LEMMA CellsPart ==
  ASSUME NEW S, NEW s \in Seq(S), NEW m \in Nat, NEW n \in Nat, m <= n, n <= Len(s)
  PROVE  /\ SubSeq(s, m + 1, n) \in Seq(S)
         /\ Len(SubSeq(s, m + 1, n)) = n - m
         /\ \A i \in 1 .. n - m : SubSeq(s, m + 1, n)[i] = s[m + i]
<1>1. m + 1 \in Int /\ n \in Int
  OBVIOUS
<1>2. \A i \in m + 1 .. n : s[i] \in S
  BY ElementOfSeq
<1>3. /\ SubSeq(s, m + 1, n) \in Seq(S)
      /\ Len(SubSeq(s, m + 1, n)) = IF m + 1 <= n THEN n - (m + 1) + 1 ELSE 0
      /\ \A i \in 1 .. n - (m + 1) + 1 : SubSeq(s, m + 1, n)[i] = s[(m + 1) + i - 1]
  BY <1>1, <1>2, SubSeqProperties
<1> QED
  BY <1>3

LEMMA CellsAppend ==
  ASSUME NEW S, NEW s \in Seq(S), NEW e \in S
  PROVE  /\ Append(s, e) \in Seq(S)
         /\ Len(Append(s, e)) = Len(s) + 1
         /\ \A i \in 1 .. Len(s) : Append(s, e)[i] = s[i]
         /\ Append(s, e)[Len(s) + 1] = e
OBVIOUS

(* The header that is packed is the header that is parsed. *)
LEMMA ParsePacked ==
  ASSUME NEW h \in PacketHeader
  PROVE  /\ Pack(h) \in Seq(Cell)
         /\ Len(Pack(h)) = HeaderSize
         /\ \A s : (\A k \in 1 .. HeaderSize : s[k] = Pack(h)[k]) => ParseHeader(s) = h
<1>1. /\ h.magic \in Cell /\ h.version \in Cell /\ h.flags \in Cell
      /\ h.type \in Cell /\ h.seq \in Cell /\ h.length \in Cell
      /\ h = [magic |-> h.magic, version |-> h.version, flags |-> h.flags,
              type |-> h.type, seq |-> h.seq, length |-> h.length]
  BY DEF PacketHeader
<1>2. Pack(h) \in Seq(Cell) /\ Len(Pack(h)) = HeaderSize
  BY <1>1 DEF Pack, HeaderSize
<1>3. ASSUME NEW s, \A k \in 1 .. HeaderSize : s[k] = Pack(h)[k]
      PROVE  ParseHeader(s) = h
  <2>1. /\ s[1] = h.magic /\ s[2] = h.version /\ s[3] = h.flags
        /\ s[4] = h.type /\ s[5] = h.seq /\ s[6] = h.length
    BY <1>3 DEF Pack, HeaderSize
  <2> QED
    BY <1>1, <2>1 DEF ParseHeader
<1> QED
  BY <1>2, <1>3

(* What a packet is on the wire. *)
LEMMA PacketOnWire ==
  ASSUME NEW p \in Packet
  PROVE  /\ OnWire(p) \in WirePacket
         /\ OnWire(p).body = p.body
         /\ OnWire(p).header.length = Len(p.body)
         /\ ValidHeader(OnWire(p).header)
         /\ EncodePacket(p) \in Seq(Cell)
         /\ Len(p.body) \in Nat
         /\ p.body \in Seq(Cell)
         /\ Len(EncodePacket(p)) = HeaderSize + Len(p.body)
         /\ \A k \in 1 .. HeaderSize : EncodePacket(p)[k] = Pack(OnWire(p).header)[k]
         /\ \A k \in 1 .. Len(p.body) : EncodePacket(p)[HeaderSize + k] = p.body[k]
<1>1. p \in WirePacket /\ Encodable(p)
  BY PacketAssumption
<1>2. p.header \in PacketHeader /\ p.body \in Seq(Cell) /\ Len(p.body) \in Nat
  BY <1>1 DEF WirePacket
<1>3. /\ OnWire(p).header = [p.header EXCEPT !.length = Len(p.body)]
      /\ OnWire(p).body = p.body
      /\ OnWire(p) \in WirePacket
      /\ OnWire(p).header \in PacketHeader
  BY <1>1, <1>2 DEF OnWire, WirePacket, PacketHeader, Cell
<1>4. OnWire(p).header.length = Len(p.body) /\ ValidHeader(OnWire(p).header)
  BY <1>1, <1>2, <1>3 DEF Encodable, PacketHeader
<1>5. Pack(OnWire(p).header) \in Seq(Cell) /\ Len(Pack(OnWire(p).header)) = HeaderSize
  BY <1>3, ParsePacked
<1>6. /\ EncodePacket(p) \in Seq(Cell)
      /\ Len(EncodePacket(p)) = HeaderSize + Len(p.body)
      /\ \A k \in 1 .. HeaderSize : EncodePacket(p)[k] = Pack(OnWire(p).header)[k]
      /\ \A k \in 1 .. Len(p.body) : EncodePacket(p)[HeaderSize + k] = p.body[k]
  <2>1. /\ EncodePacket(p) \in Seq(Cell)
        /\ Len(EncodePacket(p)) = Len(Pack(OnWire(p).header)) + Len(p.body)
        /\ \A k \in 1 .. Len(Pack(OnWire(p).header)) :
             EncodePacket(p)[k] = Pack(OnWire(p).header)[k]
        /\ \A k \in 1 .. Len(p.body) :
             EncodePacket(p)[Len(Pack(OnWire(p).header)) + k] = p.body[k]
    <3>1. Pack(OnWire(p).header) \in Seq(Cell)
      BY <1>5
    <3> QED
      <4>1. EncodePacket(p) = Pack(OnWire(p).header) \o p.body
        BY DEF EncodePacket
      <4>2. \A s, t \in Seq(Cell) :
              /\ s \o t \in Seq(Cell)
              /\ Len(s \o t) = Len(s) + Len(t)
              /\ \A i \in 1 .. Len(s) : (s \o t)[i] = s[i]
              /\ \A i \in 1 .. Len(t) : (s \o t)[Len(s) + i] = t[i]
        BY CellsConcat
      <4>3. p.body \in Seq(Cell)
        BY <1>2
      <4>4. LET s == Pack(OnWire(p).header)
                t == p.body
            IN /\ s \o t \in Seq(Cell)
               /\ Len(s \o t) = Len(s) + Len(t)
               /\ \A i \in 1 .. Len(s) : (s \o t)[i] = s[i]
               /\ \A i \in 1 .. Len(t) : (s \o t)[Len(s) + i] = t[i]
        BY ONLY <3>1, <4>2, <4>3, Zenon
      <4> QED
        BY ONLY <4>1, <4>4
  <2> QED
    BY <1>5, <2>1
<1> QED
  BY <1>2, <1>3, <1>4, <1>6

-----------------------------------------------------------------------------
(* The invariant                                                           *)

LEMMA FrameInvInit == FrameInit => FrameInv
<1> SUFFICES ASSUME FrameInit PROVE FrameInv
  OBVIOUS
<1> USE DEF FrameInit
<1>1. DecoderTypeOK
  <2>1. \A S : <<>> \in Seq(S)
    BY EmptySeq
  <2>2. fed \in 0 .. Len(stream) /\ readIndex \in 0 .. Len(buffer) /\ connections \in Nat
    OBVIOUS
  <2> QED
    BY <2>1, <2>2 DEF DecoderTypeOK
<1>2. StreamHoldsPackets
  BY DEF StreamHoldsPackets, End
<1>3. BufferIsUnread
  BY DEF BufferIsUnread
<1>4. TakenInOrder
  <2>1. Len(delivered) = 0 /\ Len(packets) = 0 /\ Len(sent) = 0 /\ Taken = 0
    BY DEF Taken
  <2>2. fed = 0 /\ Len(buffer) = 0 /\ readIndex = 0 /\ End(0) = 0
    BY DEF End
  <2> QED
    BY <2>1, <2>2 DEF TakenInOrder
<1> QED
  BY <1>1, <1>2, <1>3, <1>4 DEF FrameInv

(* The ends of the packets lie in the stream, in order. *)
LEMMA EndsInStream ==
  ASSUME FrameInv
  PROVE  /\ \A i \in 0 .. Len(sent) : End(i) \in 0 .. Len(stream)
         /\ \A i \in 1 .. Len(sent) :
              /\ sent[i] \in Packet
              /\ Len(sent[i].body) \in Nat
              /\ End(i) = End(i - 1) + HeaderSize + Len(sent[i].body)
         /\ Len(sent) \in Nat /\ Len(stream) \in Nat
<1>1. /\ Len(sent) \in Nat /\ Len(stream) \in Nat
      /\ \A i \in 1 .. Len(sent) : sent[i] \in Packet
  BY DEF FrameInv, DecoderTypeOK
<1>2. \A i \in 1 .. Len(sent) : Len(sent[i].body) \in Nat
  BY <1>1, PacketOnWire
<1>3. \A i \in 0 .. Len(sent) : End(i) \in 0 .. Len(stream)
  <2>1. Len(ends) = Len(sent) /\ ends \in Seq(Nat)
    BY DEF FrameInv, DecoderTypeOK, StreamHoldsPackets
  <2>2. \A i \in 1 .. Len(sent) : ends[i] <= Len(stream)
    BY DEF FrameInv, StreamHoldsPackets
  <2>3. \A i \in 1 .. Len(sent) : ends[i] \in Nat
    BY <2>1
  <2>4. \A i \in 1 .. Len(sent) : ends[i] \in 0 .. Len(stream)
    BY <1>1, <2>2, <2>3
  <2>5. 0 \in 0 .. Len(stream)
    BY <1>1
  <2>6. \A i \in 0 .. Len(sent) : i = 0 \/ i \in 1 .. Len(sent)
    BY <1>1
  <2> QED
    BY <2>4, <2>5, <2>6 DEF End
<1>4. \A i \in 1 .. Len(sent) : End(i) = End(i - 1) + HeaderSize + Len(sent[i].body)
  BY <1>1 DEF FrameInv, StreamHoldsPackets, End
<1> QED
  BY <1>1, <1>2, <1>3, <1>4

LEMMA CellInStream ==
  ASSUME NEW a \in Nat, NEW n \in Nat, NEW b \in Nat, a + HeaderSize + n <= b
  PROVE  \A k \in 1 .. HeaderSize + n : a + k \in 1 .. b
BY DEF HeaderSize

(* A longer stream and more packets leave what the decoder has as it is.   *)
LEMMA MoreSent ==
  ASSUME FrameInv,
         stream' \in Seq(Cell), sent' \in Seq(Packet), ends' \in Seq(Nat), foreign' \in BOOLEAN,
         Len(stream) <= Len(stream'), Len(sent) <= Len(sent'),
         \A k \in 1 .. Len(stream) : stream'[k] = stream[k],
         \A i \in 1 .. Len(sent) : sent'[i] = sent[i] /\ ends'[i] = ends[i],
         StreamHoldsPackets',
         UNCHANGED <<fed, decoderVars, at, delivered, connections>>
  PROVE  FrameInv'
<1>1. Len(sent) \in Nat /\ Len(stream) \in Nat /\ Len(stream') \in Nat /\ Len(sent') \in Nat
  BY EndsInStream
<1>2. DecoderTypeOK'
  BY <1>1 DEF FrameInv, DecoderTypeOK, decoderVars
<1>3. BufferIsUnread'
  <2>1. fed \in 0 .. Len(stream) /\ Len(buffer) \in Nat
    BY DEF FrameInv, DecoderTypeOK
  <2>2. ASSUME at # "off"
        PROVE  /\ ~error
               /\ Len(buffer) <= fed
               /\ \A k \in 1 .. Len(buffer) : buffer[k] = stream'[fed - Len(buffer) + k]
    <3>1. /\ ~error
          /\ Len(buffer) <= fed
          /\ \A k \in 1 .. Len(buffer) : buffer[k] = stream[fed - Len(buffer) + k]
      BY <2>2 DEF FrameInv, BufferIsUnread
    <3>2. \A k \in 1 .. Len(buffer) : fed - Len(buffer) + k \in 1 .. Len(stream)
      BY <1>1, <2>1, <3>1
    <3> QED
      BY <3>1, <3>2
  <2> QED
    BY <2>2 DEF FrameInv, BufferIsUnread, decoderVars
<1>4. \A i \in 0 .. Len(sent) : End(i)' = End(i)
  BY <1>1 DEF End
<1>5. TakenInOrder'
  <2>1. Taken' = Taken /\ Taken \in Nat /\ Len(delivered) \in Nat /\ Len(packets) \in Nat
    BY DEF Taken, decoderVars, FrameInv, DecoderTypeOK
  <2>2. /\ Len(delivered) <= Len(sent)
        /\ \A i \in 1 .. Len(delivered) : delivered[i] = OnWire(sent[i])
    BY DEF FrameInv, TakenInOrder
  <2>3. \A i \in 1 .. Len(delivered) : delivered[i] = OnWire(sent'[i])
    BY <1>1, <2>1, <2>2
  <2>4. ASSUME at # "off"
        PROVE  /\ Taken <= Len(sent)
               /\ \A j \in 1 .. Len(packets) : packets[j] = OnWire(sent'[Len(delivered) + j])
               /\ fed - Len(buffer) + readIndex = End(Taken)
    <3>1. /\ Taken <= Len(sent)
          /\ \A j \in 1 .. Len(packets) : packets[j] = OnWire(sent[Len(delivered) + j])
          /\ fed - Len(buffer) + readIndex = End(Taken)
      BY <2>4 DEF FrameInv, TakenInOrder
    <3>2. \A j \in 1 .. Len(packets) : Len(delivered) + j \in 1 .. Len(sent)
      BY <1>1, <2>1, <3>1 DEF Taken
    <3> QED
      BY <3>1, <3>2
  <2>5. at # "off" => End(Taken)' = End(Taken)
    <3>1. ASSUME at # "off" PROVE Taken \in 0 .. Len(sent)
      BY <1>1, <2>1, <2>4, <3>1
    <3> QED
      BY <1>4, <2>1, <3>1 DEF End
  <2> QED
    BY <1>1, <2>1, <2>2, <2>3, <2>4, <2>5 DEF TakenInOrder, decoderVars
<1> QED
  BY <1>2, <1>3, <1>5 DEF FrameInv

LEMMA PeerSendsInv ==
  ASSUME FrameInv, NEW p \in Packet, PeerSends(p)
  PROVE  FrameInv'
<1>1. /\ Len(sent) \in Nat /\ Len(stream) \in Nat
      /\ Len(ends) = Len(sent) /\ Len(stream) = End(Len(sent)) /\ ~foreign
      /\ stream \in Seq(Cell) /\ sent \in Seq(Packet) /\ ends \in Seq(Nat)
  BY EndsInStream DEF FrameInv, StreamHoldsPackets, DecoderTypeOK, PeerSends
<1>2. /\ EncodePacket(p) \in Seq(Cell)
      /\ Len(p.body) \in Nat
      /\ Len(EncodePacket(p)) = HeaderSize + Len(p.body)
  BY PacketOnWire
<1>3. /\ stream' \in Seq(Cell)
      /\ Len(stream') = Len(stream) + Len(EncodePacket(p))
      /\ \A k \in 1 .. Len(stream) : stream'[k] = stream[k]
      /\ \A k \in 1 .. Len(EncodePacket(p)) : stream'[Len(stream) + k] = EncodePacket(p)[k]
  <2>1. EncodePacket(p) \in Seq(Cell) /\ stream \in Seq(Cell)
    BY <1>1, <1>2
  <2>2. stream' = stream \o EncodePacket(p)
    BY DEF PeerSends
  <2> QED
    BY <2>1, <2>2, CellsConcat
<1>4. /\ sent' \in Seq(Packet) /\ Len(sent') = Len(sent) + 1
      /\ \A i \in 1 .. Len(sent) : sent'[i] = sent[i]
      /\ sent'[Len(sent) + 1] = p
  BY <1>1, CellsAppend DEF PeerSends
<1>5. HeaderSize = 6 /\ Len(stream') \in Nat
  BY <1>3 DEF HeaderSize
<1>6. /\ ends' \in Seq(Nat) /\ Len(ends') = Len(sent) + 1
      /\ \A i \in 1 .. Len(sent) : ends'[i] = ends[i]
      /\ ends'[Len(sent) + 1] = Len(stream')
  BY <1>1, <1>5, CellsAppend DEF PeerSends
<1>7. /\ \A i \in 0 .. Len(sent) : End(i)' = End(i)
      /\ \A i \in Nat : i = Len(sent) + 1 => End(i)' = Len(stream')
  BY <1>1, <1>6 DEF End
<1>8. StreamHoldsPackets'
  <2>1. ASSUME NEW i \in 1 .. Len(sent')
        PROVE  /\ ends'[i] = End(i - 1)' + HeaderSize + Len(sent'[i].body)
               /\ ends'[i] <= Len(stream')
               /\ \A k \in 1 .. HeaderSize + Len(sent'[i].body) :
                    stream'[End(i - 1)' + k] = EncodePacket(sent'[i])[k]
    <3>1. CASE i \in 1 .. Len(sent)
      <4>1. /\ ends[i] = End(i - 1) + HeaderSize + Len(sent[i].body)
            /\ ends[i] <= Len(stream)
            /\ \A k \in 1 .. HeaderSize + Len(sent[i].body) :
                 stream[End(i - 1) + k] = EncodePacket(sent[i])[k]
        BY <3>1 DEF FrameInv, StreamHoldsPackets
      <4>2. /\ End(i - 1)' = End(i - 1) /\ ends'[i] = ends[i] /\ sent'[i] = sent[i]
            /\ End(i - 1) \in 0 .. Len(stream) /\ Len(sent[i].body) \in Nat
        BY <1>1, <1>4, <1>6, <1>7, <3>1, EndsInStream
      <4>3. \A k \in 1 .. HeaderSize + Len(sent[i].body) : End(i - 1) + k \in 1 .. Len(stream)
        <5>1. End(i - 1) \in Nat /\ End(i - 1) + HeaderSize + Len(sent[i].body) <= Len(stream)
          BY <4>1, <4>2
        <5> QED
          BY <1>1, <4>2, <5>1, CellInStream
      <4>4. ends'[i] <= Len(stream')
        <5>1. ends[i] \in Nat
          BY <1>1, <3>1
        <5>2. Len(stream) <= Len(stream')
          BY <1>1, <1>2, <1>3, <1>5
        <5> QED
          BY <1>1, <1>5, <4>1, <4>2, <5>1, <5>2
      <4> QED
        BY <1>3, <4>1, <4>2, <4>3, <4>4
    <3>2. CASE i = Len(sent) + 1
      <4>1. End(i - 1)' = Len(stream) /\ ends'[i] = Len(stream') /\ sent'[i] = p
        BY <1>1, <1>4, <1>6, <1>7, <3>2
      <4> QED
        BY <1>1, <1>2, <1>3, <1>5, <4>1
    <3> QED
      BY <1>1, <1>4, <3>1, <3>2
  <2>2. foreign' = FALSE /\ End(Len(sent))' = Len(stream')
    <3>1. foreign' = foreign
      BY DEF PeerSends
    <3> QED
      BY <1>1, <1>4, <1>6, <3>1 DEF End
  <2> QED
    BY <1>4, <1>6, <2>1, <2>2 DEF StreamHoldsPackets
<1>9. /\ UNCHANGED <<fed, decoderVars, at, delivered, connections>> /\ foreign' \in BOOLEAN
      /\ Len(stream) <= Len(stream') /\ Len(sent) <= Len(sent')
  <2>1. Len(stream) <= Len(stream')
    BY <1>1, <1>2, <1>3, <1>5
  <2>2. Len(sent) <= Len(sent')
    BY <1>1, <1>4
  <2>3. UNCHANGED <<fed, decoderVars, at, delivered, connections>> /\ foreign' \in BOOLEAN
    BY DEF PeerSends, FrameInv, DecoderTypeOK
  <2> QED
    BY <2>1, <2>2, <2>3
<1> QED
  BY <1>3, <1>4, <1>6, <1>8, <1>9, MoreSent

LEMMA PeerSendsForeignInv ==
  ASSUME FrameInv, NEW h \in ForeignHeader, PeerSendsForeign(h)
  PROVE  FrameInv'
<1>1. /\ Len(sent) \in Nat /\ Len(stream) \in Nat
      /\ Len(ends) = Len(sent) /\ Len(stream) = End(Len(sent)) /\ ~foreign
      /\ stream \in Seq(Cell) /\ sent \in Seq(Packet) /\ ends \in Seq(Nat)
  BY EndsInStream DEF FrameInv, StreamHoldsPackets, DecoderTypeOK, PeerSendsForeign
<1>2. Pack(h) \in Seq(Cell) /\ Len(Pack(h)) = HeaderSize
  BY ForeignAssumption, ParsePacked
<1>3. /\ stream' \in Seq(Cell)
      /\ Len(stream') = Len(stream) + HeaderSize
      /\ \A k \in 1 .. Len(stream) : stream'[k] = stream[k]
      /\ \A k \in 1 .. HeaderSize : stream'[Len(stream) + k] = Pack(h)[k]
  <2>1. Pack(h) \in Seq(Cell) /\ stream \in Seq(Cell)
    BY <1>1, <1>2
  <2>2. stream' = stream \o Pack(h)
    BY DEF PeerSendsForeign
  <2>3. /\ stream' \in Seq(Cell)
        /\ Len(stream') = Len(stream) + Len(Pack(h))
        /\ \A k \in 1 .. Len(stream) : stream'[k] = stream[k]
        /\ \A k \in 1 .. Len(Pack(h)) : stream'[Len(stream) + k] = Pack(h)[k]
    BY <2>1, <2>2, CellsConcat
  <2> QED
    BY <1>2, <2>3
<1>4. UNCHANGED <<fed, decoderVars, at, delivered, connections, sent, ends>> /\ foreign' = TRUE
  BY DEF PeerSendsForeign
<1>5. HeaderSize = 6 /\ Len(stream') \in Nat
  BY <1>3 DEF HeaderSize
<1>6. StreamHoldsPackets'
  <2>1. ASSUME NEW i \in 1 .. Len(sent)
        PROVE  /\ ends[i] <= Len(stream')
               /\ \A k \in 1 .. HeaderSize + Len(sent[i].body) :
                    stream'[End(i - 1) + k] = EncodePacket(sent[i])[k]
    <3>1. /\ ends[i] = End(i - 1) + HeaderSize + Len(sent[i].body)
          /\ ends[i] <= Len(stream)
          /\ \A k \in 1 .. HeaderSize + Len(sent[i].body) :
               stream[End(i - 1) + k] = EncodePacket(sent[i])[k]
      BY DEF FrameInv, StreamHoldsPackets
    <3>2. ends[i] \in Nat /\ End(i - 1) \in Nat /\ Len(sent[i].body) \in Nat
      BY <1>1, EndsInStream
    <3>3. \A k \in 1 .. HeaderSize + Len(sent[i].body) : End(i - 1) + k \in 1 .. Len(stream)
      <4>1. End(i - 1) + HeaderSize + Len(sent[i].body) <= Len(stream)
        BY <3>1
      <4> QED
        BY <1>1, <3>2, <4>1, CellInStream
    <3>4. Len(stream) <= Len(stream')
      BY <1>1, <1>3, <1>5
    <3>5. ends[i] <= Len(stream')
      BY <1>1, <1>5, <3>1, <3>2, <3>4
    <3> QED
      BY <1>3, <3>1, <3>3, <3>5
  <2>2. \A i \in 0 .. Len(sent) : End(i)' = End(i)
    BY <1>4 DEF End
  <2>3. End(Len(sent))' = End(Len(sent))
    BY <1>4 DEF End
  <2>4. ASSUME NEW i \in 1 .. Len(sent)
        PROVE  /\ End(i - 1)' = End(i - 1)
               /\ ends[i] = End(i - 1) + HeaderSize + Len(sent[i].body)
    <3>1. i - 1 \in 0 .. Len(sent)
      BY <1>1
    <3> QED
      BY <2>2, <3>1 DEF FrameInv, StreamHoldsPackets
  <2>5. /\ Len(ends') = Len(sent')
        /\ \A i \in 1 .. Len(sent') :
             /\ ends'[i] = End(i - 1)' + HeaderSize + Len(sent'[i].body)
             /\ ends'[i] <= Len(stream')
             /\ \A k \in 1 .. HeaderSize + Len(sent'[i].body) :
                  stream'[End(i - 1)' + k] = EncodePacket(sent'[i])[k]
    BY <1>1, <1>4, <2>1, <2>4
  <2>6. /\ Len(stream') = End(Len(sent))' + HeaderSize
        /\ \A k \in 1 .. HeaderSize : stream'[End(Len(sent))' + k] = Pack(h)[k]
    BY <1>1, <1>3, <2>3
  <2> QED
    BY <1>4, <2>5, <2>6 DEF StreamHoldsPackets
<1>7. \A i \in 1 .. Len(sent) : sent'[i] = sent[i] /\ ends'[i] = ends[i]
  BY <1>4
<1>8. Len(stream) <= Len(stream') /\ Len(sent) <= Len(sent')
  BY <1>1, <1>3, <1>4, <1>5
<1> QED
  BY <1>1, <1>3, <1>4, <1>6, <1>7, <1>8, MoreSent

-----------------------------------------------------------------------------
(* Steps of the receive loop: the stream stays as it is                    *)

LEMMA StreamUnchanged ==
  ASSUME FrameInv, UNCHANGED <<stream, sent, ends, foreign>>
  PROVE  StreamHoldsPackets' /\ \A i : End(i)' = End(i)
BY DEF FrameInv, StreamHoldsPackets, End

LEMMA ReadInv ==
  ASSUME FrameInv, ReadAny
  PROVE  FrameInv'
<1>1. PICK n \in 1 .. Least(ReadSize, Len(stream) - fed) : Read(n)
  BY DEF ReadAny
<1>2. /\ stream \in Seq(Cell) /\ fed \in Nat /\ buffer \in Seq(Cell)
      /\ Len(stream) \in Nat /\ Len(buffer) \in Nat /\ fed <= Len(stream)
      /\ at = "read" /\ readIndex = 0 /\ packets = <<>> /\ ~error
      /\ Len(buffer) <= fed
      /\ \A k \in 1 .. Len(buffer) : buffer[k] = stream[fed - Len(buffer) + k]
  BY <1>1 DEF FrameInv, DecoderTypeOK, BufferIsUnread, Read
<1>3. n \in Nat /\ fed + n <= Len(stream)
  BY <1>1, <1>2, BoundAssumption DEF Least
<1> DEFINE new == SubSeq(stream, fed + 1, fed + n)
<1>4. /\ new \in Seq(Cell) /\ Len(new) = n
      /\ \A i \in 1 .. n : new[i] = stream[fed + i]
  <2>1. fed \in Nat /\ fed + n \in Nat /\ fed <= fed + n /\ fed + n <= Len(stream)
    BY <1>2, <1>3
  <2>2. /\ new \in Seq(Cell) /\ Len(new) = (fed + n) - fed
        /\ \A i \in 1 .. (fed + n) - fed : new[i] = stream[fed + i]
    BY <1>2, <2>1, CellsPart
  <2>3. (fed + n) - fed = n
    BY <1>2, <1>3
  <2> QED
    BY <2>2, <2>3
<1>5. /\ fed' = fed + n /\ buffer' = buffer \o new /\ at' = "feed"
      /\ UNCHANGED <<stream, sent, ends, foreign, error, readIndex, packets, delivered, connections>>
  BY <1>1 DEF Read
<1>6. /\ buffer' \in Seq(Cell)
      /\ Len(buffer') = Len(buffer) + n
      /\ \A k \in 1 .. Len(buffer) : buffer'[k] = buffer[k]
      /\ \A i \in 1 .. n : buffer'[Len(buffer) + i] = new[i]
  <2>1. buffer \in Seq(Cell) /\ new \in Seq(Cell)
    BY <1>2, <1>4
  <2> HIDE DEF new
  <2>2. /\ buffer' \in Seq(Cell)
        /\ Len(buffer') = Len(buffer) + Len(new)
        /\ \A k \in 1 .. Len(buffer) : buffer'[k] = buffer[k]
        /\ \A i \in 1 .. Len(new) : buffer'[Len(buffer) + i] = new[i]
    BY <1>5, <2>1, CellsConcat
  <2> QED
    BY <1>4, <2>2
<1> HIDE DEF new
<1>7. DecoderTypeOK'
  <2>1. fed' \in 0 .. Len(stream') /\ readIndex' \in 0 .. Len(buffer') /\ at' \in {"read", "feed", "off"}
    BY <1>2, <1>3, <1>5, <1>6
  <2> QED
    BY <1>5, <1>6, <2>1 DEF FrameInv, DecoderTypeOK
<1>8. BufferIsUnread'
  <2>1. ASSUME NEW k \in 1 .. Len(buffer')
        PROVE  buffer'[k] = stream[fed' - Len(buffer') + k]
    <3>1. fed' - Len(buffer') + k = fed - Len(buffer) + k
      BY <1>2, <1>3, <1>5, <1>6
    <3>2. CASE k \in 1 .. Len(buffer)
      BY <1>2, <1>6, <3>1, <3>2
    <3>3. CASE k \notin 1 .. Len(buffer)
      <4>1. k - Len(buffer) \in 1 .. n /\ k = Len(buffer) + (k - Len(buffer))
        BY <1>2, <1>3, <1>6, <3>3
      <4>2. buffer'[k] = new[k - Len(buffer)]
        BY <1>6, <4>1
      <4>3. new[k - Len(buffer)] = stream[fed + (k - Len(buffer))]
        BY <1>4, <4>1
      <4>4. fed + (k - Len(buffer)) = fed - Len(buffer) + k
        BY <1>2, <4>1
      <4> QED
        BY <3>1, <4>2, <4>3, <4>4
    <3> QED
      BY <3>2, <3>3
  <2>2. Len(buffer') <= fed'
    BY <1>2, <1>3, <1>5, <1>6
  <2> QED
    BY <1>2, <1>5, <2>1, <2>2 DEF BufferIsUnread
<1>9. TakenInOrder'
  <2>1. fed' - Len(buffer') = fed - Len(buffer)
    BY <1>2, <1>3, <1>5, <1>6
  <2>2. Taken' = Taken
    BY <1>5 DEF Taken
  <2>3. End(Taken)' = End(Taken)
    BY <1>5, <2>2 DEF End
  <2> QED
    BY <1>2, <1>5, <2>1, <2>2, <2>3 DEF FrameInv, TakenInOrder
<1> QED
  BY <1>5, <1>7, <1>8, <1>9, StreamUnchanged DEF FrameInv

(* In feed, while a whole header is there and valid, the packet that comes *)
(* next was sent, and what is read of it is what was sent.                 *)
LEMMA NextWasSent ==
  ASSUME FrameInv, at = "feed", Unread >= HeaderSize
  PROVE  /\ Taken \in Nat /\ Taken <= Len(sent)
         /\ ValidHeader(NextHeader) => Taken < Len(sent)
         /\ Taken < Len(sent) => NextHeader = OnWire(sent[Taken + 1]).header
<1>1. /\ fed \in Nat /\ Len(buffer) \in Nat /\ readIndex \in Nat /\ readIndex <= Len(buffer)
      /\ fed <= Len(stream) /\ Len(buffer) <= fed
      /\ \A k \in 1 .. Len(buffer) : buffer[k] = stream[fed - Len(buffer) + k]
      /\ fed - Len(buffer) + readIndex = End(Taken)
      /\ Taken <= Len(sent) /\ Taken \in Nat
      /\ buffer \in Seq(Cell)
      /\ Len(sent) \in Nat /\ Len(stream) \in Nat
  BY EndsInStream DEF FrameInv, DecoderTypeOK, BufferIsUnread, TakenInOrder, Taken
<1>2. HeaderSize = 6 /\ readIndex + HeaderSize <= Len(buffer)
  BY <1>1 DEF HeaderSize, Unread
<1> DEFINE cells == SubSeq(buffer, readIndex + 1, readIndex + HeaderSize)
<1>3. \A k \in 1 .. HeaderSize : cells[k] = buffer[readIndex + k]
  <2>1. readIndex + HeaderSize \in Nat /\ readIndex <= readIndex + HeaderSize
    BY <1>1, <1>2
  <2>2. \A i \in 1 .. (readIndex + HeaderSize) - readIndex : cells[i] = buffer[readIndex + i]
    BY <1>1, <1>2, <2>1, CellsPart
  <2> QED
    BY <1>1, <1>2, <2>2
<1> HIDE DEF cells
<1>4. \A k \in 1 .. HeaderSize : cells[k] = stream[End(Taken) + k]
  <2>1. \A k \in 1 .. HeaderSize : readIndex + k \in 1 .. Len(buffer)
    BY <1>1, <1>2
  <2>2. \A k \in 1 .. HeaderSize : fed - Len(buffer) + (readIndex + k) = End(Taken) + k
    BY <1>1, <1>2
  <2> QED
    BY <1>1, <1>3, <2>1, <2>2
<1>5. NextHeader = ParseHeader(cells)
  BY DEF NextHeader, cells
<1>6. End(Taken) + HeaderSize <= Len(stream)
  BY <1>1, <1>2
<1>7. ASSUME Taken < Len(sent)
      PROVE  NextHeader = OnWire(sent[Taken + 1]).header
  <2>1. Taken + 1 \in 1 .. Len(sent) /\ (Taken + 1) - 1 = Taken
    BY <1>1, <1>7
  <2>2. sent[Taken + 1] \in Packet /\ Len(sent[Taken + 1].body) \in Nat
    BY <2>1, EndsInStream
  <2>3. \A k \in 1 .. HeaderSize + Len(sent[Taken + 1].body) :
          stream[End(Taken) + k] = EncodePacket(sent[Taken + 1])[k]
    BY <2>1 DEF FrameInv, StreamHoldsPackets
  <2>4. \A k \in 1 .. HeaderSize : k \in 1 .. HeaderSize + Len(sent[Taken + 1].body)
    BY <1>2, <2>2
  <2>5. /\ \A k \in 1 .. HeaderSize :
             EncodePacket(sent[Taken + 1])[k] = Pack(OnWire(sent[Taken + 1]).header)[k]
        /\ OnWire(sent[Taken + 1]).header \in PacketHeader
    BY <2>2, PacketOnWire DEF WirePacket
  <2>6. \A k \in 1 .. HeaderSize : cells[k] = Pack(OnWire(sent[Taken + 1]).header)[k]
    BY <1>4, <2>3, <2>4, <2>5
  <2> QED
    BY <1>5, <2>5, <2>6, ParsePacked
<1>8. ASSUME Taken = Len(sent)
      PROVE  ~ValidHeader(NextHeader)
  <2>1. foreign
    BY <1>1, <1>2, <1>6, <1>8 DEF FrameInv, StreamHoldsPackets
  <2>2. PICK h \in ForeignHeader :
          \A k \in 1 .. HeaderSize : stream[End(Len(sent)) + k] = Pack(h)[k]
    BY <2>1 DEF FrameInv, StreamHoldsPackets
  <2>3. h \in PacketHeader /\ ~ValidHeader(h)
    BY ForeignAssumption
  <2>4. \A k \in 1 .. HeaderSize : cells[k] = Pack(h)[k]
    BY <1>4, <1>8, <2>2
  <2> QED
    BY <1>5, <2>3, <2>4, ParsePacked
<1> QED
  BY <1>1, <1>7, <1>8

LEMMA DecodeFrameInv ==
  ASSUME FrameInv, DecodeFrame
  PROVE  FrameInv'
<1>1. /\ at = "feed" /\ Unread >= HeaderSize /\ ValidHeader(NextHeader) /\ Unread >= FrameSize
      /\ UNCHANGED <<streamVars, buffer, error, at, delivered, connections>>
      /\ readIndex' = readIndex + FrameSize
  BY DEF DecodeFrame, TakeFrame, FrameIsThere
<1>2. /\ fed \in Nat /\ Len(buffer) \in Nat /\ readIndex \in Nat /\ readIndex <= Len(buffer)
      /\ fed <= Len(stream) /\ Len(buffer) <= fed
      /\ \A k \in 1 .. Len(buffer) : buffer[k] = stream[fed - Len(buffer) + k]
      /\ fed - Len(buffer) + readIndex = End(Taken)
      /\ buffer \in Seq(Cell) /\ packets \in Seq(WirePacket)
      /\ Len(packets) \in Nat /\ Len(delivered) \in Nat /\ Len(sent) \in Nat
  BY <1>1, EndsInStream DEF FrameInv, DecoderTypeOK, BufferIsUnread, TakenInOrder
<1> DEFINE next == sent[Taken + 1]
           body == SubSeq(buffer, readIndex + HeaderSize + 1, readIndex + FrameSize)
<1>3. /\ Taken \in Nat /\ Taken + 1 \in 1 .. Len(sent) /\ (Taken + 1) - 1 = Taken
      /\ NextHeader = OnWire(next).header
  BY <1>1, <1>2, NextWasSent
<1>4. /\ next \in Packet /\ Len(next.body) \in Nat /\ next.body \in Seq(Cell)
      /\ End(Taken + 1) = End(Taken) + HeaderSize + Len(next.body)
      /\ OnWire(next) \in WirePacket /\ OnWire(next).body = next.body
      /\ NextHeader.length = Len(next.body)
  <2>1. next \in Packet
    BY <1>3, EndsInStream
  <2> QED
    BY <1>3, <2>1, EndsInStream, PacketOnWire
<1>5. HeaderSize = 6 /\ FrameSize = HeaderSize + Len(next.body)
  BY <1>4 DEF HeaderSize, FrameSize
<1>6. readIndex + FrameSize <= Len(buffer)
  BY <1>1, <1>2, <1>4, <1>5 DEF Unread
<1>7. /\ body \in Seq(Cell) /\ Len(body) = Len(next.body)
      /\ \A k \in 1 .. Len(next.body) : body[k] = buffer[readIndex + HeaderSize + k]
  <2> DEFINE from == readIndex + HeaderSize
             to   == readIndex + FrameSize
  <2> HIDE DEF next
  <2>1. /\ from \in Nat /\ to \in Nat /\ from <= to /\ to <= Len(buffer)
        /\ to - from = Len(next.body)
    <3>1. Len(next.body) \in Nat /\ readIndex \in Nat /\ readIndex + FrameSize <= Len(buffer)
      BY <1>2, <1>4, <1>6
    <3> QED
      BY ONLY <1>5, <3>1 DEF from, to
  <2>2. body = SubSeq(buffer, from + 1, to)
    OBVIOUS
  <2> HIDE DEF from, to, body
  <2>3. /\ body \in Seq(Cell)
        /\ Len(body) = to - from
        /\ \A k \in 1 .. to - from : body[k] = buffer[from + k]
    BY <1>2, <2>1, <2>2, CellsPart
  <2> QED
    BY <2>1, <2>3 DEF from
<1>8. body = next.body
  <2>1. ASSUME NEW k \in 1 .. Len(next.body)
        PROVE  body[k] = next.body[k]
    <3>1. readIndex + HeaderSize + k \in 1 .. Len(buffer)
      BY <1>2, <1>4, <1>5, <1>6
    <3>2. fed - Len(buffer) + (readIndex + HeaderSize + k) = End(Taken) + (HeaderSize + k)
      BY <1>2, <1>5
    <3>3. HeaderSize + k \in 1 .. HeaderSize + Len(next.body)
      BY <1>4, <1>5
    <3>4. stream[End(Taken) + (HeaderSize + k)] = EncodePacket(next)[HeaderSize + k]
      BY <1>3, <3>3 DEF FrameInv, StreamHoldsPackets
    <3>5. EncodePacket(next)[HeaderSize + k] = next.body[k]
      BY <1>4, PacketOnWire
    <3> QED
      BY <1>2, <1>7, <3>1, <3>2, <3>4, <3>5
  <2> QED
    BY <1>4, <1>7, <2>1, SeqEqual
<1> HIDE DEF next, body
<1>9. packets' = Append(packets, OnWire(next))
  <2>1. packets' = Append(packets, [header |-> NextHeader, body |-> body])
    BY DEF DecodeFrame, TakeFrame, body
  <2>2. OnWire(next) = [header |-> OnWire(next).header, body |-> OnWire(next).body]
    BY <1>4 DEF WirePacket
  <2> QED
    BY <1>3, <1>4, <1>8, <2>1, <2>2
<1>10. /\ packets' \in Seq(WirePacket) /\ Len(packets') = Len(packets) + 1
       /\ \A j \in 1 .. Len(packets) : packets'[j] = packets[j]
       /\ packets'[Len(packets) + 1] = OnWire(next)
  BY <1>2, <1>4, <1>9, CellsAppend
<1>11. DecoderTypeOK'
  <2>1. readIndex' \in 0 .. Len(buffer')
    BY <1>1, <1>2, <1>4, <1>5, <1>6
  <2> QED
    BY <1>1, <1>10, <2>1 DEF FrameInv, DecoderTypeOK, streamVars
<1>12. BufferIsUnread'
  BY <1>1 DEF FrameInv, BufferIsUnread, streamVars
<1>13. TakenInOrder'
  <2>1. Taken' = Taken + 1
    BY <1>1, <1>2, <1>10 DEF Taken
  <2>2. End(Taken)' = End(Taken + 1)
    BY <1>1, <2>1 DEF End, streamVars
  <2>3. fed - Len(buffer) + readIndex' = End(Taken + 1)
    BY <1>1, <1>2, <1>4, <1>5
  <2>4. ASSUME NEW j \in 1 .. Len(packets')
        PROVE  packets'[j] = OnWire(sent[Len(delivered) + j])
    <3>1. CASE j \in 1 .. Len(packets)
      BY <1>1, <1>10, <3>1 DEF FrameInv, TakenInOrder
    <3>2. CASE j = Len(packets) + 1
      <4>1. Len(delivered) + j = Taken + 1
        BY <1>2, <3>2 DEF Taken
      <4> QED
        BY <1>10, <3>2, <4>1 DEF next
    <3> QED
      BY <1>2, <1>10, <3>1, <3>2
  <2>5. Taken + 1 <= Len(sent)
    BY <1>2, <1>3
  <2> QED
    BY <1>1, <2>1, <2>2, <2>3, <2>4, <2>5 DEF FrameInv, TakenInOrder, streamVars
<1> QED
  BY <1>1, <1>11, <1>12, <1>13, StreamUnchanged DEF FrameInv, streamVars

(* What comes behind the read index stays in the buffer. *)
LEMMA BufferRest ==
  ASSUME FrameInv
  PROVE  /\ DropFront(buffer, readIndex) \in Seq(Cell)
         /\ Len(DropFront(buffer, readIndex)) = Len(buffer) - readIndex
         /\ \A k \in 1 .. Len(buffer) - readIndex :
              DropFront(buffer, readIndex)[k] = buffer[readIndex + k]
         /\ Len(buffer) \in Nat /\ readIndex \in Nat /\ readIndex <= Len(buffer)
<1>1. /\ buffer \in Seq(Cell) /\ Len(buffer) \in Nat
      /\ readIndex \in Nat /\ readIndex <= Len(buffer)
  BY DEF FrameInv, DecoderTypeOK
<1> QED
  BY <1>1, CellsPart DEF DropFront

LEMMA RefuseHeaderInv ==
  ASSUME FrameInv, RefuseHeader
  PROVE  FrameInv'
<1>1. /\ buffer' = DropFront(buffer, readIndex) /\ error' = TRUE /\ readIndex' = 0
      /\ packets' = <<>> /\ at' = "off" /\ UNCHANGED <<streamVars, delivered, connections>>
  BY DEF RefuseHeader
<1>2. DecoderTypeOK'
  <2>1. buffer' \in Seq(Cell) /\ Len(buffer') \in Nat
    BY <1>1, BufferRest
  <2>2. readIndex' \in 0 .. Len(buffer') /\ packets' \in Seq(WirePacket)
    BY <1>1, <2>1, EmptySeq
  <2> QED
    BY <1>1, <2>1, <2>2 DEF FrameInv, DecoderTypeOK, streamVars
<1>3. BufferIsUnread' /\ TakenInOrder'
  BY <1>1 DEF FrameInv, BufferIsUnread, TakenInOrder, streamVars
<1> QED
  BY <1>1, <1>2, <1>3, StreamUnchanged DEF FrameInv, streamVars

(* The packets of a feed are the next ones that were sent. *)
LEMMA DeliveredNext ==
  ASSUME FrameInv, at = "feed"
  PROVE  /\ delivered \o packets \in Seq(WirePacket)
         /\ Len(delivered \o packets) = Taken
         /\ Taken \in Nat /\ Taken <= Len(sent) /\ Len(delivered) \in Nat /\ Len(packets) \in Nat
         /\ \A i \in 1 .. Taken : (delivered \o packets)[i] = OnWire(sent[i])
<1>1. /\ delivered \in Seq(WirePacket) /\ packets \in Seq(WirePacket)
      /\ Len(delivered) \in Nat /\ Len(packets) \in Nat
      /\ Taken \in Nat /\ Taken <= Len(sent)
      /\ \A i \in 1 .. Len(delivered) : delivered[i] = OnWire(sent[i])
      /\ \A j \in 1 .. Len(packets) : packets[j] = OnWire(sent[Len(delivered) + j])
  BY DEF FrameInv, DecoderTypeOK, TakenInOrder, Taken
<1>2. /\ delivered \o packets \in Seq(WirePacket)
      /\ Len(delivered \o packets) = Len(delivered) + Len(packets)
      /\ \A i \in 1 .. Len(delivered) : (delivered \o packets)[i] = delivered[i]
      /\ \A j \in 1 .. Len(packets) : (delivered \o packets)[Len(delivered) + j] = packets[j]
  BY <1>1, CellsConcat
<1>3. ASSUME NEW i \in 1 .. Taken
      PROVE  (delivered \o packets)[i] = OnWire(sent[i])
  <2>1. CASE i \in 1 .. Len(delivered)
    BY <1>1, <1>2, <2>1
  <2>2. CASE i \notin 1 .. Len(delivered)
    <3>1. i - Len(delivered) \in 1 .. Len(packets) /\ Len(delivered) + (i - Len(delivered)) = i
      BY <1>1, <2>2 DEF Taken
    <3> QED
      BY <1>1, <1>2, <3>1
  <2> QED
    BY <2>1, <2>2
<1> QED
  BY <1>1, <1>2, <1>3 DEF Taken

LEMMA FeedReturnsInv ==
  ASSUME FrameInv, FeedReturns
  PROVE  FrameInv'
<1>1. /\ at = "feed" /\ buffer' = DropFront(buffer, readIndex) /\ readIndex' = 0
      /\ packets' = <<>> /\ delivered' = delivered \o packets /\ at' = "read"
      /\ UNCHANGED <<streamVars, error, connections>>
  BY DEF FeedReturns
<1>2. /\ fed \in Nat /\ Len(buffer) <= fed /\ ~error
      /\ \A k \in 1 .. Len(buffer) : buffer[k] = stream[fed - Len(buffer) + k]
      /\ fed - Len(buffer) + readIndex = End(Taken)
  BY <1>1 DEF FrameInv, DecoderTypeOK, BufferIsUnread, TakenInOrder
<1>3. /\ Len(buffer) \in Nat /\ readIndex \in Nat /\ readIndex <= Len(buffer)
      /\ buffer' \in Seq(Cell) /\ Len(buffer') = Len(buffer) - readIndex
      /\ \A k \in 1 .. Len(buffer') : buffer'[k] = buffer[readIndex + k]
  BY <1>1, BufferRest
<1>4. /\ delivered' \in Seq(WirePacket) /\ Len(delivered') = Taken
      /\ Taken \in Nat /\ Taken <= Len(sent)
      /\ \A i \in 1 .. Taken : delivered'[i] = OnWire(sent[i])
  BY <1>1, DeliveredNext
<1>5. DecoderTypeOK'
  <2>1. readIndex' \in 0 .. Len(buffer') /\ packets' \in Seq(WirePacket)
    BY <1>1, <1>3, EmptySeq
  <2> QED
    BY <1>1, <1>3, <1>4, <2>1 DEF FrameInv, DecoderTypeOK, streamVars
<1>6. BufferIsUnread'
  <2>1. ASSUME NEW k \in 1 .. Len(buffer')
        PROVE  buffer'[k] = stream[fed - Len(buffer') + k]
    <3>1. readIndex + k \in 1 .. Len(buffer)
      BY <1>3
    <3>2. fed - Len(buffer) + (readIndex + k) = fed - Len(buffer') + k
      BY <1>2, <1>3
    <3> QED
      BY <1>2, <1>3, <3>1, <3>2
  <2>2. Len(buffer') <= fed
    BY <1>2, <1>3
  <2> QED
    BY <1>1, <1>2, <2>1, <2>2 DEF BufferIsUnread, streamVars
<1>7. TakenInOrder'
  <2>1. Len(packets') = 0
    BY <1>1
  <2>2. Taken' = Taken
    BY <1>4, <2>1 DEF Taken
  <2>3. End(Taken)' = End(Taken)
    BY <1>1, <2>2 DEF End, streamVars
  <2>4. fed - Len(buffer') + readIndex' = End(Taken)
    BY <1>1, <1>2, <1>3
  <2> QED
    BY <1>1, <1>4, <2>1, <2>2, <2>3, <2>4 DEF TakenInOrder, streamVars
<1> QED
  BY <1>1, <1>5, <1>6, <1>7, StreamUnchanged DEF FrameInv, streamVars

LEMMA ConnectionEndsInv ==
  ASSUME FrameInv, ConnectionEnds
  PROVE  FrameInv'
<1>1. DecoderTypeOK' /\ BufferIsUnread' /\ TakenInOrder'
  BY DEF ConnectionEnds, FrameInv, DecoderTypeOK, BufferIsUnread, TakenInOrder, streamVars, decoderVars
<1> QED
  BY <1>1, StreamUnchanged DEF ConnectionEnds, FrameInv, streamVars

LEMMA ReconnectInv ==
  ASSUME FrameInv, Reconnect
  PROVE  FrameInv'
<1>1. /\ buffer' = <<>> /\ error' = FALSE /\ stream' = <<>> /\ fed' = 0 /\ sent' = <<>>
      /\ ends' = <<>> /\ foreign' = FALSE /\ delivered' = <<>> /\ at' = "read"
      /\ UNCHANGED <<readIndex, packets>> /\ connections' = connections + 1
  BY DEF Reconnect, Reset
<1>2. readIndex = 0 /\ packets = <<>>
  BY DEF Reconnect, FrameInv, BufferIsUnread
<1>3. DecoderTypeOK'
  <2>1. \A S : <<>> \in Seq(S)
    BY EmptySeq
  <2>2. /\ fed' \in 0 .. Len(stream') /\ readIndex' \in 0 .. Len(buffer')
        /\ connections' \in Nat
    BY <1>1, <1>2 DEF FrameInv, DecoderTypeOK
  <2> QED
    BY <1>1, <1>2, <2>1, <2>2 DEF DecoderTypeOK
<1>4. StreamHoldsPackets'
  BY <1>1 DEF StreamHoldsPackets, End
<1>5. BufferIsUnread'
  BY <1>1, <1>2 DEF BufferIsUnread
<1>6. TakenInOrder'
  <2>1. Len(delivered') = 0 /\ Len(packets') = 0 /\ Len(sent') = 0 /\ Taken' = 0
    BY <1>1, <1>2 DEF Taken
  <2>2. fed' = 0 /\ Len(buffer') = 0 /\ readIndex' = 0
    BY <1>1, <1>2
  <2>3. End(Taken)' = 0
    BY <2>1 DEF End
  <2> QED
    BY <2>1, <2>2, <2>3 DEF TakenInOrder
<1> QED
  BY <1>3, <1>4, <1>5, <1>6 DEF FrameInv

LEMMA FrameStepInv == FrameInv /\ [FrameNext]_wireVars => FrameInv'
<1> SUFFICES ASSUME FrameInv, [FrameNext]_wireVars
             PROVE  FrameInv'
  OBVIOUS
<1>1. CASE UNCHANGED wireVars
  <2>1. DecoderTypeOK' /\ BufferIsUnread' /\ TakenInOrder'
    BY <1>1 DEF wireVars, streamVars, decoderVars, FrameInv, DecoderTypeOK, BufferIsUnread,
                TakenInOrder, Taken, End
  <2> QED
    BY <1>1, <2>1, StreamUnchanged DEF wireVars, streamVars, FrameInv
<1>2. CASE FrameNext
  BY <1>2, PeerSendsInv, PeerSendsForeignInv, ReadInv, DecodeFrameInv, RefuseHeaderInv,
     FeedReturnsInv, ConnectionEndsInv, ReconnectInv DEF FrameNext
<1> QED
  BY <1>1, <1>2

(* The buffer is the end of what was read, and the packets that were       *)
(* decoded are those that were sent, whatever the reads cut (feed in       *)
(* frame_decoder.py).                                                      *)
THEOREM FrameInvariant == FrameSpec => []FrameInv
BY FrameInvInit, FrameStepInv, PTL DEF FrameSpec

-----------------------------------------------------------------------------
(* The channel                                                             *)

(* The packets as they are on the wire: the channel's sent.                *)
WireSent == [i \in 1 .. Len(sent) |-> OnWire(sent[i])]

LEMMA WireSentIsSeq ==
  ASSUME FrameInv
  PROVE  /\ WireSent \in Seq(WirePacket)
         /\ Len(WireSent) = Len(sent)
         /\ Len(sent) \in Nat
         /\ \A i \in 1 .. Len(sent) : WireSent[i] = OnWire(sent[i])
<1>1. Len(sent) \in Nat /\ \A i \in 1 .. Len(sent) : OnWire(sent[i]) \in WirePacket
  BY EndsInStream, PacketOnWire
<1> QED
  BY <1>1 DEF WireSent

(* What feed returns is a part of the packets that were sent, from the     *)
(* first on.                                                               *)
LEMMA PartOfSent ==
  ASSUME FrameInv, NEW s \in Seq(WirePacket), Len(s) <= Len(sent),
         \A i \in 1 .. Len(s) : s[i] = OnWire(sent[i])
  PROVE  s = SubSeq(WireSent, 1, Len(s))
<1>1. /\ WireSent \in Seq(WirePacket) /\ Len(WireSent) = Len(sent) /\ Len(sent) \in Nat
      /\ \A i \in 1 .. Len(sent) : WireSent[i] = OnWire(sent[i])
  BY WireSentIsSeq
<1>2. Len(s) \in Nat
  OBVIOUS
<1> DEFINE part == SubSeq(WireSent, 0 + 1, Len(s))
<1>3. /\ part \in Seq(WirePacket) /\ Len(part) = Len(s) - 0
      /\ \A i \in 1 .. Len(s) - 0 : part[i] = WireSent[0 + i]
  <2>1. 0 \in Nat /\ 0 <= Len(s) /\ Len(s) <= Len(WireSent)
    BY <1>1, <1>2
  <2> QED
    BY <1>1, <1>2, <2>1, CellsPart
<1> HIDE DEF part
<1>4. /\ Len(part) = Len(s)
      /\ \A i \in 1 .. Len(s) : part[i] = s[i]
  BY <1>1, <1>2, <1>3
<1>5. part = s
  BY <1>3, <1>4, SeqEqual
<1>6. part = SubSeq(WireSent, 1, Len(s))
  BY DEF part
<1> QED
  BY <1>5, <1>6

LEMMA ChannelInit == FrameInit => Wire!Init
<1> SUFFICES ASSUME FrameInit PROVE Wire!Init
  OBVIOUS
<1>1. sent = <<>> /\ delivered = <<>> /\ at = "read"
  BY DEF FrameInit
<1>2. [i \in 1 .. Len(sent) |-> OnWire(sent[i])] = <<>>
  BY <1>1
<1> QED
  BY <1>1, <1>2 DEF Wire!Init

(* A packet that is sent is a packet more on the channel.                  *)
LEMMA SendIsSend ==
  ASSUME FrameInv, FrameInv', NEW p \in Packet, PeerSends(p)
  PROVE  Wire!Send
<1>1. /\ at # "off" /\ sent' = Append(sent, p) /\ at' = at /\ delivered' = delivered
      /\ sent \in Seq(Packet) /\ sent' \in Seq(Packet)
  BY DEF PeerSends, FrameInv, DecoderTypeOK
<1>2. /\ Len(sent') = Len(sent) + 1
      /\ \A i \in 1 .. Len(sent) : sent'[i] = sent[i]
      /\ Len(sent) \in Nat
  BY <1>1, CellsAppend
<1>3. /\ WireSent \in Seq(WirePacket) /\ Len(WireSent) = Len(sent)
      /\ \A i \in 1 .. Len(sent) : WireSent[i] = OnWire(sent[i])
  BY WireSentIsSeq
<1>4. /\ WireSent' \in Seq(WirePacket) /\ Len(WireSent') = Len(sent')
      /\ \A i \in 1 .. Len(sent') : WireSent'[i] = OnWire(sent'[i])
  <2>1. Len(sent') \in Nat /\ \A i \in 1 .. Len(sent') : OnWire(sent'[i]) \in WirePacket
    <3>1. \A i \in 1 .. Len(sent') : sent'[i] \in Packet
      BY <1>1
    <3> QED
      BY <1>1, <3>1, PacketOnWire
  <2> QED
    BY <2>1 DEF WireSent
<1> DEFINE part == SubSeq(WireSent', 0 + 1, Len(sent))
<1>5. part = WireSent
  <2>1. /\ part \in Seq(WirePacket) /\ Len(part) = Len(sent) - 0
        /\ \A i \in 1 .. Len(sent) - 0 : part[i] = WireSent'[0 + i]
    <3>1. 0 \in Nat /\ 0 <= Len(sent) /\ Len(sent) <= Len(WireSent')
      BY <1>2, <1>4
    <3> QED
      BY <1>2, <1>4, <3>1, CellsPart
  <2> HIDE DEF part
  <2>2. \A i \in 1 .. Len(sent) : part[i] = WireSent[i]
    BY <1>2, <1>3, <1>4, <2>1
  <2>3. Len(part) = Len(WireSent)
    BY <1>2, <1>3, <2>1
  <2> QED
    BY <1>3, <2>1, <2>2, <2>3, SeqEqual
<1>6. Len(WireSent') = Len(WireSent) + 1 /\ SubSeq(WireSent', 1, Len(WireSent)) = WireSent
  BY <1>2, <1>3, <1>4, <1>5
<1> QED
  BY <1>1, <1>6 DEF Wire!Send, WireSent

(* What feed returns arrives, if it is anything at all.                    *)
LEMMA ReturnIsArrive ==
  ASSUME FrameInv, FeedReturns
  PROVE  Wire!Arrive \/ UNCHANGED Wire!channelVars
<1>1. /\ at = "feed" /\ at' = "read" /\ delivered' = delivered \o packets
      /\ sent' = sent
  BY DEF FeedReturns, streamVars
<1>2. /\ delivered' \in Seq(WirePacket) /\ Len(delivered') = Taken
      /\ Taken \in Nat /\ Taken <= Len(sent)
      /\ \A i \in 1 .. Taken : delivered'[i] = OnWire(sent[i])
      /\ Len(delivered) \in Nat /\ Len(packets) \in Nat
      /\ Taken = Len(delivered) + Len(packets)
  BY <1>1, DeliveredNext DEF Taken
<1>3. delivered' = SubSeq(WireSent, 1, Taken)
  BY <1>2, PartOfSent
<1>4. UNCHANGED WireSent /\ Len(WireSent) = Len(sent) /\ Len(sent) \in Nat
  BY <1>1, WireSentIsSeq DEF WireSent
<1>5. CASE Len(packets) = 0
  <2>1. delivered \in Seq(WirePacket) /\ delivered = SubSeq(WireSent, 1, Len(delivered))
    <3>1. /\ delivered \in Seq(WirePacket) /\ Len(delivered) <= Len(sent)
          /\ \A i \in 1 .. Len(delivered) : delivered[i] = OnWire(sent[i])
      BY DEF FrameInv, DecoderTypeOK, TakenInOrder
    <3> QED
      BY <3>1, PartOfSent
  <2>2. Taken = Len(delivered)
    BY <1>2, <1>5
  <2>3. delivered' = delivered
    BY <1>3, <2>1, <2>2
  <2> QED
    BY <1>1, <1>4, <2>3 DEF Wire!channelVars, WireSent
<1>6. CASE Len(packets) # 0
  <2>1. Taken \in Len(delivered) + 1 .. Len(WireSent)
    BY <1>2, <1>4, <1>6
  <2>2. \E n \in Len(delivered) + 1 .. Len(WireSent) : delivered' = SubSeq(WireSent, 1, n)
    BY <1>3, <2>1
  <2> QED
    BY <1>1, <1>4, <2>2 DEF Wire!Arrive, WireSent
<1> QED
  BY <1>5, <1>6

LEMMA ChannelStep == FrameInv /\ FrameInv' /\ [FrameNext]_wireVars => [Wire!Next]_(Wire!channelVars)
<1> SUFFICES ASSUME FrameInv, FrameInv', [FrameNext]_wireVars
             PROVE  Wire!Next \/ UNCHANGED Wire!channelVars
  OBVIOUS
<1>1. ASSUME UNCHANGED <<sent, delivered, at>>
      PROVE  UNCHANGED Wire!channelVars
  BY <1>1 DEF Wire!channelVars
<1>2. ASSUME NEW p \in Packet, PeerSends(p)
      PROVE  Wire!Next
  BY <1>2, SendIsSend DEF Wire!Next
<1>3. ASSUME NEW h \in ForeignHeader, PeerSendsForeign(h)
      PROVE  UNCHANGED Wire!channelVars
  BY <1>1, <1>3 DEF PeerSendsForeign
<1>4. ASSUME ReadAny
      PROVE  UNCHANGED Wire!channelVars
  BY <1>4 DEF ReadAny, Read, Wire!channelVars
<1>5. ASSUME DecodeFrame
      PROVE  UNCHANGED Wire!channelVars
  BY <1>1, <1>5 DEF DecodeFrame, TakeFrame, streamVars
<1>6. ASSUME RefuseHeader
      PROVE  Wire!Next
  BY <1>6 DEF RefuseHeader, streamVars, Wire!Next, Wire!Break
<1>7. ASSUME FeedReturns
      PROVE  Wire!Next \/ UNCHANGED Wire!channelVars
  BY <1>7, ReturnIsArrive DEF Wire!Next
<1>8. ASSUME ConnectionEnds
      PROVE  Wire!Next
  BY <1>8 DEF ConnectionEnds, streamVars, Wire!Next, Wire!Break
<1>9. ASSUME Reconnect
      PROVE  Wire!Next
  <2>1. /\ at = "off" /\ at' = "read" /\ sent' = <<>> /\ delivered' = <<>>
    BY <1>9 DEF Reconnect
  <2>2. [i \in 1 .. Len(sent') |-> OnWire(sent'[i])] = <<>>
    BY <2>1
  <2> QED
    BY <2>1, <2>2 DEF Wire!Next, Wire!Open
<1> QED
  BY <1>1, <1>2, <1>3, <1>4, <1>5, <1>6, <1>7, <1>8, <1>9
     DEF FrameNext, wireVars, streamVars

(* The receiving side of a connection is a channel of packets: they arrive *)
(* whole, once and in order, and none of an earlier connection (feed and   *)
(* reset in frame_decoder.py, _receive_loop and connect in client.py).     *)
THEOREM FramesAreAChannel == FrameSpec => ChannelSpec
<1>1. FrameInv /\ FrameInv' /\ [FrameNext]_wireVars => [Wire!Next]_(Wire!channelVars)
  BY ChannelStep
<1> QED
  BY <1>1, FrameInvariant, ChannelInit, PTL DEF FrameSpec, ChannelSpec, Wire!Spec

LEMMA WireStepIsFrameStep == [Next]_vars => [FrameNext]_wireVars
<1> SUFFICES ASSUME [Next]_vars PROVE [FrameNext]_wireVars
  OBVIOUS
<1>1. ASSUME NEW a \in Answer, ServerSays(a)
      PROVE  FrameNext
  BY <1>1, AnswerAssumption DEF ServerSays, FrameNext
<1>2. ASSUME DecoderSteps
      PROVE  FrameNext
  BY <1>2 DEF DecoderSteps, FrameNext
<1>3. ASSUME ReconnectAnew
      PROVE  FrameNext
  BY <1>3 DEF ReconnectAnew, FrameNext
<1>4. ASSUME NEW i \in DOMAIN delivered, AckOffline(i)
      PROVE  UNCHANGED wireVars
  BY <1>4 DEF AckOffline, Asks
<1>5. ASSUME NEW i \in DOMAIN delivered, NEW n \in DOMAIN Reading(i).rows,
             AboutMessage(i, n) \/ AnswerFriend(i, n)
      PROVE  UNCHANGED wireVars
  BY <1>5 DEF AboutMessage, AnswerFriend, Asks
<1> QED
  BY <1>1, <1>2, <1>3, <1>4, <1>5 DEF Next, vars

(* The packets on which the client acts are those the server wrote, in its *)
(* order, also while it reads them and asks about them (client.py).        *)
THEOREM WireIsAChannel == Spec => ChannelSpec
<1>1. Init => FrameInit
  BY DEF Init
<1>2. [Next]_vars => [FrameNext]_wireVars
  BY WireStepIsFrameStep
<1>3. Spec => FrameSpec
  BY <1>1, <1>2, PTL DEF Spec, FrameSpec
<1> QED
  BY <1>3, FramesAreAChannel

=============================================================================
