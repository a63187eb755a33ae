----------------------------- MODULE PacketCodec -----------------------------
(***************************************************************************)
(* The binary protocol of LiteIM (bot_client/protocol/codec.py): packets   *)
(* with a header of fixed size, and bodies of type-length-value fields.    *)
(*                                                                         *)
(* A cell stands for the bytes of one header field, of one type or length, *)
(* of one 64-bit integer, or of one character of a string; it is a number. *)
(* So a cut between two cells is a cut at, or inside of, such an item.     *)
(***************************************************************************)
EXTENDS Naturals, SequencesExt

CONSTANTS
  MaxBodyLength,   \* MAX_PACKET_BODY_LENGTH
  MaxValueLength,  \* MAX_TLV_VALUE_LENGTH
  BadUtf8          \* a cell that no UTF-8 string has

ASSUME LengthAssumption ==
  MaxBodyLength \in Nat /\ MaxValueLength \in Nat

Cell == Nat

PacketHeader == [magic : Cell, version : Cell, flags : Cell, type : Cell, seq : Cell, length : Cell]
HeaderSize   == 6

WirePacket == [header : PacketHeader, body : Seq(Cell)]

PacketMagic   == 4201
PacketVersion == 1
NoFlags       == 0

(* make_packet: whatever length the header of a new packet says, it is 0.  *)
MakePacket(type, seq, body) ==
  [header |-> [magic |-> PacketMagic, version |-> PacketVersion, flags |-> NoFlags,
               type |-> type, seq |-> seq, length |-> 0],
   body |-> body]

(* validate_header *)
ValidHeader(h) ==
  /\ h.magic = PacketMagic
  /\ h.version = PacketVersion
  /\ h.flags = NoFlags
  /\ h.length <= MaxBodyLength

Pack(h) == <<h.magic, h.version, h.flags, h.type, h.seq, h.length>>

(* The length a packet has on the wire is that of its body. *)
OnWire(p) == [p EXCEPT !.header.length = Len(p.body)]

(* encode_packet of a packet that it accepts *)
EncodePacket(p) == Pack(OnWire(p).header) \o p.body

Encodable(p) == ValidHeader(OnWire(p).header)

(* The header that parse_header returns for cells, or raises an error on.  *)
ParseHeader(cells) ==
  [magic |-> cells[1], version |-> cells[2], flags |-> cells[3],
   type |-> cells[4], seq |-> cells[5], length |-> cells[6]]

-----------------------------------------------------------------------------
(* Fields                                                                  *)

TlvHeaderSize == 2

(* append_uint64 and append_string, of a value they accept. *)
Append_Value(type, value) == <<type, Len(value)>> \o value
Uint64(n) == <<n>>

(* A body is written as a sequence of fields. *)
Body(fields) ==
  FlattenSeq([i \in DOMAIN fields |-> Append_Value(fields[i].type, fields[i].value)])

(* The field at o and those behind it, which are parsed, or a              *)
(* ProtocolError.                                                          *)
ParseFrom(body, parsed, o) ==
  LET left      == Len(body) - (o - 1)
      malformed == [ok |-> FALSE, fields |-> <<>>]
  IN CASE left = 0 -> [ok |-> TRUE, fields |-> <<>>]
       [] left \in 1 .. TlvHeaderSize - 1 -> malformed
       [] left >= TlvHeaderSize ->
          LET length == body[o + 1]
              value  == o + TlvHeaderSize
              rest   == parsed[value + length]
          IN IF length > MaxValueLength \/ length > left - TlvHeaderSize THEN malformed
             ELSE IF ~rest.ok THEN malformed
             ELSE [ok |-> TRUE,
                   fields |-> <<[type |-> body[o],
                                 value |-> SubSeq(body, value, value + length - 1)]>>
                              \o rest.fields]

(* parse_tlv_map: the fields of a body in their order. *)
ParseTlvMap(body) ==
  LET parsed[o \in 1 .. Len(body) + 1] == ParseFrom(body, parsed, o)
  IN parsed[1]

(* The members of a set of numbers, the smallest first. *)
InOrder(S) ==
  [k \in 1 .. Cardinality(S) |->
     CHOOSE n \in S : Cardinality({m \in S : m <= n}) = k]

(* What the TlvMap holds for a type. *)
ValuesOf(fields, type) ==
  LET at == InOrder({i \in DOMAIN fields : fields[i].type = type})
  IN [k \in DOMAIN at |-> fields[at[k]].value]

(* get_uint64 and get_string look at the first value, the repeated getters *)
(* at all of them.                                                         *)
IsUint64(value) == Len(value) = 1
IsUtf8(value)   == \A i \in DOMAIN value : value[i] # BadUtf8

GetFirst(fields, type) == ValuesOf(fields, type)[1]
=============================================================================
