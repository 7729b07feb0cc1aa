------------------------------- MODULE FrameCodec -------------------------------
(***************************************************************************)
(* The wire protocol between an agent and the orchestrator, one direction  *)
(* of it: messages are serialized, framed by an 8-byte header and written  *)
(* to the SSH channel; the receiver collects what arrives in a buffer and  *)
(* takes frames out of it.  SSH delivers a frame in any number of pieces,  *)
(* in order, and never puts two frames in one piece.                       *)
(*                                                                         *)
(* The digits of session ids and lengths have the radix Radix instead of   *)
(* 256, so that lengths come to the limit of their three digits.  A byte   *)
(* of a payload stands for a field, a length or a unit of data.            *)
(***************************************************************************)
EXTENDS Naturals, Sequences, FiniteSets

CONSTANTS Radix,      \* 256 in the code
          SessionId,  \* the session ids in use; 0 is CONTROL
          Message,    \* the messages sent
          NoHeader,   \* pending_header is None
          MaxSent     \* bound: messages sent

(* The variants of Message, in their order; MessageType gives them the     *)
(* codes 1 to 9 and 0xFF.                                                  *)
Variant == <<"SessionCreate", "SessionReady", "Data", "Resize", "SessionClose",
             "Heartbeat", "HeartbeatAck", "Register", "RegisterAck", "Error">>
MessageType == {Variant[i] : i \in DOMAIN Variant}

(* What a digit is worth, by its place.                                    *)
Place == <<1, Radix, Radix * Radix, Radix * Radix * Radix, Radix * Radix * Radix * Radix>>

ASSUME FrameCodecAssumption ==
  /\ Radix \in Nat \ {0, 1} /\ MaxSent \in Nat
  /\ SessionId \subseteq 0..(Place[5] - 1)
  /\ Message \subseteq [type : MessageType, size : Nat, version : BOOLEAN]
  /\ NoHeader \notin [session : Nat, type : MessageType, length : Nat]

VARIABLES
  wire,            \* frames under way, each the bytes still to be delivered
  buffer,          \* the receiver's buffer
  pending_header,  \* FrameCodec::pending_header
  decoding,        \* data() is in its loop
  received,        \* history: the frames given to handle_frame
  sent,            \* history: the frames encode accepted
  tried            \* history: number of messages sent

vars == <<wire, buffer, pending_header, decoding, received, sent, tried>>

Init ==
  /\ wire = <<>> /\ buffer = <<>> /\ pending_header = NoHeader /\ decoding = FALSE
  /\ received = <<>> /\ sent = <<>> /\ tried = 0

-----------------------------------------------------------------------------
(* MessageType                                                             *)

index(t) == CHOOSE i \in DOMAIN Variant : Variant[i] = t
as_u8(t) == IF t = "Error" THEN 255 ELSE index(t)
from_u8(b) == {t \in MessageType : as_u8(t) = b}

(* bincode: the index of the variant and its fields one after the other.   *)
(* Data writes its length first; Register leaves version out when there is *)
(* none (skip_serializing_if).                                             *)
serialize(m) ==
  <<index(m.type) - 1>> \o
    CASE m.type = "Data"     -> <<m.size>> \o [i \in 1..m.size |-> 0]
      [] m.type = "Register" -> <<0>> \o (IF m.version THEN <<1>> ELSE <<>>)
      [] OTHER               -> <<0>>

(* Reading, every field is expected, version too; bytes left over are      *)
(* ignored.  The set is empty when the bytes are no message.               *)
deserialize(b) ==
  {m \in [type : MessageType, size : {IF Len(b) > 1 THEN b[2] ELSE 0}, version : {TRUE}] :
     /\ Len(b) > 1 /\ b[1] = index(m.type) - 1
     /\ m.type = "Data" => Len(b) >= 2 + m.size
     /\ m.type = "Register" => Len(b) >= 3}

-----------------------------------------------------------------------------
(* FrameHeader: session id (4 bytes), type (1), length (3), big-endian.    *)

HEADER_SIZE == 8
MAX_PAYLOAD_SIZE == Place[4] - 1

Digit(n, i) == (n \div Place[i + 1]) % Radix

header_encode(h) ==
  <<Digit(h.session, 3), Digit(h.session, 2), Digit(h.session, 1), Digit(h.session, 0),
    as_u8(h.type),
    Digit(h.length, 2), Digit(h.length, 1), Digit(h.length, 0)>>

header_decode(b) ==
  [session |-> b[1] * Place[4] + b[2] * Place[3] + b[3] * Place[2] + b[4],
   type    |-> CHOOSE t \in MessageType : as_u8(t) = b[5],
   length  |-> b[6] * Place[3] + b[7] * Place[2] + b[8]]

(* FrameCodec::encode: the bytes of the frame; none when it is refused.    *)
encode(f) ==
  LET payload == serialize(f.message)
  IN IF Len(payload) > MAX_PAYLOAD_SIZE THEN {}
     ELSE {header_encode([session |-> f.session, type |-> f.message.type, length |-> Len(payload)])
             \o payload}

Rest(s, n) == SubSeq(s, n + 1, Len(s))

More(h, src) == [kind |-> "more", header |-> h, src |-> src]
Failed(src) == [kind |-> "error", header |-> NoHeader, src |-> src]

(* Mutant: a header whose payload has not arrived is forgotten.            *)
payload_decode_Forgets(h, src) ==
  IF Len(src) < h.length THEN More(NoHeader, src)
  ELSE LET ms == deserialize(SubSeq(src, 1, h.length))
       IN IF ms = {} THEN Failed(Rest(src, h.length))
          ELSE [kind |-> "frame", header |-> NoHeader, src |-> Rest(src, h.length),
                frame |-> [session |-> h.session, message |-> CHOOSE m \in ms : TRUE]]

(* FrameCodec::decode, once it has a header: the header is kept until the  *)
(* whole payload is there.                                                 *)
payload_decode(h, src) ==
  IF h.length > MAX_PAYLOAD_SIZE THEN Failed(src)
  ELSE IF Len(src) < h.length THEN More(h, src)
  ELSE LET ms == deserialize(SubSeq(src, 1, h.length))
       IN IF ms = {} THEN Failed(Rest(src, h.length))
          ELSE [kind |-> "frame", header |-> NoHeader, src |-> Rest(src, h.length),
                frame |-> [session |-> h.session, message |-> CHOOSE m \in ms : TRUE]]

(* FrameCodec::decode and FrameHeader::decode                              *)
decode(pending, src) ==
  IF pending # NoHeader THEN payload_decode(pending, src)
  ELSE IF Len(src) < HEADER_SIZE THEN More(NoHeader, src)
  ELSE IF from_u8(src[5]) = {} THEN Failed(src)
  ELSE payload_decode(header_decode(src), Rest(src, HEADER_SIZE))

-----------------------------------------------------------------------------
(* send_message of either side, and the command processor: a message that  *)
(* cannot be encoded is not sent.                                          *)
Send(id, m) ==
  LET f == [session |-> id, message |-> m] IN
  /\ tried < MaxSent /\ tried' = tried + 1
  /\ IF encode(f) = {} THEN UNCHANGED <<wire, sent>>
     ELSE /\ wire' = Append(wire, CHOOSE b \in encode(f) : TRUE)
          /\ sent' = Append(sent, f)
  /\ UNCHANGED <<buffer, pending_header, decoding, received>>

(* data(): a piece of the first frame under way goes to the buffer ...     *)
Data(n) ==
  /\ ~decoding /\ wire # <<>> /\ n \in 1..Len(Head(wire))
  /\ buffer' = buffer \o SubSeq(Head(wire), 1, n)
  /\ wire' = IF n = Len(Head(wire)) THEN Tail(wire) ELSE <<Rest(Head(wire), n)>> \o Tail(wire)
  /\ decoding' = TRUE
  /\ UNCHANGED <<pending_header, received, sent, tried>>

(* ... and the loop decodes until more data is needed or an error, which   *)
(* clears the buffer.                                                      *)
Decode ==
  LET r == decode(pending_header, buffer) IN
  /\ decoding
  /\ pending_header' = r.header
  /\ buffer' = IF r.kind = "error" THEN <<>> ELSE r.src
  /\ received' = IF r.kind = "frame" THEN Append(received, r.frame) ELSE received
  /\ decoding' = (r.kind = "frame")
  /\ UNCHANGED <<wire, sent, tried>>

Next ==
  \/ \E id \in SessionId, m \in Message : Send(id, m)
  \/ \E n \in 1..(HEADER_SIZE + MAX_PAYLOAD_SIZE) : Data(n)
  \/ Decode

Spec == Init /\ [][Next]_vars

-----------------------------------------------------------------------------
(* Every variable has its type; the receiver holds no more than one frame. *)
TypeOK ==
  /\ Len(buffer) <= HEADER_SIZE + MAX_PAYLOAD_SIZE
  /\ pending_header # NoHeader => pending_header.length \in 0..MAX_PAYLOAD_SIZE
  /\ decoding \in BOOLEAN /\ tried \in 0..MaxSent
  /\ \A i \in DOMAIN received : received[i].session \in SessionId

(* The number of frames whose last byte the receiver has.                  *)
Delivered == Len(sent) - Len(wire)

(* bincode reads back what it wrote, a Register without version excepted.  *)
Readable(f) == f.message.type = "Register" => f.message.version

(* How many of the first k frames sent the receiver can read.              *)
Rank(k) == Cardinality({j \in 1..k : Readable(sent[j])})

Same(f, g) ==
  /\ f.session = g.session /\ f.message.type = g.message.type
  /\ f.message.type = "Data" => f.message.size = g.message.size

(* However SSH cuts the frames and whatever their length, up to the limit  *)
(* of the 24-bit field, the receiver has taken out every frame that has    *)
(* arrived, in order and unchanged; a frame it cannot read costs that      *)
(* frame only, although the whole buffer is cleared (codec.rs, data()).    *)
DecodedIsSent ==
  ~decoding =>
    /\ Len(received) = Rank(Delivered)
    /\ \A k \in 1..Delivered : Readable(sent[k]) => Same(received[Rank(k)], sent[k])

(* message.rs: "If absent, orchestrator assumes protocol version 1.0": a   *)
(* Register without version is read like any other.                        *)
VersionIsOptional ==
  ~decoding => Len(received) = Delivered
===============================================================================
