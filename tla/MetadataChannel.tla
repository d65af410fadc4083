---------------------------- MODULE MetadataChannel ----------------------------
(* A metadata block on its way between two runtimes: the sender's encoder    *)
(* refuses it or writes it, the carrier delivers the bytes as written or as  *)
(* another implementation might have written them, and the receiver's        *)
(* decoder accepts or refuses.                                               *)
(*                                                                           *)
(* A message is [type, metadata, tail]: the tail is the sequence of the one  *)
(* or two segments the caller passes, each a sequence of bytes.              *)
EXTENDS MetadataLayouts, MetadataBlocks, SequencesExt

CONSTANTS
  Messages,   \* what a caller may ask to encode
  Foreign,    \* those of them whose bytes another implementation varies
  Strange     \* the bytes it puts in the place of one byte

VARIABLES sent, wire, heard, altered
vars == <<sent, wire, heard, altered>>

Unwritten == <<>>
NotEncoded == <<-1>>
Nothing == [type |-> "nothing"]
Refused == [type |-> "refused"]

FixedTypes ==
  {"TYPED_PAYLOAD", "CLIENT_HELLO", "SESSION_PATCH_ACK", "SESSION_OPEN", "CACHE_PUT", "CACHE_ACK", "CACHE_INVALIDATE",
   "OBJECT_REFERENCE_BLOCK", "TRANSPORT_PROBE", "TRANSPORT_PROBE_ACK", "FRAME_SUBMIT", "RESULT_PUSH", "RESULT_HINT",
   "FLOW_UPDATE", "SESSION_CLOSE"}

Block(size, writes, reads, reserved) == [length |-> size, writes |-> writes, reads |-> reads, reserved |-> reserved]

BlockOf(type) ==
  CASE type = "TYPED_PAYLOAD" -> Block(24, TypedPayloadW, TypedPayloadR, TypedPayloadZ)
    [] type = "CLIENT_HELLO" -> Block(64, ClientHelloW, ClientHelloR, {})
    [] type = "SESSION_PATCH_ACK" -> Block(48, SessionPatchAckW, SessionPatchAckR, SessionPatchAckZ)
    [] type = "SESSION_OPEN" -> Block(48, SessionOpenW, SessionOpenR, SessionOpenZ)
    [] type = "CACHE_PUT" -> Block(40, CachePutW, CachePutR, {})
    [] type = "CACHE_ACK" -> Block(40, CacheAckW, CacheAckR, CacheAckZ)
    [] type = "CACHE_INVALIDATE" -> Block(32, CacheInvalidateW, CacheInvalidateR, CacheInvalidateZ)
    [] type = "OBJECT_REFERENCE_BLOCK" -> Block(24, ObjectReferenceBlockW, ObjectReferenceBlockR, {})
    [] type = "TRANSPORT_PROBE" -> Block(16, TransportProbeW, TransportProbeR, {})
    [] type = "TRANSPORT_PROBE_ACK" -> Block(16, TransportProbeAckW, TransportProbeAckR, TransportProbeAckZ)
    [] type = "FRAME_SUBMIT" -> Block(72, FrameSubmitW, FrameSubmitR, FrameSubmitZ)
    [] type = "RESULT_PUSH" -> Block(64, ResultPushW, ResultPushR, ResultPushZ)
    [] type = "RESULT_HINT" -> Block(16, ResultHintW, ResultHintR, {})
    [] type = "FLOW_UPDATE" -> Block(32, FlowUpdateW, FlowUpdateR, FlowUpdateZ)
    [] type = "SESSION_CLOSE" -> Block(24, SessionCloseR, SessionCloseR, SessionCloseZ)

ValidBlock(type, m) ==
  CASE type = "TYPED_PAYLOAD" -> ValidTypedPayload(m)
    [] type = "CLIENT_HELLO" -> ValidClientHello(m)
    [] type = "SESSION_PATCH_ACK" -> ValidSessionPatchAck(m)
    [] type = "SESSION_OPEN" -> ValidSessionOpen(m)
    [] type = "CACHE_PUT" -> ValidCachePut(m)
    [] type = "CACHE_ACK" -> ValidCacheAck(m)
    [] type = "CACHE_INVALIDATE" -> ValidCacheInvalidate(m)
    [] type = "OBJECT_REFERENCE_BLOCK" -> ValidObjectReferenceBlock(m)
    [] type = "TRANSPORT_PROBE" -> ValidTransportProbe(m)
    [] type = "TRANSPORT_PROBE_ACK" -> ValidTransportProbeAck(m)
    [] type = "FRAME_SUBMIT" -> ValidFrameSubmit(m)
    [] type = "RESULT_PUSH" -> ValidResultPush(m)
    [] type = "RESULT_HINT" -> ValidResultHint(m)
    [] type = "FLOW_UPDATE" -> ValidFlowUpdate(m)
    [] type = "SESSION_CLOSE" -> ValidSessionClose(m)

------------------------------------------------------------------------------
(* The encoders.  An object patch or delta is given as [metadataBody, delta] *)
(* and each part has the length declared for it.                             *)
TwoSegments == {"ObjectPatch", "ObjectDelta"}
Joined(tail) == IF Len(tail) = 1 THEN tail[1] ELSE tail[1] \o tail[2]

SegmentsMatch(type, m, tail) ==
  type \in TwoSegments =>
    /\ Len(tail) = 2
    /\ m.metadataBytes = N(Len(tail[1])) /\ m.deltaBytes = N(Len(tail[2]))

EncodeLayout(msg) ==
  LET layout == LayoutOf(msg.type)
      tail == Joined(msg.tail)
  IN  IF /\ ValidFields(layout, msg.metadata)
         /\ SegmentsMatch(msg.type, msg.metadata, msg.tail)
         /\ ValidTail(layout, msg.metadata, Len(tail))
      THEN Written(layout.length, layout.fields, msg.metadata) \o tail
      ELSE NotEncoded

EncodeBlock(msg) ==
  LET block == BlockOf(msg.type)
  IN  IF ValidBlock(msg.type, msg.metadata)
      THEN Written(block.length, block.writes, msg.metadata) \o Joined(msg.tail)
      ELSE NotEncoded

Encode(msg) ==
  CASE msg.type = "TICKET" -> TicketBytes(msg.metadata, Len(Joined(msg.tail))) \o Joined(msg.tail)
    [] msg.type \in FixedTypes -> EncodeBlock(msg)
    [] OTHER -> EncodeLayout(msg)

(* The decoders.                                                             *)
After(b, length) == SubSeq(b, length + 1, Len(b))

(* runtimeControlEventTail and decodeRuntimeObjectEvent: a delta's tail is   *)
(* cut in two, the others are one body or diagnostic; a layout without a     *)
(* tail field leaves none.                                                   *)
EventTail(type, m, tail) ==
  IF type \in TwoSegments
  THEN LET end == Low(m.metadataBytes) IN <<SubSeq(tail, 1, end), SubSeq(tail, end + 1, Len(tail))>>
  ELSE <<tail>>

DecodeLayout(type, b) ==
  LET layout == LayoutOf(type)
      m == ReadFields(b, layout.fields)
      tail == After(b, layout.length)
  IN  IF /\ Len(b) >= layout.length
         /\ IsZero(b, layout.reserved)
         /\ ValidFields(layout, m)
         /\ ValidTail(layout, m, Len(tail))
      THEN [type |-> type, metadata |-> m, tail |-> EventTail(type, m, tail)]
      ELSE Refused

(* Every block has its exact length but RESULT_PUSH, which a body follows.   *)
DecodeBlock(type, b) ==
  LET block == BlockOf(type)
      m == ReadFields(b, block.reads)
  IN  IF /\ Len(b) >= block.length
         /\ type # "RESULT_PUSH" => Len(b) = block.length
         /\ IsZero(b, block.reserved)
         /\ ValidBlock(type, m)
      THEN [type |-> type, metadata |-> m, tail |-> <<After(b, block.length)>>]
      ELSE Refused

DecodeTicket(b) ==
  LET m == ReadFields(b, TicketFields)
  IN  IF Len(b) >= 28 /\ ValidTicket(m, Len(b) - 28)
      THEN [type |-> "TICKET", metadata |-> TicketOf(m), tail |-> <<After(b, 28)>>]
      ELSE Refused

Decode(type, b) ==
  CASE type = "TICKET" -> DecodeTicket(b)
    [] type \in FixedTypes -> DecodeBlock(type, b)
    [] OTHER -> DecodeLayout(type, b)

------------------------------------------------------------------------------
(* What may be sent: every field a number, one segment behind the metadata   *)
(* or the two of a delta, and nothing behind a fixed block but the body of a *)
(* result.  SESSION_CLOSE and tickets are what the Rust runtime writes and   *)
(* fromBytes makes.                                                          *)
Numbers == [Places -> Bytes]

Types == {"TICKET"} \cup FixedTypes \cup ControlTypes \cup ObjectTypes

FieldsOf(type) == IF type \in FixedTypes THEN BlockOf(type).writes ELSE LayoutOf(type).fields

IsTicket(t, tail) ==
  /\ t \in [sessionId : Numbers, resumeWindowMillis : Numbers, resumeFromOperationId : Numbers \cup {NoOperationId}]
  /\ t.sessionId # Zero /\ AllFit(t, {"sessionId", "resumeWindowMillis"}, 4)
  /\ t.resumeFromOperationId # NoOperationId => t.resumeFromOperationId # Zero /\ Fits(t.resumeFromOperationId, 8)
  /\ 0 < Len(tail) /\ Len(tail) <= 65535

WellFormed(msg) ==
  /\ msg.type \in Types
  /\ msg.tail \in Seq(Seq(Bytes)) /\ Len(msg.tail) = IF msg.type \in TwoSegments THEN 2 ELSE 1
  /\ IF msg.type = "TICKET" THEN IsTicket(msg.metadata, Joined(msg.tail))
     ELSE msg.metadata \in [DOMAIN FieldsOf(msg.type) -> Numbers]
  /\ msg.type \in FixedTypes \ {"RESULT_PUSH"} => msg.tail = <<<<>>>>
  /\ msg.type = "SESSION_CLOSE" => \A f \in DOMAIN SessionCloseR : Fits(msg.metadata[f], Width[SessionCloseR[f].kind])

Init ==
  /\ sent \in Messages
  /\ wire = Unwritten
  /\ heard = Nothing
  /\ altered = FALSE

Send ==
  /\ wire = Unwritten
  /\ wire' = Encode(sent)
  /\ UNCHANGED <<sent, heard, altered>>

(* The peer is the Rust runtime or another version of it: one byte differs   *)
(* from what this encoder writes, or the block is a byte shorter or longer.  *)
Vary ==
  /\ sent \in Foreign /\ ~altered
  /\ wire \notin {Unwritten, NotEncoded} /\ heard = Nothing
  /\ \/ \E i \in 1..Len(wire), s \in Strange : wire' = [wire EXCEPT ![i] = s]
     \/ wire' = Front(wire)
     \/ wire' = Append(wire, 1)
  /\ altered' = TRUE
  /\ UNCHANGED <<sent, heard>>

Receive ==
  /\ wire \notin {Unwritten, NotEncoded} /\ heard = Nothing
  /\ heard' = Decode(sent.type, wire)
  /\ UNCHANGED <<sent, wire, altered>>

Next == Send \/ Vary \/ Receive

Spec == Init /\ [][Next]_vars

------------------------------------------------------------------------------
(* The fields whose validator is a 32-bit mask alone: whatever a caller puts *)
(* above bit 31 is dropped without an error.                                 *)
MaskedOnly(type) ==
  CASE type = "TYPED_PAYLOAD" -> {"payloadKind", "descriptorFlags"}
    [] type = "FRAME_SUBMIT" -> {"payloadKindBitmap"}
    [] type = "RESULT_PUSH" -> {"appliedBudgetPolicy"}
    [] OTHER -> {}

SafeFields(msg) == \A f \in MaskedOnly(msg.type) : Fits(msg.metadata[f], 4)

(* What an encoder of packages/core accepts, its own decoder accepts and     *)
(* reads back field by field and segment by segment: nothing is truncated    *)
(* on the way, no two fields share a byte and no validator is stricter on    *)
(* one side.  The exception is named: values above bit 31 of the fields      *)
(* whose validator only masks.                                               *)
SurvivesTheWire ==
  heard # Nothing /\ ~altered /\ SafeFields(sent) =>
    heard # Refused /\ heard.metadata = sent.metadata /\ heard.tail = sent.tail

(* What a decoder accepts from any peer means exactly what it says: encoding *)
(* the decoded message again gives the very bytes that arrived, so no byte   *)
(* is ignored and two different blocks never decode to the same message.     *)
NoByteIgnored ==
  heard \notin {Nothing, Refused} => Encode(heard) = wire
=============================================================================
