--------------------------- MODULE MCMetadataChannel ---------------------------
(* Values for MetadataChannel: for every type of block one or two valid      *)
(* messages, each of their fields replaced by every boundary value in turn,  *)
(* and pairs of the fields whose validity depends on each other.             *)
EXTENDS MetadataLayouts, MetadataBlocks

Boundaries ==
  {N(n) : n \in {-32769, -32768, -1, 0, 1, 2, 3, 4, 7, 8, 15, 16, 64, 127, 128, 255, 256, 10000, 10001, 32767, 32768,
                 65535, 65536}} \cup {U32Max, U32Over, U32OverOne, U64Max, U64Over}

Zeros(fields) == [f \in DOMAIN fields |-> Zero]
Msg(type, m, tail) == [type |-> type, metadata |-> m, tail |-> tail]

LayoutBase(type) ==
  LET layout == LayoutOf(type)
      Lengths(n, d) == [f \in DOMAIN layout.fields |->
                          CASE f = "deltaBytes" -> N(d) [] f \in layout.tailFields -> N(n) [] OTHER -> Zero]
  IN  CASE layout.tailFields = {} -> {Msg(type, Lengths(0, 0), <<<<>>>>)}
        [] "deltaBytes" \in layout.tailFields ->
             {Msg(type, Lengths(1, 2), <<<<11>>, <<21, 22>>>>), Msg(type, Lengths(2, 0), <<<<11, 12>>, <<>>>>),
              Msg(type, Lengths(1, 2), <<<<11, 12>>, <<21>>>>)}
        [] OTHER -> {Msg(type, Lengths(0, 0), <<<<>>>>), Msg(type, Lengths(2, 0), <<<<31, 32>>>>)}

One(type, fields, ones) == Msg(type, [f \in DOMAIN fields |-> IF f \in ones THEN N(1) ELSE Zero], <<<<>>>>)

FixedBase ==
  {One("TYPED_PAYLOAD", TypedPayloadW, {"payloadKind"}),
   One("CLIENT_HELLO", ClientHelloW, {"minVersionMajor", "maxVersionMajor", "supportedWireFormatBitmap",
                                      "supportedProfileBitmap", "supportedPayloadKindBitmap"}),
   One("SESSION_PATCH_ACK", SessionPatchAckW, {}), One("SESSION_OPEN", SessionOpenW, {}),
   One("CACHE_PUT", CachePutW, {"objectKind"}), One("CACHE_ACK", CacheAckW, {}),
   One("CACHE_INVALIDATE", CacheInvalidateW, {}), One("OBJECT_REFERENCE_BLOCK", ObjectReferenceBlockW, {"objectKind"}),
   One("TRANSPORT_PROBE", TransportProbeW, {}), One("TRANSPORT_PROBE_ACK", TransportProbeAckW, {}),
   One("FRAME_SUBMIT", FrameSubmitW, {"operationId", "payloadKindBitmap"}),
   One("RESULT_PUSH", ResultPushW, {"payloadKindBitmap"}), One("RESULT_PUSH", ResultPushW, {}),
   [One("RESULT_PUSH", ResultPushW, {"payloadKindBitmap", "coveredTileCount", "droppedTileCount"})
      EXCEPT !.metadata.tileCount = N(2), !.tail = <<<<41, 42>>>>],
   One("RESULT_HINT", ResultHintW, {}), One("FLOW_UPDATE", FlowUpdateW, {})}

(* SESSION_CLOSE and tickets come from the Rust runtime: only what it varies.*)
Closes == {One("SESSION_CLOSE", SessionCloseR, {})}
Tickets ==
  {Msg("TICKET", [sessionId |-> N(1), resumeWindowMillis |-> Zero, resumeFromOperationId |-> op], <<<<51>>>>) :
    op \in {NoOperationId, N(1), U64Max}}

Bases == FixedBase \cup UNION {LayoutBase(t) : t \in ControlTypes \cup ObjectTypes}

Related(type) ==
  CASE type = "CLIENT_HELLO" -> {"minVersionMajor", "maxVersionMajor", "supportedWireFormatBitmap"}
    [] type = "CACHE_INVALIDATE" -> DOMAIN CacheInvalidateW
    [] type = "FRAME_SUBMIT" -> {"payloadKindBitmap", "srcWidth", "tileBaseId", "inputProfile"}
    [] type = "RESULT_PUSH" -> {"resultClass", "resultFlags", "reusedFrameId", "coveredTileCount", "droppedTileCount",
                                "tileCount", "payloadKindBitmap"}
    [] type = "FLOW_UPDATE" -> {"retryAfterMs", "flowFlags"}
    [] OTHER -> {}

Some == {N(0), N(1), N(2), N(3), N(4), N(255), U32Max, U32Over}

MCMessages ==
  Bases \cup Closes \cup Tickets
    \cup UNION {{[b EXCEPT !.metadata[f] = v] : f \in DOMAIN b.metadata, v \in Boundaries} : b \in Bases}
    \cup UNION {{[b EXCEPT !.metadata[f] = v, !.metadata[g] = w] : f, g \in Related(b.type), v, w \in Some} : b \in Bases}

MCForeign == Bases \cup Closes \cup Tickets
=============================================================================
