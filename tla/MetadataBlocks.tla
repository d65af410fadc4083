---------------------------- MODULE MetadataBlocks ----------------------------
(* The metadata blocks packages/core encodes and decodes by hand.  For each  *)
(* one: what the encoder writes (W), what the decoder reads (R), the         *)
(* reserved fields the decoder wants to be zero (Z) and the validator both   *)
(* run.  The two tables are separate because the code has two.               *)
EXTENDS WireIntegers

(* 2^k for some k < 7, and what Masked lets through: see the comment there.  *)
OnePayloadKind(v) == v # Zero /\ Masked(v, 127) /\ v[1] \in {0, 1, 2, 4, 8, 16, 32, 64}

CacheObjectKind(v) == AtMost(v, 9) /\ v # Zero

AllFit(m, fields, width) == \A f \in fields : Fits(m[f], width)

------------------------------------------------------------------------------
(* Typed payload descriptor.                                                 *)
TypedPayloadW ==
  [profileId |-> u16(0), payloadKind |-> u8(2), descriptorFlags |-> u8(3), schemaId |-> u32(4),
   schemaVersion |-> u32(8), streamSemantics |-> u16(12), offset |-> u32(16), length |-> u32(20)]
TypedPayloadR ==
  [profileId |-> u16(0), payloadKind |-> u8(2), descriptorFlags |-> u8(3), schemaId |-> u32(4),
   schemaVersion |-> u32(8), streamSemantics |-> u16(12), offset |-> u32(16), length |-> u32(20)]
TypedPayloadZ == {u16(14)}
ValidTypedPayload(m) ==
  /\ OnePayloadKind(m.payloadKind)
  /\ Masked(m.descriptorFlags, 15)
  /\ AllFit(m, {"profileId", "streamSemantics"}, 2)
  /\ AllFit(m, {"schemaId", "schemaVersion", "offset", "length"}, 4)

(* CLIENT_HELLO.                                                             *)
ClientHelloW ==
  [minVersionMajor |-> u8(0), maxVersionMajor |-> u8(1), supportedWireFormatBitmap |-> u16(2),
   supportedProfileBitmap |-> u32(4), supportedPayloadKindBitmap |-> u32(8), supportedCodecBitmap |-> u32(12),
   supportedCompressionBitmap |-> u32(16), supportedDtypeBitmap |-> u32(20), supportedLayoutBitmap |-> u32(24),
   cacheDigestBitmap |-> u16(28), cacheObjectBitmap |-> u16(30), cacheNamespaceCount |-> u16(32),
   maxLaneCount |-> u16(34), maxCacheEntries |-> u32(36), maxCacheBytes |-> u32(40), targetCadenceX100 |-> u16(44),
   latencyBudgetMs |-> u16(46), qualityTier |-> u16(48), degradePolicy |-> u16(50), requestedSessionId |-> u32(52),
   authBytes |-> u32(56), controlExtensionBytes |-> u32(60)]
ClientHelloR ==
  [minVersionMajor |-> u8(0), maxVersionMajor |-> u8(1), supportedWireFormatBitmap |-> u16(2),
   supportedProfileBitmap |-> u32(4), supportedPayloadKindBitmap |-> u32(8), supportedCodecBitmap |-> u32(12),
   supportedCompressionBitmap |-> u32(16), supportedDtypeBitmap |-> u32(20), supportedLayoutBitmap |-> u32(24),
   cacheDigestBitmap |-> u16(28), cacheObjectBitmap |-> u16(30), cacheNamespaceCount |-> u16(32),
   maxLaneCount |-> u16(34), maxCacheEntries |-> u32(36), maxCacheBytes |-> u32(40), targetCadenceX100 |-> u16(44),
   latencyBudgetMs |-> u16(46), qualityTier |-> u16(48), degradePolicy |-> u16(50), requestedSessionId |-> u32(52),
   authBytes |-> u32(56), controlExtensionBytes |-> u32(60)]
ValidClientHello(m) ==
  /\ AllFit(m, {"minVersionMajor", "maxVersionMajor"}, 1)
  /\ AllFit(m, {"supportedWireFormatBitmap", "cacheDigestBitmap", "cacheObjectBitmap", "cacheNamespaceCount",
                "maxLaneCount", "targetCadenceX100", "latencyBudgetMs", "qualityTier", "degradePolicy"}, 2)
  /\ AllFit(m, {"supportedProfileBitmap", "supportedPayloadKindBitmap", "supportedCodecBitmap",
                "supportedCompressionBitmap", "supportedDtypeBitmap", "supportedLayoutBitmap", "maxCacheEntries",
                "maxCacheBytes", "requestedSessionId", "authBytes", "controlExtensionBytes"}, 4)
  /\ Low(m.minVersionMajor) <= 1 /\ Low(m.maxVersionMajor) >= 1
  /\ HasBit(m.supportedWireFormatBitmap, 1)
  /\ m.supportedProfileBitmap # Zero /\ m.supportedPayloadKindBitmap # Zero

(* SESSION_PATCH_ACK.                                                        *)
SessionPatchAckW ==
  [ackStatus |-> u16(0), rejectReason |-> u16(2), appliedPatchMask |-> u32(4), rejectedPatchMask |-> u32(8),
   retryAfterMs |-> u32(12), effectiveProfileId |-> u16(16), effectiveTargetCadenceX100 |-> u32(20),
   effectiveQualityTier |-> u16(24), effectiveDegradePolicy |-> u16(26), effectiveLaneMask |-> u64(28),
   effectiveCodecBitmap |-> u32(36), effectiveCompressionBitmap |-> u32(40), profilePatchAckBytes |-> u32(44)]
SessionPatchAckR ==
  [ackStatus |-> u16(0), rejectReason |-> u16(2), appliedPatchMask |-> u32(4), rejectedPatchMask |-> u32(8),
   retryAfterMs |-> u32(12), effectiveProfileId |-> u16(16), effectiveTargetCadenceX100 |-> u32(20),
   effectiveQualityTier |-> u16(24), effectiveDegradePolicy |-> u16(26), effectiveLaneMask |-> u64(28),
   effectiveCodecBitmap |-> u32(36), effectiveCompressionBitmap |-> u32(40), profilePatchAckBytes |-> u32(44)]
SessionPatchAckZ == {u16(18)}
ValidSessionPatchAck(m) ==
  /\ AtMost(m.ackStatus, 2) /\ AtMost(m.rejectReason, 5)
  /\ AtMost(m.appliedPatchMask, 127) /\ AtMost(m.rejectedPatchMask, 127)
  /\ AllFit(m, {"effectiveProfileId", "effectiveQualityTier", "effectiveDegradePolicy"}, 2)
  /\ AllFit(m, {"retryAfterMs", "effectiveTargetCadenceX100", "effectiveCodecBitmap", "effectiveCompressionBitmap",
                "profilePatchAckBytes"}, 4)
  /\ Fits(m.effectiveLaneMask, 8)

(* SESSION_OPEN.                                                             *)
SessionOpenW ==
  [requestedSessionId |-> u32(0), profileId |-> u16(4), priorityClass |-> u8(6), sessionFlags |-> u8(7),
   schemaId |-> u32(8), schemaVersion |-> u32(12), defaultDeadlineMillis |-> u32(16),
   maxInFlightOperations |-> u16(20), leaseTtlHintMillis |-> u32(24), resumeTokenBytes |-> u32(28),
   authBytes |-> u32(32), sessionExtensionBytes |-> u32(36), clientSessionTag |-> u64(40)]
(* Mutant: the decoder has two fields in each other's place.                 *)
SessionOpenRSwapped == [SessionOpenW EXCEPT !.schemaId = u32(12), !.schemaVersion = u32(8)]

SessionOpenR ==
  [requestedSessionId |-> u32(0), profileId |-> u16(4), priorityClass |-> u8(6), sessionFlags |-> u8(7),
   schemaId |-> u32(8), schemaVersion |-> u32(12), defaultDeadlineMillis |-> u32(16),
   maxInFlightOperations |-> u16(20), leaseTtlHintMillis |-> u32(24), resumeTokenBytes |-> u32(28),
   authBytes |-> u32(32), sessionExtensionBytes |-> u32(36), clientSessionTag |-> u64(40)]
SessionOpenZ == {u16(22)}
ValidSessionOpen(m) ==
  /\ AllFit(m, {"profileId", "maxInFlightOperations"}, 2)
  /\ AtMost(m.priorityClass, 2) /\ AtMost(m.sessionFlags, 15)
  /\ AllFit(m, {"requestedSessionId", "schemaId", "schemaVersion", "defaultDeadlineMillis", "leaseTtlHintMillis",
                "resumeTokenBytes", "authBytes", "sessionExtensionBytes"}, 4)
  /\ Fits(m.clientSessionTag, 8)

------------------------------------------------------------------------------
(* CACHE_PUT, CACHE_ACK and CACHE_INVALIDATE.                                *)
CachePutW ==
  [cacheNamespace |-> u32(0), objectKind |-> u32(4), cacheKeyHi |-> u64(8), cacheKeyLo |-> u64(16), ttlMs |-> u32(24),
   objectBytes |-> u32(28), codecBitmap |-> u32(32), flags |-> u32(36)]
CachePutR ==
  [cacheNamespace |-> u32(0), objectKind |-> u32(4), cacheKeyHi |-> u64(8), cacheKeyLo |-> u64(16), ttlMs |-> u32(24),
   objectBytes |-> u32(28), codecBitmap |-> u32(32), flags |-> u32(36)]
ValidCachePut(m) ==
  /\ AllFit(m, {"cacheNamespace", "ttlMs", "objectBytes", "codecBitmap"}, 4)
  /\ AllFit(m, {"cacheKeyHi", "cacheKeyLo"}, 8)
  /\ CacheObjectKind(m.objectKind) /\ AtMost(m.flags, 3)

CacheAckW ==
  [cacheNamespace |-> u32(0), status |-> u32(4), cacheKeyHi |-> u64(8), cacheKeyLo |-> u64(16),
   acceptedTtlMs |-> u32(24), maxObjectBytes |-> u32(28), detailCode |-> u32(32)]
CacheAckR ==
  [cacheNamespace |-> u32(0), status |-> u32(4), cacheKeyHi |-> u64(8), cacheKeyLo |-> u64(16),
   acceptedTtlMs |-> u32(24), maxObjectBytes |-> u32(28), detailCode |-> u32(32)]
CacheAckZ == {u32(36)}
ValidCacheAck(m) ==
  /\ AllFit(m, {"cacheNamespace", "acceptedTtlMs", "maxObjectBytes", "detailCode"}, 4)
  /\ AllFit(m, {"cacheKeyHi", "cacheKeyLo"}, 8)
  /\ AtMost(m.status, 2)

CacheInvalidateW ==
  [invalidateScope |-> u32(0), cacheNamespace |-> u32(4), cacheKeyHi |-> u64(8), cacheKeyLo |-> u64(16),
   reasonCode |-> u32(24)]
CacheInvalidateR ==
  [invalidateScope |-> u32(0), cacheNamespace |-> u32(4), cacheKeyHi |-> u64(8), cacheKeyLo |-> u64(16),
   reasonCode |-> u32(24)]
CacheInvalidateZ == {u32(28)}
(* The key names as much as the scope (0 to 3) asks for.                     *)
ValidCacheInvalidate(m) ==
  /\ AllFit(m, {"cacheNamespace", "reasonCode"}, 4) /\ AllFit(m, {"cacheKeyHi", "cacheKeyLo"}, 8)
  /\ AtMost(m.invalidateScope, 3)
  /\ m.invalidateScope = N(0) => m.cacheNamespace = Zero
  /\ m.invalidateScope \in {N(0), N(1)} => m.cacheKeyHi = Zero
  /\ m.invalidateScope = N(2) => Fits(m.cacheKeyHi, 4)
  /\ m.invalidateScope # N(3) => m.cacheKeyLo = Zero

(* Object reference block of a submit body.                                  *)
ObjectReferenceBlockW ==
  [objectKind |-> u16(0), refFlags |-> u16(2), cacheNamespace |-> u32(4), cacheKeyHi |-> u64(8), cacheKeyLo |-> u64(16)]
ObjectReferenceBlockR ==
  [objectKind |-> u16(0), refFlags |-> u16(2), cacheNamespace |-> u32(4), cacheKeyHi |-> u64(8), cacheKeyLo |-> u64(16)]
ValidObjectReferenceBlock(m) ==
  /\ CacheObjectKind(m.objectKind) /\ m.refFlags = Zero
  /\ Fits(m.cacheNamespace, 4) /\ AllFit(m, {"cacheKeyHi", "cacheKeyLo"}, 8)

(* TRANSPORT_PROBE and its acknowledgement.                                  *)
TransportProbeW == [probeId |-> u32(0), probePayloadBytes |-> u32(4), clientSendTsUs |-> u64(8)]
TransportProbeR == [probeId |-> u32(0), probePayloadBytes |-> u32(4), clientSendTsUs |-> u64(8)]
ValidTransportProbe(m) == AllFit(m, {"probeId", "probePayloadBytes"}, 4) /\ Fits(m.clientSendTsUs, 8)

TransportProbeAckW == [probeId |-> u32(0), serverRecvTsUs |-> u64(8)]
TransportProbeAckR == [probeId |-> u32(0), serverRecvTsUs |-> u64(8)]
TransportProbeAckZ == {u32(4)}
ValidTransportProbeAck(m) == Fits(m.probeId, 4) /\ Fits(m.serverRecvTsUs, 8)

------------------------------------------------------------------------------
(* FRAME_SUBMIT.                                                             *)
FrameSubmitW ==
  [srcWidth |-> u16(0), srcHeight |-> u16(2), tileWidth |-> u16(4), tileHeight |-> u16(6), tileCount |-> u16(8),
   sectionCount |-> u16(10), frameClass |-> u8(12), inputProfile |-> u8(13), tileIndexMode |-> u8(14),
   latencyBudgetMs |-> u16(16), targetFpsX100 |-> u16(18), retryOfFrame |-> u32(20), tileBaseId |-> u32(24),
   cameraBytes |-> u32(28), tileIndexBytes |-> u32(32), operationId |-> u64(40), submitMode |-> u8(52),
   budgetPolicy |-> u8(53), lossTolerancePolicy |-> u8(54), objectRefMask |-> u32(56), dependencyFrameId |-> u32(60),
   payloadKindBitmap |-> u32(64), payloadFrameCount |-> u16(68)]
FrameSubmitR ==
  [srcWidth |-> u16(0), srcHeight |-> u16(2), tileWidth |-> u16(4), tileHeight |-> u16(6), tileCount |-> u16(8),
   sectionCount |-> u16(10), frameClass |-> u8(12), inputProfile |-> u8(13), tileIndexMode |-> u8(14),
   latencyBudgetMs |-> u16(16), targetFpsX100 |-> u16(18), retryOfFrame |-> u32(20), tileBaseId |-> u32(24),
   cameraBytes |-> u32(28), tileIndexBytes |-> u32(32), operationId |-> u64(40), submitMode |-> u8(52),
   budgetPolicy |-> u8(53), lossTolerancePolicy |-> u8(54), objectRefMask |-> u32(56), dependencyFrameId |-> u32(60),
   payloadKindBitmap |-> u32(64), payloadFrameCount |-> u16(68)]
FrameSubmitZ == {u8(15), u32(36), u32(48), u8(55), u16(70)}
ValidFrameSubmit(m) ==
  /\ Fits(m.operationId, 8) /\ m.operationId # Zero
  /\ AllFit(m, {"srcWidth", "srcHeight", "tileWidth", "tileHeight", "tileCount", "sectionCount", "latencyBudgetMs",
                "targetFpsX100", "payloadFrameCount"}, 2)
  /\ AllFit(m, {"retryOfFrame", "tileBaseId", "cameraBytes", "tileIndexBytes", "dependencyFrameId"}, 4)
  /\ Fits(m.frameClass, 1) /\ AtMost(m.inputProfile, 2) /\ AtMost(m.tileIndexMode, 3) /\ AtMost(m.submitMode, 2)
  /\ AtMost(m.budgetPolicy, 15) /\ AtMost(m.objectRefMask, 15)
  /\ m.lossTolerancePolicy \in {N(0), N(1), N(2), N(3), N(255)}
  /\ m.payloadKindBitmap # Zero /\ Masked(m.payloadKindBitmap, 127)
  /\ \/ HasBit(m.payloadKindBitmap, 1)
     \/ \A f \in {"srcWidth", "srcHeight", "tileWidth", "tileHeight", "tileCount", "sectionCount", "tileBaseId",
                  "cameraBytes", "tileIndexBytes", "inputProfile"} : m[f] = Zero

(* RESULT_PUSH.                                                              *)
ResultPushW ==
  [statusCode |-> u16(0), resultFlags |-> u16(2), sectionCount |-> u16(4), tileCount |-> u16(6),
   activeProfileId |-> u16(8), inferenceMs |-> u16(12), queueMs |-> u16(14), serverTotalMs |-> u16(16),
   tileBaseId |-> u32(20), tileIndexBytes |-> u32(24), resultClass |-> u8(44), appliedBudgetPolicy |-> u8(45),
   reusedFrameId |-> u32(48), coveredTileCount |-> u16(52), droppedTileCount |-> u16(54),
   payloadKindBitmap |-> u32(56), payloadFrameCount |-> u16(60)]
ResultPushR ==
  [statusCode |-> u16(0), resultFlags |-> u16(2), sectionCount |-> u16(4), tileCount |-> u16(6),
   activeProfileId |-> u16(8), inferenceMs |-> u16(12), queueMs |-> u16(14), serverTotalMs |-> u16(16),
   tileBaseId |-> u32(20), tileIndexBytes |-> u32(24), resultClass |-> u8(44), appliedBudgetPolicy |-> u8(45),
   reusedFrameId |-> u32(48), coveredTileCount |-> u16(52), droppedTileCount |-> u16(54),
   payloadKindBitmap |-> u32(56), payloadFrameCount |-> u16(60)]
ResultPushZ == {u16(10), u16(18), u64(28), u64(36), u16(46), u16(62)}
ValidResultPush(m) ==
  LET tensor == HasBit(m.payloadKindBitmap, 1)
      stale == m.resultClass = N(2) \/ HasBit(m.resultFlags, 1)
      partial == m.resultClass = N(1) \/ HasBit(m.resultFlags, 4)
  IN  /\ AllFit(m, {"payloadKindBitmap", "tileBaseId", "tileIndexBytes", "reusedFrameId"}, 4)
      /\ AllFit(m, {"statusCode", "resultFlags", "sectionCount", "tileCount", "activeProfileId", "inferenceMs",
                    "queueMs", "serverTotalMs", "coveredTileCount", "droppedTileCount", "payloadFrameCount"}, 2)
      /\ AtMost(m.resultClass, 3)
      /\ Masked(m.resultFlags, 7) /\ Masked(m.appliedBudgetPolicy, 15) /\ Masked(m.payloadKindBitmap, 127)
      /\ stale <=> m.reusedFrameId # Zero
      /\ tensor => /\ partial => m.droppedTileCount # Zero
                   /\ Low(m.coveredTileCount) + Low(m.droppedTileCount) = Low(m.tileCount)
      /\ ~tensor => \A f \in {"sectionCount", "tileCount", "tileBaseId", "tileIndexBytes", "coveredTileCount",
                              "droppedTileCount"} : m[f] = Zero

(* RESULT_HINT.                                                              *)
ResultHintW == [appliedBudgetPolicy |-> u32(0), congestionState |-> u32(4), reason |-> u32(8), retryAfterMs |-> u32(12)]
ResultHintR == [appliedBudgetPolicy |-> u32(0), congestionState |-> u32(4), reason |-> u32(8), retryAfterMs |-> u32(12)]
ValidResultHint(m) ==
  AtMost(m.appliedBudgetPolicy, 4) /\ AtMost(m.congestionState, 3) /\ AtMost(m.reason, 4) /\ Fits(m.retryAfterMs, 4)

(* FLOW_UPDATE: retryAfterMs counts only with its flag.                      *)
FlowUpdateW ==
  [scopeKind |-> u8(0), updateReason |-> u8(1), backpressureLevel |-> u8(2), connectionCredit |-> u16(4),
   sessionCredit |-> u16(6), operationCredit |-> u16(8), operationId |-> u64(12), retryAfterMs |-> u32(20),
   creditEpoch |-> u32(24), flowFlags |-> u32(28)]
FlowUpdateR ==
  [scopeKind |-> u8(0), updateReason |-> u8(1), backpressureLevel |-> u8(2), connectionCredit |-> u16(4),
   sessionCredit |-> u16(6), operationCredit |-> u16(8), operationId |-> u64(12), retryAfterMs |-> u32(20),
   creditEpoch |-> u32(24), flowFlags |-> u32(28)]
(* Mutant: one of the reserved fields is not looked at.                      *)
FlowUpdateZPartial == {u8(3)}

FlowUpdateZ == {u8(3), u16(10)}
ValidFlowUpdate(m) ==
  /\ AtMost(m.scopeKind, 2) /\ AtMost(m.updateReason, 4) /\ AtMost(m.backpressureLevel, 3) /\ AtMost(m.flowFlags, 15)
  /\ AllFit(m, {"connectionCredit", "sessionCredit", "operationCredit"}, 2)
  /\ AllFit(m, {"retryAfterMs", "creditEpoch"}, 4) /\ Fits(m.operationId, 8)
  /\ m.retryAfterMs # Zero => HasBit(m.flowFlags, 2)

(* SESSION_CLOSE is only decoded here; the Rust runtime writes it.           *)
SessionCloseR ==
  [closeReason |-> u16(0), inFlightPolicy |-> u8(2), drainTimeoutMs |-> u32(4), lastOperationId |-> u64(8),
   sessionErrorCode |-> u32(16), sessionCloseTag |-> u32(20)]
SessionCloseZ == {u8(3)}
ValidSessionClose(m) == AtMost(m.closeReason, 5) /\ AtMost(m.inFlightPolicy, 1)

------------------------------------------------------------------------------
(* A recovery ticket: made by fromBytes only, written again by toBytes.  The *)
(* operation is NoOperationId when the ticket names none.                    *)
NoOperationId == <<>>
Magic == <<78, 82, 84, 75, 0, 0, 0, 0, 0>>
TicketFields ==
  [magic |-> u32(0), version |-> u16(4), flags |-> u16(6), sessionId |-> u32(8), tokenBytes |-> u32(12),
   resumeWindowMillis |-> u32(16), operationId |-> u64(20)]
ValidTicket(m, tailBytes) ==
  /\ m.magic = Magic /\ m.version = N(1) /\ AtMost(m.flags, 1)
  /\ m.sessionId # Zero /\ m.tokenBytes # Zero
  /\ Fits(m.tokenBytes, 2) /\ Low(m.tokenBytes) = tailBytes
  /\ m.flags = N(1) <=> m.operationId # Zero
TicketOf(m) ==
  [sessionId |-> m.sessionId, resumeWindowMillis |-> m.resumeWindowMillis,
   resumeFromOperationId |-> IF m.flags = N(1) THEN m.operationId ELSE NoOperationId]
TicketBytes(t, tailBytes) ==
  LET present == t.resumeFromOperationId # NoOperationId
  IN  Written(28, TicketFields,
        [magic |-> Magic, version |-> N(1), flags |-> N(IF present THEN 1 ELSE 0), sessionId |-> t.sessionId,
         tokenBytes |-> N(tailBytes), resumeWindowMillis |-> t.resumeWindowMillis,
         operationId |-> IF present THEN t.resumeFromOperationId ELSE Zero])
=============================================================================
