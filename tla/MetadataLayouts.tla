---------------------------- MODULE MetadataLayouts ----------------------------
(* The metadata blocks whose codec packages/core derives from a table: the   *)
(* runtime control and the runtime object messages.  One table serves the    *)
(* encoder, the decoder and the validator, as in the code.                   *)
EXTENDS WireIntegers

role(offset) == [offset |-> offset, kind |-> "u8", enum |-> "runtimeRole"]
scope(offset) == [offset |-> offset, kind |-> "u32", enum |-> "errorScope"]
named(offset, enum) == [offset |-> offset, kind |-> "u16", enum |-> enum]

(* flagMask 255 stands for a layout without one: no field is called flags.   *)
Layout(length, fields, flagMask, tailFields, reserved) ==
  [length |-> length, fields |-> fields, flagMask |-> flagMask, tailFields |-> tailFields, reserved |-> reserved]

OBJECT_DESCRIPTOR_LAYOUT == Layout(48,
  [objectId |-> u64(0), objectKind |-> named(8, "objectKind"), producerRole |-> role(10), consumerRole |-> role(11),
   sessionId |-> u32(12), byteSize |-> u64(16), computeCostUnits |-> u32(24),
   memoryLocationHint |-> named(28, "memoryLocationHint"), ownershipHint |-> named(30, "ownershipHint"),
   lifetimeHintMs |-> u32(32), metadataBytes |-> u32(36)], 255, {"metadataBytes"}, {u64(40)})

OBJECT_REFERENCE_LAYOUT == Layout(48,
  [objectId |-> u64(0), operationId |-> u64(8), objectVersion |-> u64(16), offset |-> u64(24), length |-> u64(32),
   flags |-> u32(40), metadataBytes |-> u32(44)], 7, {"metadataBytes"}, {})

OBJECT_RELEASE_LAYOUT == Layout(32,
  [objectId |-> u64(0), operationId |-> u64(8), releaseReason |-> named(16, "objectReleaseReason"),
   sourceRole |-> role(18), flags |-> u8(19), diagnosticBytes |-> u32(20)], 3, {"diagnosticBytes"}, {u64(24)})

OBJECT_DELTA_LAYOUT == Layout(40,
  [objectId |-> u64(0), deltaSequence |-> u64(8), regionOffset |-> u64(16), regionBytes |-> u32(24),
   deltaBytes |-> u32(28), flags |-> u32(32), metadataBytes |-> u32(36)], 7, {"metadataBytes", "deltaBytes"}, {})

CACHE_REFERENCE_LAYOUT == Layout(56,
  [cacheNamespace |-> u32(0), profileId |-> u16(4), reuseScope |-> named(6, "cacheReuseScope"), cacheKeyHi |-> u64(8),
   cacheKeyLo |-> u64(16), leaseId |-> u64(24), producerTraceId |-> u64(32), expirationHintMs |-> u32(40),
   metadataBytes |-> u32(44), flags |-> u32(48)], 3, {"metadataBytes"}, {u32(52)})

CACHE_MISS_LAYOUT == Layout(32,
  [cacheNamespace |-> u32(0), profileId |-> u16(4), missReason |-> named(6, "cacheMissReason"), cacheKeyHi |-> u64(8),
   cacheKeyLo |-> u64(16), diagnosticBytes |-> u32(24)], 255, {"diagnosticBytes"}, {u32(28)})

CONTROL_REQUEST_LAYOUT == Layout(32,
  [operationId |-> u64(0), controlSequence |-> u64(8), reasonCode |-> u16(16), sourceRole |-> role(18),
   flags |-> u8(19), diagnosticBytes |-> u32(20)], 3, {"diagnosticBytes"}, {u64(24)})

SCHEDULING_LAYOUT == Layout(32,
  [operationId |-> u64(0), controlSequence |-> u64(8), priorityClass |-> u16(16), priorityDelta |-> i16(18),
   deadlineUnixMs |-> u64(20), flags |-> u32(28)], 3, {}, {})

SUPERSEDE_LAYOUT == Layout(32,
  [oldOperationId |-> u64(0), newOperationId |-> u64(8), controlSequence |-> u64(16), dropReasonCode |-> u16(24),
   flags |-> u16(26), diagnosticBytes |-> u32(28)], 1, {"diagnosticBytes"}, {})

BUDGET_LAYOUT == Layout(40,
  [operationId |-> u64(0), computeBudgetUnits |-> u64(8), memoryBudgetBytes |-> u64(16),
   bandwidthBudgetBytes |-> u64(24), tokenBudget |-> u32(32), flags |-> u32(36)], 3, {}, {})

(* percentX100 is the percentField: 0..10000, or 0xffff for unknown.         *)
PROGRESS_LAYOUT == Layout(32,
  [operationId |-> u64(0), progressSequence |-> u64(8), stageCode |-> u16(16),
   percentX100 |-> named(18, "percent"), objectId |-> u64(20), bodyBytes |-> u32(28)],
  255, {"bodyBytes"}, {})

PARTIAL_RESULT_LAYOUT == Layout(40,
  [operationId |-> u64(0), resultSequence |-> u64(8), objectId |-> u64(16), deltaSequence |-> u64(24),
   bodyBytes |-> u32(32), flags |-> u32(36)], 3, {"bodyBytes"}, {})

PRESSURE_LAYOUT == Layout(32,
  [scopeId |-> u64(0), creditWindow |-> u64(8), pressureLevel |-> u16(16), pressureReason |-> u16(18),
   retryAfterMs |-> u32(20), flags |-> u32(24)], 3, {}, {u32(28)})

CAPABILITY_LAYOUT == Layout(32,
  [profileId |-> u16(0), capabilityCount |-> u16(2), costModelId |-> u16(4), preferenceRank |-> u16(6),
   limitBytes |-> u64(8), limitUnits |-> u64(16), bodyBytes |-> u32(24), flags |-> u32(28)], 3, {"bodyBytes"}, {})

ROUTE_HINT_LAYOUT == Layout(32,
  [operationId |-> u64(0), routeId |-> u32(8), executorClass |-> u16(12), affinityClass |-> u16(14),
   deadlineUnixMs |-> u64(16), bodyBytes |-> u32(24), flags |-> u32(28)], 3, {"bodyBytes"}, {})

TRACE_CONTEXT_LAYOUT == Layout(32,
  [traceId |-> u64(0), spanId |-> u64(8), parentSpanId |-> u64(16), stageCode |-> u16(24), flags |-> u16(26),
   bodyBytes |-> u32(28)], 3, {"bodyBytes"}, {})

RESULT_DROP_REASON_LAYOUT == Layout(32,
  [operationId |-> u64(0), resultSequence |-> u64(8), dropReasonCode |-> u16(16), sourceRole |-> role(18),
   flags |-> u8(19), diagnosticBytes |-> u32(20)], 3, {"diagnosticBytes"}, {u64(24)})

RECOVERABLE_ERROR_LAYOUT == Layout(32,
  [errorCode |-> u32(0), errorScope |-> scope(4), recoveryAction |-> u16(8), sourceRole |-> role(10), flags |-> u8(11),
   retryAfterMs |-> u32(12), relatedSessionId |-> u32(16), relatedFrameId |-> u32(20), relatedViewId |-> u32(24),
   diagnosticBytes |-> u32(28)], 3, {"diagnosticBytes"}, {})

RETRY_AFTER_LAYOUT == Layout(32,
  [scopeId |-> u64(0), controlSequence |-> u64(8), retryAfterMs |-> u32(16), jitterMs |-> u32(20),
   reasonCode |-> u16(24), sourceRole |-> role(26), flags |-> u8(27), diagnosticBytes |-> u32(28)],
  3, {"diagnosticBytes"}, {})

------------------------------------------------------------------------------
ControlTypes ==
  {"Cancel", "Abort", "PriorityUpdate", "Deadline", "ExpireAt", "Supersede", "BudgetUpdate", "Progress",
   "PartialResult", "Backpressure", "CreditUpdate", "CapabilityNegotiation", "DegradeProfile", "RouteHint",
   "ExecutionHint", "TraceContext", "ResultDropReason", "ErrorRecoverable", "RetryAfter"}

ObjectTypes ==
  {"ObjectDeclare", "ObjectRef", "ObjectRelease", "ObjectPatch", "ObjectDelta", "CacheReference", "CacheMiss"}

ControlLayout(type) ==
  CASE type \in {"Cancel", "Abort"} -> CONTROL_REQUEST_LAYOUT
    [] type \in {"PriorityUpdate", "Deadline", "ExpireAt"} -> SCHEDULING_LAYOUT
    [] type = "Supersede" -> SUPERSEDE_LAYOUT
    [] type = "BudgetUpdate" -> BUDGET_LAYOUT
    [] type = "Progress" -> PROGRESS_LAYOUT
    [] type = "PartialResult" -> PARTIAL_RESULT_LAYOUT
    [] type \in {"Backpressure", "CreditUpdate"} -> PRESSURE_LAYOUT
    [] type \in {"CapabilityNegotiation", "DegradeProfile"} -> CAPABILITY_LAYOUT
    [] type \in {"RouteHint", "ExecutionHint"} -> ROUTE_HINT_LAYOUT
    [] type = "TraceContext" -> TRACE_CONTEXT_LAYOUT
    [] type = "ResultDropReason" -> RESULT_DROP_REASON_LAYOUT
    [] type = "ErrorRecoverable" -> RECOVERABLE_ERROR_LAYOUT
    [] type = "RetryAfter" -> RETRY_AFTER_LAYOUT

ObjectLayout(type) ==
  CASE type = "ObjectDeclare" -> OBJECT_DESCRIPTOR_LAYOUT
    [] type = "ObjectRef" -> OBJECT_REFERENCE_LAYOUT
    [] type = "ObjectRelease" -> OBJECT_RELEASE_LAYOUT
    [] type \in {"ObjectPatch", "ObjectDelta"} -> OBJECT_DELTA_LAYOUT
    [] type = "CacheReference" -> CACHE_REFERENCE_LAYOUT
    [] type = "CacheMiss" -> CACHE_MISS_LAYOUT

LayoutOf(type) == IF type \in ControlTypes THEN ControlLayout(type) ELSE ObjectLayout(type)

(* validateRuntimeObjectEnum: the last standard value of an enumeration; the *)
(* private values are 0x80..0xff for roles and 0x8000..0xffff for the rest.  *)
LastStandard ==
  [runtimeRole |-> 7, objectKind |-> 12, memoryLocationHint |-> 6, ownershipHint |-> 6, objectReleaseReason |-> 7,
   cacheReuseScope |-> 5, cacheMissReason |-> 7]

EnumValue(enum, v) ==
  CASE enum = "none" -> TRUE
    [] enum = "errorScope" -> AtMost(v, 2)
    [] enum = "percent" -> AtMost(v, 10000) \/ v = N(65535)
    [] enum = "runtimeRole" -> AtMost(v, LastStandard[enum]) \/ (AtMost(v, 255) /\ v[1] >= 128)
    [] OTHER -> AtMost(v, LastStandard[enum]) \/ (AtMost(v, 65535) /\ v[2] >= 128)

(* validateRuntimeControlMetadata and validateRuntimeObjectMetadata.         *)
ValidFields(layout, m) ==
  /\ \A f \in DOMAIN layout.fields : InRange(layout.fields[f].kind, m[f]) /\ EnumValue(layout.fields[f].enum, m[f])
  /\ "flags" \in DOMAIN layout.fields => Masked(m.flags, layout.flagMask)

(* validateRuntimeControlTail and validateRuntimeObjectTail: the declared    *)
(* lengths are those of the tail.  Lengths above 2^16 are never met by the   *)
(* tails of an instance.                                                     *)
ValidTail(layout, m, tailBytes) ==
  /\ \A f \in layout.tailFields : Fits(m[f], 2)
  /\ tailBytes = CASE layout.tailFields = {} -> 0
                   [] layout.tailFields = {"metadataBytes", "deltaBytes"} -> Low(m.metadataBytes) + Low(m.deltaBytes)
                   [] OTHER -> Low(m[CHOOSE f \in layout.tailFields : TRUE])
=============================================================================
