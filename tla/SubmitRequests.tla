---------------------------- MODULE SubmitRequests ----------------------------
(* Building a FRAME_SUBMIT out of tensors or typed payloads, and what the    *)
(* receiving side makes of its bytes.  A body is a prelude of six region     *)
(* lengths and the regions: inline objects, object references, typed payload *)
(* descriptors and frames, and two for extensions that builders leave empty. *)
(*                                                                           *)
(* An input is a record: a tensor input has tileIds, mode, base, camera (the *)
(* bytes of the block), sections and refs (the slots given as references     *)
(* instead); a typed input has frames, each a payload kind and its bytes.    *)
EXTENDS MetadataBlocks, SequencesExt

CONSTANTS Inputs   \* what callers may ask to submit

VARIABLES input, built, payload, accepted
vars == <<input, built, payload, accepted>>

Unbuilt == [kind |-> "unbuilt"]
Refused == [kind |-> "refused"]
NoBytes == <<>>

SlotKind == [camera |-> 1, tileIndex |-> 2, tensorSectionTable |-> 3]
Modes == [DenseRange |-> 0, RawU16 |-> 1, DeltaU16 |-> 2, Bitset |-> 3]

Pad8(s) == s \o [i \in 1..((-Len(s)) % 8) |-> 0]

U16Bytes(s) == FlattenSeq([i \in 1..Len(s) |-> SubSeq(N(s[i]), 1, 2)])
U32Bytes(s) == FlattenSeq([i \in 1..Len(s) |-> SubSeq(N(s[i]), 1, 4)])

Increasing(s) == \A i \in 2..Len(s) : s[i - 1] < s[i]

------------------------------------------------------------------------------
(* encodeSubmitTileIndices: when a mode can express the ids, and how.        *)
TilesFit(ids, mode, base) ==
  /\ \A i \in 1..Len(ids) : 0 <= ids[i] /\ ids[i] <= 65535
  /\ CASE mode = "DenseRange" -> \A i \in 1..Len(ids) : ids[i] = base + i - 1
       [] mode = "RawU16" -> TRUE
       [] OTHER -> Increasing(ids)

Deltas(ids) == [i \in 1..Len(ids) |-> IF i = 1 THEN ids[1] ELSE ids[i] - ids[i - 1]]

Powers == <<1, 2, 4, 8, 16, 32, 64, 128>>

(* Mutant: the bits of a byte run the other way.                             *)
BitsetByteReversed(ids, k) ==
  LET Bit(b) == IF \E i \in 1..Len(ids) : ids[i] = 8 * (k - 1) + b THEN Powers[8 - b] ELSE 0
  IN  Bit(0) + Bit(1) + Bit(2) + Bit(3) + Bit(4) + Bit(5) + Bit(6) + Bit(7)

BitsetByte(ids, k) ==
  LET Bit(b) == IF \E i \in 1..Len(ids) : ids[i] = 8 * (k - 1) + b THEN Powers[b + 1] ELSE 0
  IN  Bit(0) + Bit(1) + Bit(2) + Bit(3) + Bit(4) + Bit(5) + Bit(6) + Bit(7)

TileIndices(ids, mode) ==
  CASE mode = "DenseRange" -> <<>>
    [] mode = "RawU16" -> U16Bytes(ids)
    [] mode = "DeltaU16" -> U16Bytes(Deltas(ids))
    [] mode = "Bitset" -> [k \in 1..(IF ids = <<>> THEN 0 ELSE Last(ids) \div 8 + 1) |-> BitsetByte(ids, k)]

(* encodeSubmitTensorSections.  A section is [role, codec, codecs, tiles,    *)
(* stride]: its default codec, the codec of each tile (or none), the bytes   *)
(* of each tile and the stride they are padded to (0: none).                 *)
SectionFits(s, tileCount) ==
  /\ s.role <= 65535 /\ s.codec <= 255
  /\ Len(s.tiles) = tileCount
  /\ Len(s.codecs) \in {0, tileCount}
  /\ s.stride # 0 => \A i \in 1..tileCount : Len(s.tiles[i]) <= s.stride

SectionsFit(sections, tileCount) ==
  /\ Increasing([i \in 1..Len(sections) |-> sections[i].role])
  /\ \A i \in 1..Len(sections) : SectionFits(sections[i], tileCount)

Mixed(s) == \E i \in 1..Len(s.codecs) : s.codecs[i] # s.codec

PaddedTile(s, i) ==
  IF s.stride = 0 THEN s.tiles[i] ELSE s.tiles[i] \o [k \in 1..(s.stride - Len(s.tiles[i])) |-> 0]

SectionFields ==
  [role |-> u16(0), codec |-> u8(2), flags |-> u16(6), codecBytes |-> u32(12), lengthBytes |-> u32(16),
   payloadBytes |-> u32(20), stride |-> u32(24)]

SectionBytes(s) ==
  LET codecTable == IF Mixed(s) THEN s.codecs ELSE <<>>
      lengthTable == U32Bytes([i \in 1..Len(s.tiles) |-> Len(s.tiles[i])])
      data == FlattenSeq([i \in 1..Len(s.tiles) |-> PaddedTile(s, i)])
  IN  Written(32, SectionFields,
        [role |-> N(s.role), codec |-> N(s.codec),
         flags |-> N((IF Mixed(s) THEN 1 ELSE 0) + (IF s.stride = 0 THEN 0 ELSE 2)),
         codecBytes |-> N(Len(codecTable)), lengthBytes |-> N(Len(lengthTable)), payloadBytes |-> N(Len(data)),
         stride |-> N(s.stride)]) \o codecTable \o lengthTable \o data

(* A section that another follows is padded, so that all start at a multiple *)
(* of eight.                                                                 *)
SectionTable(sections) ==
  FlattenSeq([i \in 1..Len(sections) |->
    IF i = Len(sections) THEN SectionBytes(sections[i]) ELSE Pad8(SectionBytes(sections[i]))])

------------------------------------------------------------------------------
(* appendInlineSubmitObject: a header of 16 bytes, the payload, padding.     *)
InlineFields == [objectKind |-> u16(0), bytes |-> u32(8)]
InlineObject(kind, bytes) ==
  Pad8(Written(16, InlineFields, [objectKind |-> N(kind), bytes |-> N(Len(bytes))]) \o bytes)

ReferenceBlock(slot) ==
  Written(24, ObjectReferenceBlockW,
    [objectKind |-> N(SlotKind[slot]), refFlags |-> Zero, cacheNamespace |-> N(1), cacheKeyHi |-> Zero, cacheKeyLo |-> N(9)])

PreludeFields ==
  [inline |-> u32(0), references |-> u32(4), descriptors |-> u32(8), frames |-> u32(12), extensionDescriptors |-> u32(16),
   extensions |-> u32(20)]
PreludeReserved == {u32(24), u32(28)}

Body(inline, references, descriptors, frames) ==
  Written(32, PreludeFields,
    [inline |-> N(Len(inline)), references |-> N(Len(references)), descriptors |-> N(Len(descriptors)),
     frames |-> N(Len(frames)), extensionDescriptors |-> Zero, extensions |-> Zero])
    \o inline \o references \o descriptors \o frames

(* The metadata both builders start from; the policy is the default one.     *)
PlainMetadata ==
  [f \in DOMAIN FrameSubmitW |-> CASE f = "operationId" -> N(1) [] OTHER -> Zero]

(* createTensorSubmitRequest.                                                *)
TensorObjects(in) ==
  [camera |-> in.camera, tileIndex |-> TileIndices(in.tileIds, in.mode), tensorSectionTable |-> SectionTable(in.sections)]

HasObject(in, slot) ==
  /\ slot \notin in.refs
  /\ CASE slot = "camera" -> in.camera # <<>>
       [] slot = "tileIndex" -> in.tileIds # <<>>
       [] slot = "tensorSectionTable" -> in.sections # <<>>

InlinePart(in, slot) ==
  IF HasObject(in, slot) THEN InlineObject(SlotKind[slot], TensorObjects(in)[slot]) ELSE <<>>

ReferencePart(in, slot) == IF slot \in in.refs THEN ReferenceBlock(slot) ELSE <<>>

TensorRequest(in) ==
  LET inline == InlinePart(in, "camera") \o InlinePart(in, "tileIndex") \o InlinePart(in, "tensorSectionTable")
      references ==
        ReferencePart(in, "camera") \o ReferencePart(in, "tileIndex") \o ReferencePart(in, "tensorSectionTable")
      Bit(slot, bit) == IF slot \in in.refs THEN bit ELSE 0
  IN  [kind |-> "built",
       metadata |-> [PlainMetadata EXCEPT
         !.srcWidth = N(16), !.tileWidth = N(4), !.inputProfile = N(1), !.payloadKindBitmap = N(1),
         !.tileCount = N(Len(in.tileIds)), !.sectionCount = N(Len(in.sections)),
         !.tileIndexMode = N(Modes[in.mode]), !.tileBaseId = N(in.base),
         !.cameraBytes = N(IF "camera" \in in.refs THEN 0 ELSE Len(in.camera)),
         !.tileIndexBytes = N(IF "tileIndex" \in in.refs THEN 0 ELSE Len(TensorObjects(in).tileIndex)),
         !.submitMode = N(IF references = <<>> THEN 0 ELSE IF inline = <<>> THEN 1 ELSE 2),
         !.objectRefMask = N(Bit("camera", 1) + Bit("tileIndex", 2) + Bit("tensorSectionTable", 4))],
       body |-> Body(inline, references, <<>>, <<>>)]

(* createTypedPayloadSubmitRequest; createTokenSubmitRequest is an instance. *)
Offset(frames, i) == Len(FlattenSeq([j \in 1..(i - 1) |-> frames[j].bytes]))

Descriptor(frames, i) ==
  Written(24, TypedPayloadW,
    [f \in DOMAIN TypedPayloadW |->
      CASE f = "payloadKind" -> N(frames[i].payloadKind)
        [] f = "offset" -> N(Offset(frames, i))
        [] f = "length" -> N(Len(frames[i].bytes))
        [] OTHER -> Zero])

Kinds(frames) ==
  LET Bit(k) == IF \E i \in 1..Len(frames) : frames[i].payloadKind = k THEN k ELSE 0
  IN  Bit(1) + Bit(2) + Bit(4) + Bit(8) + Bit(16) + Bit(32) + Bit(64)

TypedRequest(in) ==
  [kind |-> "built",
   metadata |-> [PlainMetadata EXCEPT
     !.tileIndexMode = N(Modes.RawU16), !.payloadKindBitmap = N(Kinds(in.frames)),
     !.payloadFrameCount = N(Len(in.frames))],
   body |-> Body(<<>>, <<>>,
              FlattenSeq([i \in 1..Len(in.frames) |-> Descriptor(in.frames, i)]),
              FlattenSeq([i \in 1..Len(in.frames) |-> in.frames[i].bytes]))]

Buildable(in) ==
  IF in.kind = "typed"
  THEN /\ in.frames # <<>> /\ Len(in.frames) <= 65535
       /\ \A i \in 1..Len(in.frames) : OnePayloadKind(N(in.frames[i].payloadKind))
  ELSE /\ Len(in.tileIds) <= 65535 /\ Len(in.sections) <= 65535
       /\ TilesFit(in.tileIds, in.mode, in.base) /\ SectionsFit(in.sections, Len(in.tileIds))

------------------------------------------------------------------------------
(* validateSubmitBody.  The code takes regions up to 2^32 bytes; Fits(.., 2) *)
(* is a bound of the model, which keeps lengths to their two low bytes.      *)
Prelude(body) == ReadFields(body, PreludeFields)
ValidBody(m, body) ==
  /\ Len(body) >= 32
  /\ IsZero(body, PreludeReserved)
  /\ LET p == Prelude(body)
     IN  /\ \A f \in DOMAIN p : Fits(p[f], 2)
         /\ Len(body) - 32 = Low(p.inline) + Low(p.references) + Low(p.descriptors) + Low(p.frames)
                               + Low(p.extensionDescriptors) + Low(p.extensions)
         /\ Low(p.references) % 24 = 0
         /\ Low(p.descriptors) = 24 * Low(m.payloadFrameCount)
         /\ m.payloadFrameCount = Zero => p.frames = Zero
         /\ Low(p.extensionDescriptors) % 16 = 0

(* normalizedSubmitFromParts ends every builder with validateSubmitRequestShape. *)
BuildRequest(in) ==
  LET request == IF in.kind = "typed" THEN TypedRequest(in) ELSE TensorRequest(in)
  IN  IF Buildable(in) /\ ValidFrameSubmit(request.metadata) /\ ValidBody(request.metadata, request.body)
      THEN request ELSE Refused

(* decodeSubmitPayload.                                                      *)
DecodePayload(b) ==
  LET m == ReadFields(b, FrameSubmitR)
      body == SubSeq(b, 73, Len(b))
  IN  IF Len(b) >= 104 /\ IsZero(b, FrameSubmitZ) /\ ValidFrameSubmit(m) /\ ValidBody(m, body)
      THEN [kind |-> "built", metadata |-> m, body |-> body] ELSE Refused

(* What callers pass: bytes for bytes, integers for numbers, a known mode and *)
(* known slots.  A base or stride of 2^32 and more, which the code refuses,  *)
(* is the one its four low bytes make, as N() has it.                        *)
Sections == [role : Nat, codec : Nat, codecs : Seq(Bytes), tiles : Seq(Seq(Bytes)), stride : Nat]
Frames == [payloadKind : Nat, bytes : Seq(Bytes)]

WellFormed(in) ==
  \/ /\ in.kind = "tensor"
     /\ in.tileIds \in Seq(Int) /\ in.mode \in DOMAIN Modes /\ in.base \in Int
     /\ in.camera \in Seq(Bytes) /\ in.sections \in Seq(Sections) /\ in.refs \subseteq DOMAIN SlotKind
  \/ /\ in.kind = "typed"
     /\ in.frames \in Seq(Frames) /\ \A i \in 1..Len(in.frames) : in.frames[i].payloadKind <= 65535

Init ==
  /\ input \in Inputs
  /\ built = Unbuilt
  /\ payload = NoBytes
  /\ accepted = Unbuilt

Build ==
  /\ built = Unbuilt
  /\ built' = BuildRequest(input)
  /\ UNCHANGED <<input, payload, accepted>>

(* encodeSubmitPayload.                                                      *)
EncodePayload ==
  /\ built \notin {Unbuilt, Refused} /\ payload = NoBytes
  /\ payload' = Written(72, FrameSubmitW, built.metadata) \o built.body
  /\ UNCHANGED <<input, built, accepted>>

Accept ==
  /\ payload # NoBytes /\ accepted = Unbuilt
  /\ accepted' = DecodePayload(payload)
  /\ UNCHANGED <<input, built, payload>>

Next == Build \/ EncodePayload \/ Accept

Spec == Init /\ [][Next]_vars

------------------------------------------------------------------------------
(* The reference reader: what the regions of an accepted body say, read with *)
(* the lengths and flags in the bytes alone.                                 *)
Region(body, name) ==
  LET p == Prelude(body)
      before == CASE name = "inline" -> 0
                  [] name = "references" -> Low(p.inline)
                  [] name = "descriptors" -> Low(p.inline) + Low(p.references)
                  [] name = "frames" -> Low(p.inline) + Low(p.references) + Low(p.descriptors)
  IN  SubSeq(body, 33 + before, 32 + before + Low(p[name]))

U16At(b, offset) == b[offset + 1] + 256 * b[offset + 2]

(* The inline objects of a region, at most one for each slot: a header, the  *)
(* bytes, padding.                                                           *)
ObjectLength(region, start) == Low(ReadFields(SubSeq(region, start + 1, start + 16), InlineFields).bytes)

NextObject(region, start) ==
  IF start >= Len(region) THEN start
  ELSE LET length == ObjectLength(region, start) IN start + 16 + length + ((-length) % 8)

ObjectStarts(region) ==
  LET second == NextObject(region, 0)
      third == NextObject(region, second)
  IN  {start \in {0, second, third} : start < Len(region)}

ObjectOf(region, kind) ==
  LET found == {start \in ObjectStarts(region) : U16At(region, start) = kind}
  IN  IF found = {} THEN <<>>
      ELSE LET start == CHOOSE first \in found : TRUE
           IN  SubSeq(region, start + 17, start + 16 + ObjectLength(region, start))

(* Tile ids out of their object; a bitset tells which, and they ascend.      *)
ReadTiles(mode, base, count, b) ==
  CASE mode = 0 -> [i \in 1..count |-> base + i - 1]
    [] mode = 1 -> [i \in 1..count |-> U16At(b, 2 * i - 2)]
    [] mode = 2 -> LET id[i \in 1..count] == IF i = 1 THEN U16At(b, 0) ELSE id[i - 1] + U16At(b, 2 * i - 2)
                   IN  id

TilesInBitset(b) == {t \in 0..(8 * Len(b) - 1) : (b[(t \div 8) + 1] \div Powers[(t % 8) + 1]) % 2 = 1}

(* The sections of a table.                                                  *)
SectionHeader(table, start) == ReadFields(SubSeq(table, start + 1, start + 32), SectionFields)

SectionEnd(table, start) ==
  LET d == SectionHeader(table, start)
  IN  start + 32 + Low(d.codecBytes) + Low(d.lengthBytes) + Low(d.payloadBytes)

SectionStarts(table, count) ==
  LET start[i \in 1..count] ==
        IF i = 1 THEN 0
        ELSE LET end == SectionEnd(table, start[i - 1]) IN end + ((-end) % 8)
  IN  start

(* One section: its role, and the bytes and the codec of each tile.          *)
ReadSection(table, start, tileCount) ==
  LET d == SectionHeader(table, start)
      codecEnd == start + 32 + Low(d.codecBytes)
      dataStart == codecEnd + Low(d.lengthBytes)
      LengthOf(i) == U16At(table, codecEnd + 4 * (i - 1))
      tile[i \in 1..tileCount] ==
        IF i = 1 THEN dataStart
        ELSE tile[i - 1] + (IF d.stride = Zero THEN LengthOf(i - 1) ELSE Low(d.stride))
  IN  [role |-> Low(d.role),
       tiles |-> [i \in 1..tileCount |-> SubSeq(table, tile[i] + 1, tile[i] + LengthOf(i))],
       codecs |-> [i \in 1..tileCount |-> IF HasBit(d.flags, 1) THEN table[start + 32 + i] ELSE Low(d.codec)]]

ReadFrame(body, i) ==
  LET d == ReadFields(SubSeq(Region(body, "descriptors"), 24 * (i - 1) + 1, 24 * i), TypedPayloadR)
  IN  [payloadKind |-> Low(d.payloadKind), bytes |-> SubSeq(Region(body, "frames"), Low(d.offset) + 1, Low(d.offset) + Low(d.length))]

SectionCodecs(s) == IF s.codecs = <<>> THEN [i \in 1..Len(s.tiles) |-> s.codec] ELSE s.codecs

(* What a builder returns, the decoder of the receiving side accepts, with   *)
(* the same metadata and body: the builder's lengths, counts and masks pass  *)
(* the checks of a component that never saw its input.                       *)
BuiltIsAccepted ==
  accepted # Unbuilt => accepted = built

(* The receiver finds in the body what the caller submitted: each slot       *)
(* inline or by reference and never both, the tile ids under every index     *)
(* mode, and of every tensor section each tile's bytes and codec, although   *)
(* tables are padded, codecs are left out and tiles are padded to a stride.  *)
ReferencesRecovered(in, references) ==
  {slot \in DOMAIN SlotKind : \E i \in 1..(Len(references) \div 24) :
                                 U16At(references, 24 * (i - 1)) = SlotKind[slot]} = in.refs

TilesRecovered(in, m, tiles) ==
  IF in.mode = "Bitset" THEN TilesInBitset(tiles) = {in.tileIds[i] : i \in 1..Len(in.tileIds)}
  ELSE ReadTiles(Low(m.tileIndexMode), Low(m.tileBaseId), Low(m.tileCount), tiles) = in.tileIds

SectionsRecovered(in, m, table) ==
  LET count == Low(m.sectionCount)
      start == SectionStarts(table, count)
  IN  /\ count = Len(in.sections)
      /\ \A i \in 1..count :
           ReadSection(table, start[i], Low(m.tileCount)) =
             [role |-> in.sections[i].role, tiles |-> in.sections[i].tiles, codecs |-> SectionCodecs(in.sections[i])]
      /\ Len(table) = IF count = 0 THEN 0 ELSE SectionEnd(table, start[count])

TensorsRecovered ==
  accepted.kind = "built" /\ input.kind = "tensor" =>
    LET m == accepted.metadata
        inline == Region(accepted.body, "inline")
    IN  /\ \A start \in ObjectStarts(inline) :
             \E slot \in DOMAIN SlotKind \ input.refs : U16At(inline, start) = SlotKind[slot]
        /\ ReferencesRecovered(input, Region(accepted.body, "references"))
        /\ "camera" \notin input.refs => ObjectOf(inline, 1) = input.camera
        /\ "tileIndex" \notin input.refs => TilesRecovered(input, m, ObjectOf(inline, 2))
        /\ "tensorSectionTable" \notin input.refs => SectionsRecovered(input, m, ObjectOf(inline, 3))

(* Every typed payload frame is found by its descriptor, whatever the number *)
(* and the lengths of the frames before it.                                  *)
FramesRecovered ==
  accepted.kind = "built" /\ input.kind = "typed" =>
    [i \in 1..Low(accepted.metadata.payloadFrameCount) |-> ReadFrame(accepted.body, i)] = input.frames

(* What is submitted is what the receiver gets, tensors and frames alike.    *)
SubmittedIsReceived == BuiltIsAccepted /\ TensorsRecovered /\ FramesRecovered
=============================================================================
