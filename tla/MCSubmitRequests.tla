--------------------------- MODULE MCSubmitRequests ---------------------------
(* Values for SubmitRequests: every index mode and every set of references.  *)
EXTENDS Integers, Sequences, SequencesExt

IndexModes == {"DenseRange", "RawU16", "DeltaU16", "Bitset"}
ReferenceSlots == {"camera", "tileIndex", "tensorSectionTable"}

Tensor(ids, mode, base, camera, sections, refs) ==
  [kind |-> "tensor", tileIds |-> ids, mode |-> mode, base |-> base, camera |-> camera, sections |-> sections, refs |-> refs]

Section(r, codecs, tiles, stride) == [role |-> r, codec |-> 5, codecs |-> codecs, tiles |-> tiles, stride |-> stride]

(* Tile lists around the boundaries of a byte, out of order and repeated.    *)
Ids == {<<>>} \cup BoundedSeq({0, 1, 7, 8, 9}, 3) \cup {<<65535>>, <<65536>>, <<0, 65535>>, <<255, 256>>, <<7, 8, 9, 10>>}
IndexInputs == {Tensor(ids, mode, b, <<>>, <<>>, {}) : ids \in Ids, mode \in IndexModes, b \in {0, 7}}

Codecs == {<<>>, <<5, 5>>, <<5, 6>>, <<5>>}
Tiles == {<<<<61>>, <<62, 63>>>>, <<<<>>, <<64>>>>, <<<<65>>>>}
TwoTileSections(r) == {Section(r, c, t, s) : c \in Codecs, t \in Tiles, s \in {0, 2, 3}}
SectionInputs ==
  {Tensor(<<3, 4>>, "RawU16", 0, <<>>, ss, {}) :
    ss \in {<<a>> : a \in TwoTileSections(1)} \cup {<<a, b>> : a \in TwoTileSections(1), b \in TwoTileSections(2)}
             \cup {<<Section(2, <<>>, <<<<66>>, <<67>>>>, 0), Section(2, <<>>, <<<<66>>, <<67>>>>, 0)>>}}

ReferenceInputs ==
  {Tensor(ids, "DeltaU16", 0, camera, ss, refs) :
    ids \in {<<>>, <<3>>}, camera \in {<<>>, <<71>>, <<71, 72, 73, 74, 75, 76, 77, 78>>},
    ss \in {<<>>, <<Section(1, <<>>, <<<<68>>>>, 0)>>}, refs \in SUBSET ReferenceSlots}

Frames == [payloadKind : {1, 2, 3, 64}, bytes : {<<>>, <<81>>, <<82, 83>>}]
TypedInputs == {[kind |-> "typed", frames |-> fs] : fs \in BoundedSeq(Frames, 2) \cup {<<a, b, a>> : a, b \in Frames}}

MCInputs == IndexInputs \cup SectionInputs \cup ReferenceInputs \cup TypedInputs
=============================================================================
