----------------------------- MODULE WireIntegers -----------------------------
(* Integers as the metadata codecs of packages/core see them.  A JavaScript  *)
(* number or bigint is the tuple of its nine low bytes in two's complement,  *)
(* least significant first: eight bytes of payload for the widest wire field *)
(* and one that shows what lies above (or below) it.  DataView's setters     *)
(* keep the low bytes of a value and drop the rest without an error, so what *)
(* a validator lets through decides whether a value survives the wire.       *)
EXTENDS Integers, Sequences

Bytes == 0..255
Places == 1..9

(* The value of a TLA+ integer (TLC's own range), and the few beyond it.     *)
Weight == <<1, 256, 65536, 16777216>>
N(n) == [k \in Places |-> IF k <= 4 THEN (n \div Weight[k]) % 256 ELSE IF n < 0 THEN 255 ELSE 0]
U32Max == <<255, 255, 255, 255, 0, 0, 0, 0, 0>>
U32Over == <<0, 0, 0, 0, 1, 0, 0, 0, 0>>
U32OverOne == <<1, 0, 0, 0, 1, 0, 0, 0, 0>>
U64Max == <<255, 255, 255, 255, 255, 255, 255, 255, 0>>
U64Over == <<0, 0, 0, 0, 0, 0, 0, 0, 1>>

Zero == N(0)

(* The value of the two low bytes: the number itself when Fits(v, 2).        *)
Low(v) == v[1] + 256 * v[2]

Negative(v) == v[9] >= 128

(* 0 <= v < 256^width.                                                       *)
Fits(v, width) == \A k \in (width + 1)..9 : v[k] = 0

(* assertUnsigned and assertEnumRange with a maximum below 2^16.             *)
AtMost(v, maximum) == Fits(v, 2) /\ Low(v) <= maximum

(* (v & ~mask) === 0 for a mask of low bits below 2^8.  A JavaScript bit     *)
(* operation sees the low 32 bits only: the bytes above them do not count.   *)
Masked(v, mask) == v[1] <= mask /\ v[2] = 0 /\ v[3] = 0 /\ v[4] = 0

HasBit(v, bit) == (v[1] \div bit) % 2 = 1

------------------------------------------------------------------------------
(* A field of a layout: its offset and its kind, and the enumeration its     *)
(* values belong to when the layout names one.                               *)
u8(offset) == [offset |-> offset, kind |-> "u8", enum |-> "none"]
u16(offset) == [offset |-> offset, kind |-> "u16", enum |-> "none"]
u32(offset) == [offset |-> offset, kind |-> "u32", enum |-> "none"]
u64(offset) == [offset |-> offset, kind |-> "u64", enum |-> "none"]
i16(offset) == [offset |-> offset, kind |-> "i16", enum |-> "none"]

Width == [u8 |-> 1, u16 |-> 2, u32 |-> 4, u64 |-> 8, i16 |-> 2]

(* A whole metadata block of the given size: each byte is the one of the     *)
(* field that covers it, and zero where no field does.                       *)
Written(size, fields, m) ==
  [i \in 1..size |->
    LET covering == {f \in DOMAIN fields : fields[f].offset < i /\ i <= fields[f].offset + Width[fields[f].kind]}
    IN  IF covering = {} THEN 0
        ELSE LET f == CHOOSE g \in covering : TRUE IN m[f][i - fields[f].offset]]

(* readRuntimeInteger and DataView's getters.                                *)
ReadInteger(b, field) ==
  LET w == Width[field.kind]
      sign == IF field.kind = "i16" /\ b[field.offset + w] >= 128 THEN 255 ELSE 0
  IN  [k \in Places |-> IF k <= w THEN b[field.offset + k] ELSE sign]

ReadFields(b, fields) == [f \in DOMAIN fields |-> ReadInteger(b, fields[f])]

IsZero(b, reserved) == \A r \in reserved : ReadInteger(b, r) = Zero

(* validateRuntimeInteger and validateRuntimeObjectInteger: the range of the *)
(* kind.                                                                     *)
InRange(kind, v) ==
  IF kind = "i16" THEN \/ AtMost(v, 32767)
                       \/ Negative(v) /\ (\A k \in 3..9 : v[k] = 255) /\ Low(v) >= 32768
  ELSE Fits(v, Width[kind])
=============================================================================
