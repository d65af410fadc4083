--------------------------- MODULE MCClientEvents ---------------------------
(* Two sessions and two readers; two submitNoWait() calls.                   *)
EXTENDS ClientEvents

CONSTANTS first, other, r1, r2, f1, f2

TwoSessions == {first, other}
TwoWireIds == [s \in TwoSessions |-> IF s = other THEN 2 ELSE 1]
(* The id of a closed session negotiated anew.                               *)
OneWireId == [s \in TwoSessions |-> 1]

TheReaders == {r1, r2}

ReadersAreAlike == Permutations(TheReaders)

NoWait(f, o) == [frame |-> f, how |-> "submitNoWait", option |-> o]

(* On frames of their own, or one after the other on one frame.              *)
TwoDetached ==
  {<<NoWait(f1, "signal"), NoWait(f2, "plain")>>, <<NoWait(f1, "timeout"), NoWait(f1, "timeout")>>}
=============================================================================
