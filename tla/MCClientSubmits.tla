--------------------------- MODULE MCClientSubmits ---------------------------
(* TLC instance of ClientSubmits: operations are numbers, so that plans can  *)
(* be written as tuples.                                                     *)
EXTENDS ClientSubmits

CONSTANTS f1, f2

Sub(f, o) == [frame |-> f, how |-> "submit", option |-> o]

(* submit() with a timeout beside another one, on its frame or another.      *)
MCTimedPair == {<<Sub(f1, "timeout"), Sub(f, b)>> : f \in {f1, f2}, b \in {"plain", "timeout"}}
=============================================================================
