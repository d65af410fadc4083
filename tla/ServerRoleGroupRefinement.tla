---------------------- MODULE ServerRoleGroupRefinement ----------------------
(* ServerRoleGroup implements SessionHandoff: the refinement mapping.       *)
EXTENDS ServerRoleGroup

FateOf(s) ==
  IF native[s] # "open" THEN native[s]
  ELSE IF closers[s] > 0 THEN "closing"
  ELSE IF s \in sessions THEN "taken"
  ELSE "offered"

StageOf == IF Closed THEN "closed" ELSE IF groupClosed THEN "failing" ELSE "open"

Promise == INSTANCE SessionHandoff
             WITH fate <- [s \in Sessions |-> FateOf(s)], stage <- StageOf

(* The server keeps the promise of SessionHandoff, its liveness included,   *)
(* as long as native session closes succeed.                                *)
KeepsPromise == Promise!Spec
=============================================================================
