-------------------- MODULE MCServerRoleGroupRefinement ----------------------
(* TLC instance of the refinement; liveness is checked without symmetry.    *)
EXTENDS ServerRoleGroupRefinement, TLC
=============================================================================
