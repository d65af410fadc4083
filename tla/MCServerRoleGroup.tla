-------------------------- MODULE MCServerRoleGroup --------------------------
(* TLC instance of ServerRoleGroup: callers and sessions are symmetric.     *)
EXTENDS ServerRoleGroup, TLC

Symmetry == Permutations(Callers) \cup Permutations(Sessions)
=============================================================================
