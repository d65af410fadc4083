---------------------------- MODULE ClientSubmits ----------------------------
(***************************************************************************)
(* The two halves of a submit of a native client session: the credit it    *)
(* reserves before its dispatch (SubmitCapacity) and its life from the     *)
(* dispatch on (SubmitLifecycle).  They share no state but the closing of  *)
(* the session, which each has for itself: a behaviour is a behaviour of   *)
(* one half, and the other stays where it began.                           *)
(***************************************************************************)
EXTENDS SubmitLifecycle, SubmitCapacity

VARIABLE half  \* "credits" or "calls"

submitVars == <<half, vars, capacityVars>>

SubmitsInit ==
  /\ Init /\ CapacityInit
  /\ half = "calls" \/ (half = "credits" /\ plan = CHOOSE p \in Plans : TRUE)

SubmitsNext ==
  /\ UNCHANGED half
  /\ \/ half = "calls" /\ Next /\ UNCHANGED capacityVars
     \/ half = "credits" /\ CapacityNext /\ UNCHANGED vars

\* In the half that stays where it began no step falls due.
SubmitsSpec == SubmitsInit /\ [][SubmitsNext]_submitVars /\ Fairness /\ CapacityFairness
=============================================================================
