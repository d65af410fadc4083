---------------------------- MODULE SessionHandoff ----------------------------
(***************************************************************************)
(* What a native server promises about the sessions its listeners accept:  *)
(* a session is offered, taken by at most one accept() call of a server    *)
(* that is not closed, and closed exactly when it has been given up; an    *)
(* untaken session is given up only when the listeners stop; once the      *)
(* server is closed every session it ever accepted ends up closed.         *)
(***************************************************************************)
CONSTANT Sessions

VARIABLES
  fate,  \* what has become of each session
  stage  \* "open"; "failing": the listeners have stopped; "closed": so has the server

vars == <<fate, stage>>

Fates == {"unborn", "offered", "taken", "closing", "closed"}
Stages == {"open", "failing", "closed"}

TypeOK == fate \in [Sessions -> Fates] /\ stage \in Stages

Init ==
  /\ fate = [s \in Sessions |-> "unborn"]
  /\ stage = "open"

Later(from) == IF from = "open" THEN Stages ELSE IF from = "failing" THEN {"failing", "closed"} ELSE {"closed"}

(* A session that comes when the listeners are stopping may be given up at *)
(* once.                                                                   *)
Offer(s) ==
  /\ fate[s] = "unborn"
  /\ \E next \in {"offered"} \cup IF stage = "open" THEN {} ELSE {"closing"} :
       fate' = [fate EXCEPT ![s] = next]
  /\ UNCHANGED stage

Take(s) ==
  /\ fate[s] = "offered"
  /\ stage # "closed"
  /\ fate' = [fate EXCEPT ![s] = "taken"]
  /\ UNCHANGED stage

GiveUp(S, next) ==
  /\ next \in Later(stage)
  /\ \A s \in S : fate[s] = "taken" \/ (fate[s] = "offered" /\ next # "open")
  /\ fate' = [s \in Sessions |-> IF s \in S THEN "closing" ELSE fate[s]]
  /\ stage' = next

Close(s) ==
  /\ fate[s] = "closing"
  /\ fate' = [fate EXCEPT ![s] = "closed"]
  /\ UNCHANGED stage

Next ==
  \/ \E s \in Sessions : Offer(s) \/ Take(s) \/ Close(s)
  \/ \E S \in SUBSET Sessions : \E next \in Stages : GiveUp(S, next)

Abandon(s) == stage = "closed" /\ GiveUp({s}, "closed")

Fairness == \A s \in Sessions : WF_vars(Close(s)) /\ WF_vars(Abandon(s))

Safety == Init /\ [][Next]_vars
Spec == Safety /\ Fairness
=============================================================================
