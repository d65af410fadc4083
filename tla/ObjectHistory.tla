---------------------------- MODULE ObjectHistory ----------------------------
(***************************************************************************)
(* What one side of a session may tell the other about runtime objects:    *)
(* an object is declared while it is not live, referenced, patched and     *)
(* released only while it is live, its version never goes back, its delta  *)
(* sequence always advances, and an operation that has released it, if it  *)
(* outlives that release, neither references nor releases it again.        *)
(***************************************************************************)
EXTENDS Integers

CONSTANTS Objects, Operations, NoOperation, Versions, Deltas

VARIABLE peer  \* what the receiver knows of each object

Released(drop) ==
  [live |-> FALSE, drop |-> drop, operations |-> {}, releasedBy |-> {}, version |-> 0, delta |-> 0]

Known ==
  [live : BOOLEAN, drop : BOOLEAN, operations : SUBSET Operations, releasedBy : SUBSET Operations,
   version : Versions \cup {0}, delta : Deltas \cup {0}]

Init == peer = [x \in Objects |-> Released(FALSE)]

Tell(x, known) == peer' = [peer EXCEPT ![x] = known]

Declare(x) ==
  /\ ~peer[x].live
  /\ \E drop \in BOOLEAN : Tell(x, [Released(drop) EXCEPT !.live = TRUE])

Reference(x, o) ==
  /\ peer[x].live
  /\ o \notin peer[x].releasedBy
  /\ \E v \in Versions :
       /\ v >= peer[x].version
       /\ Tell(x, [peer[x] EXCEPT !.version = v, !.operations = @ \cup ({o} \ {NoOperation})])

Change(x) ==
  /\ peer[x].live
  /\ \E d \in Deltas : d > peer[x].delta /\ Tell(x, [peer[x] EXCEPT !.delta = d])

Release(x, o) ==
  /\ peer[x].live
  /\ o \notin peer[x].releasedBy
  /\ IF o = NoOperation \/ peer[x].drop
     THEN Tell(x, Released(peer[x].drop))
     ELSE Tell(x, [peer[x] EXCEPT !.operations = @ \ {o}, !.releasedBy = @ \cup {o}])

Next ==
  \E x \in Objects :
    \/ Declare(x)
    \/ Change(x)
    \/ \E o \in Operations \cup {NoOperation} : Reference(x, o) \/ Release(x, o)

Spec == Init /\ [][Next]_peer
=============================================================================
