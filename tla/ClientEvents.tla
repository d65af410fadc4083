---------------------------- MODULE ClientEvents ----------------------------
(***************************************************************************)
(* The events of a native client on their way to the application: from the *)
(* sessions of the runtime to the caller whose session they are for        *)
(* (ClientEventRouting), and, within one session whose submits all use     *)
(* submitNoWait(), from its queue through nextEvent() (SubmitLifecycle).   *)
(* The models share no state: a behaviour is a behaviour of one of them,   *)
(* and the other stays where it began.                                     *)
(***************************************************************************)
EXTENDS ClientEventRouting, SubmitLifecycle

VARIABLE way  \* "routing" or "session"

EventsInit ==
  /\ RoutingInit /\ Init
  /\ way = "session" \/ (way = "routing" /\ plan = CHOOSE p \in Plans : TRUE)

EventsNext ==
  /\ UNCHANGED way
  /\ \/ way = "routing" /\ RoutingNext /\ UNCHANGED vars
     \/ way = "session" /\ Next /\ UNCHANGED routingVars

EventsSpec == EventsInit /\ [][EventsNext]_<<way, routingVars, vars>>
=============================================================================
