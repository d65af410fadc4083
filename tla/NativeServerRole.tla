--------------------------- MODULE NativeServerRole ---------------------------
(* A native listener becomes a server role (packages/transport-tcp): its      *)
(* schema registry and policy callback, the tickets accept() calls wait with, *)
(* and the close of the role while they wait.  The listener belongs to one    *)
(* caller: it is not closed while it is being adopted.                        *)
CONSTANTS Accepts,   \* calls of NodeServerRole.accept
          Untimed    \* those with timeoutMillis = 0

VARIABLES
  adoption,        \* the adoption of the listener: where it is
  registry,        \* the native schema registry is held
  callback,        \* the policy callback of the role
  native,          \* the listener in the library
  listenerClosed,  \* NodeTransportServer.#closed
  accepts,         \* #accepts: the calls whose ticket is in the table
  accept,          \* the calls
  answer,          \* the status their last wait ended with
  ticket,          \* their tickets in the library
  closed,          \* NodeServerRole.#closed
  roleClosing,         \* its close(): where it is
  refused,         \* history: calls whose ticket the library refused to release
  again            \* history: calls whose ticket was released when it was settled
roleVars == <<adoption, registry, callback, native, listenerClosed, accepts, accept, answer,
          ticket, closed, roleClosing, refused, again>>
adoptionVars == <<adoption, registry, listenerClosed>>
closeVars == <<closed, roleClosing>>

Settled == {"claimed", "released"}

RoleInit ==
  /\ adoption = "none" /\ registry = FALSE /\ callback = "none"
  /\ native = "listening" /\ listenerClosed = FALSE
  /\ accepts = {} /\ accept = [c \in Accepts |-> "idle"]
  /\ answer = [c \in Accepts |-> "none"] /\ ticket = [c \in Accepts |-> "none"]
  /\ closed = FALSE /\ roleClosing = "no" /\ refused = {} /\ again = {}

(* What the release of the tickets of some calls does; the library refuses    *)
(* those in failing.                                                          *)
Release(calls, failing) ==
  /\ ticket' = [c \in Accepts |-> IF c \in calls \ failing /\ ticket[c] # "claimed" THEN "released" ELSE ticket[c]]
  /\ again' = again \cup {c \in calls : ticket[c] \in Settled}
  /\ refused' = refused \cup (calls \cap failing)

-----------------------------------------------------------------------------
(* Creating the registry or installing a descriptor may fail; a registry that *)
(* is incomplete is released again.                                           *)
Adopt ==
  /\ ~listenerClosed /\ adoption = "none"
  /\ \/ adoption' = "failed" /\ UNCHANGED <<registry, callback>>
     \/ adoption' = "binding" /\ registry' = TRUE /\ callback' \in {"none", "registered"}
  /\ UNCHANGED <<native, listenerClosed, accepts, accept, answer, ticket, refused, again, closeVars>>

Unregistered == IF callback = "registered" THEN "unregistered" ELSE callback

BindReturns ==
  /\ adoption = "binding"
  /\ \/ /\ native' = "bound" /\ adoption' = "adopted"
        /\ registry' = FALSE /\ listenerClosed' = TRUE
        /\ UNCHANGED callback
     \/ \* The release of the registry is refused: bound, with no role to show for it.
        /\ native' = "bound" /\ adoption' = "failed"
        /\ UNCHANGED <<registry, listenerClosed, callback>>
     \/ /\ adoption' = "failed" /\ callback' = Unregistered
        /\ registry' \in BOOLEAN
        /\ UNCHANGED <<native, listenerClosed>>
  /\ UNCHANGED <<accepts, accept, answer, ticket, refused, again, closeVars>>

CloseListener ==
  /\ ~listenerClosed /\ adoption # "binding"
  /\ native = "listening"
  /\ native' = "closed" /\ listenerClosed' = TRUE
  /\ UNCHANGED <<adoption, registry, callback, accepts, accept, answer, ticket, refused, again, closeVars>>

-----------------------------------------------------------------------------
Begins(c) ==
  /\ \/ /\ accept' = [accept EXCEPT ![c] = "waiting"]
        /\ ticket' = [ticket EXCEPT ![c] = "begun"]
        /\ accepts' = accepts \cup {c}
     \/ /\ accept' = [accept EXCEPT ![c] = "failed"]
        /\ UNCHANGED <<ticket, accepts>>
  /\ UNCHANGED <<callback, native, answer, refused, again, closeVars, adoptionVars>>

Accept(c) == adoption = "adopted" /\ ~closed /\ accept[c] = "idle" /\ Begins(c)

(* The native wait, on a thread of its own.                                   *)
WaitEnds(c) ==
  /\ accept[c] = "waiting"
  /\ accept' = [accept EXCEPT ![c] = "woken"]
  /\ \/ /\ ticket[c] = "begun" /\ native = "bound"
        /\ ticket' = [ticket EXCEPT ![c] = "ready"]
        /\ answer' = [answer EXCEPT ![c] = "accepted"]
     \/ /\ ticket[c] = "begun"
        /\ answer' = [answer EXCEPT ![c] = "timeout"]
        /\ UNCHANGED ticket
     \/ /\ answer' = [answer EXCEPT ![c] = "error"]
        /\ UNCHANGED ticket
  /\ UNCHANGED <<callback, native, accepts, refused, again, closeVars, adoptionVars>>

PollsAgain(c) ==
  /\ accept[c] = "woken" /\ answer[c] = "timeout" /\ c \in Untimed
  /\ accept' = [accept EXCEPT ![c] = "waiting"]
  /\ UNCHANGED <<callback, native, accepts, answer, ticket, refused, again, closeVars, adoptionVars>>

(* The claimed session's id may be unreadable: then the call fails with it.   *)
Claims(c) ==
  /\ accept[c] = "woken" /\ answer[c] = "accepted" /\ ticket[c] = "ready"
  /\ ticket' = [ticket EXCEPT ![c] = "claimed"]
  /\ accepts' = accepts \ {c}
  /\ \E end \in {"returned", "failed"} : accept' = [accept EXCEPT ![c] = end]
  /\ UNCHANGED <<callback, native, answer, refused, again, closeVars, adoptionVars>>

(* The finally of accept(): a ticket that is still in the table is released.  *)
Fails(c) ==
  /\ accept[c] = "woken" /\ ~(answer[c] = "timeout" /\ c \in Untimed)
  /\ accept' = [accept EXCEPT ![c] = "failed"]
  /\ accepts' = accepts \ {c}
  /\ \E failing \in SUBSET {c} : Release({c} \cap accepts, failing)
  /\ UNCHANGED <<callback, native, answer, closeVars, adoptionVars>>

-----------------------------------------------------------------------------
\* Mutant: close() forgets to clear the table.
CloseRoleUncleared ==
  /\ adoption = "adopted" /\ ~closed
  /\ closed' = TRUE /\ roleClosing' = "closing"
  /\ Release(accepts, {})
  /\ UNCHANGED <<accepts, callback, native, accept, answer, adoptionVars>>

\* Mutant: close() unregisters the callback before the library has closed the server.
CloseRoleDeaf ==
  /\ adoption = "adopted" /\ ~closed
  /\ closed' = TRUE /\ roleClosing' = "closing" /\ accepts' = {}
  /\ callback' = Unregistered
  /\ Release(accepts, {})
  /\ UNCHANGED <<native, accept, answer, adoptionVars>>

(* close(): the first ticket the library refuses to release ends it, for the  *)
(* role counts as closed.  The order of the table is left open.               *)
CloseRole ==
  /\ adoption = "adopted" /\ ~closed
  /\ closed' = TRUE
  /\ \/ /\ Release(accepts, {})
        /\ accepts' = {} /\ roleClosing' = "closing"
     \/ \E c \in accepts : \E before \in SUBSET (accepts \ {c}) :
          /\ Release(before \cup {c}, {c})
          /\ roleClosing' = "failed" /\ UNCHANGED accepts
  /\ UNCHANGED <<callback, native, accept, answer, adoptionVars>>

(* Whatever the library says of the close, the callback goes.                 *)
CloseReturns ==
  /\ roleClosing = "closing"
  /\ \/ native' = "closed" /\ roleClosing' = "closed"
     \/ roleClosing' = "failed" /\ UNCHANGED native
  /\ callback' = Unregistered
  /\ UNCHANGED <<accepts, accept, answer, ticket, closed, refused, again, adoptionVars>>

AcceptStep(c) == Accept(c) \/ WaitEnds(c) \/ PollsAgain(c) \/ Claims(c) \/ Fails(c)

RoleNext ==
  \/ Adopt \/ BindReturns \/ CloseListener \/ CloseRole \/ CloseReturns
  \/ \E c \in Accepts : AcceptStep(c)

RoleSpec == RoleInit /\ [][RoleNext]_roleVars

-----------------------------------------------------------------------------
(* As long as the library refuses no release, no ticket is released that has  *)
(* been claimed or released.                                                  *)
NoneSettlesTwice == refused = {} => again = {}

(* No ticket outlives its call, and none outlives the role, but those the     *)
(* library refused to release; nor does one begin on a closed role.           *)
NoTicketLeft ==
  \A c \in Accepts \ refused :
    accept[c] \in {"returned", "failed"} \/ roleClosing \in {"closing", "closed"}
      => ticket[c] \notin {"begun", "ready"}

(* accept() and close() share the tickets: whatever the order of their steps, *)
(* each ticket is claimed or released, and once.                              *)
TicketsSettleOnce == NoneSettlesTwice /\ NoTicketLeft

(* The library can ask the policy of every server it has bound, until its     *)
(* close has returned; a closed server keeps no callback.                     *)
CallbackLivesWithServer ==
  /\ native = "bound" /\ callback = "unregistered" => roleClosing = "failed"
  /\ roleClosing = "closed" => callback # "registered"
=============================================================================
