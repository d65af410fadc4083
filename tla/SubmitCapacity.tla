---------------------------- MODULE SubmitCapacity ----------------------------
(***************************************************************************)
(* Flow-control credits of a native client session: how submit() and       *)
(* submitNoWait() reserve a credit before they dispatch, and how submits   *)
(* wait for one under the submit capacity policy "await".                  *)
(*                                                                         *)
(* A submit that finds no credit enters #capacityWaiters.  A flow update,  *)
(* a credit update, a patch or a close wakes every waiter at once; each    *)
(* looks at the credits again when its continuation runs, some microtasks  *)
(* later, and other code of the application may run in between.            *)
(***************************************************************************)
EXTENDS Integers, Sequences, SequencesExt

CONSTANTS
  Submits,    \* calls of submit() and submitNoWait()
  Windows,    \* credit windows a peer or a patch may grant
  Unlimited   \* Number.POSITIVE_INFINITY, which a reservation does not lower

ASSUME WindowAssumption == Windows \subseteq Nat
ASSUME UnlimitedAssumption == Unlimited \in Nat \ {0} /\ \A w \in Windows : w < Unlimited

VARIABLES
  policy,        \* #submitCapacityPolicy
  credits,       \* #availableCredits
  waiters,       \* #capacityWaiters
  submit,        \* progress of each call
  sessionClosed  \* #closed

capacityVars == <<policy, credits, waiters, submit, sessionClosed>>

CapacityTypeOK ==
  /\ policy \in {"reject", "await"}
  /\ credits \in Nat
  /\ waiters \in Seq(Submits)
  /\ submit \in [Submits -> {"idle", "waiting", "woken", "reserved", "preparing", "dispatched", "refused"}]
  /\ sessionClosed \in BOOLEAN

CapacityInit ==
  /\ policy = "reject"
  /\ credits = Unlimited
  /\ waiters = <<>>
  /\ submit = [s \in Submits |-> "idle"]
  /\ sessionClosed = FALSE
-----------------------------------------------------------------------------
Goes(s, to) == submit' = [submit EXCEPT ![s] = to]

Reserve == credits' = IF credits = Unlimited THEN credits ELSE credits - 1

(* The synchronous rest of a submit that has its credit: the request may   *)
(* be refused, the Deadline of a timed one is sent before it is dispatched. *)
Proceeds(s) == \E to \in {"refused", "preparing", "dispatched"} : Goes(s, to)

(* submit(): without a credit it waits, unless its signal has aborted.     *)
SubmitOrWait(s) ==
  /\ submit[s] = "idle"
  /\ ~sessionClosed
  /\ \/ policy = "reject" /\ Proceeds(s) /\ UNCHANGED <<credits, waiters>>
     \/ policy = "await" /\ credits > 0 /\ Reserve /\ Proceeds(s) /\ UNCHANGED waiters
     \/ /\ policy = "await" /\ credits = 0
        /\ \/ Goes(s, "waiting") /\ waiters' = Append(waiters, s)
           \/ Goes(s, "refused") /\ UNCHANGED waiters
        /\ UNCHANGED credits
  /\ UNCHANGED <<policy, sessionClosed>>

(* submitNoWait(): without a credit it is refused.                         *)
SubmitNoWait(s) ==
  /\ submit[s] = "idle"
  /\ ~sessionClosed
  /\ \/ policy = "reject" /\ Proceeds(s) /\ UNCHANGED credits
     \/ policy = "await" /\ credits > 0 /\ Reserve /\ Proceeds(s)
     \/ policy = "await" /\ credits = 0 /\ Goes(s, "refused") /\ UNCHANGED credits
  /\ UNCHANGED <<policy, waiters, sessionClosed>>

(* The continuation of a woken waiter: the loop of #awaitSubmitCapacity.   *)
Resume(s) ==
  /\ submit[s] = "woken"
  /\ \/ credits > 0 /\ Reserve /\ Goes(s, "reserved") /\ UNCHANGED waiters
     \/ credits = 0 /\ ~sessionClosed /\ Goes(s, "waiting") /\ waiters' = Append(waiters, s) /\ UNCHANGED credits
     \/ credits = 0 /\ Goes(s, "refused") /\ UNCHANGED <<credits, waiters>>
  /\ UNCHANGED <<policy, sessionClosed>>

(* The continuation of submit() after the wait.                            *)
Continue(s) ==
  /\ submit[s] = "reserved"
  /\ Proceeds(s)
  /\ UNCHANGED <<policy, credits, waiters, sessionClosed>>

(* The Deadline has been sent, or has failed, or the time is up.           *)
DeadlineSent(s) ==
  /\ submit[s] = "preparing"
  /\ \E to \in {"refused", "dispatched"} : Goes(s, to)
  /\ UNCHANGED <<policy, credits, waiters, sessionClosed>>

(* A waiting submit times out or is aborted.                               *)
Expire(s) ==
  /\ submit[s] = "waiting"
  /\ Goes(s, "refused")
  /\ \E i \in DOMAIN waiters : waiters[i] = s /\ waiters' = RemoveAt(waiters, i)
  /\ UNCHANGED <<policy, credits, sessionClosed>>
-----------------------------------------------------------------------------
(* Mutant: one waiter is woken, however many credits there are.            *)
DrainOne ==
  /\ waiters' = IF waiters = <<>> THEN waiters ELSE Tail(waiters)
  /\ submit' = [s \in Submits |-> IF waiters # <<>> /\ s = Head(waiters) THEN "woken" ELSE submit[s]]

(* #drainCapacityWaiters                                                   *)
Drain ==
  /\ waiters' = <<>>
  /\ submit' = [s \in Submits |-> IF s \in ToSet(waiters) THEN "woken" ELSE submit[s]]

(* completeEvent for a flow update or a credit update; a closed session    *)
(* still takes one that a poll has under way.                              *)
CreditUpdate ==
  /\ \E w \in Windows : credits' = w
  /\ Drain
  /\ UNCHANGED <<policy, sessionClosed>>

(* completeEvent for a SessionClose of the peer.                           *)
PeerCloses == Drain /\ UNCHANGED <<policy, credits, sessionClosed>>

(* The end of patch(): the policy follows an accepted patch, the credits   *)
(* follow any patch.                                                       *)
Patched ==
  /\ policy' \in {"reject", "await"}
  /\ \/ \E w \in Windows : credits' = w /\ Drain
     \/ UNCHANGED <<credits, waiters, submit>>
  /\ UNCHANGED sessionClosed

(* Mutant: the waiters of a closed session are left alone.                 *)
CloseSilently == ~sessionClosed /\ sessionClosed' = TRUE /\ UNCHANGED <<policy, credits, waiters, submit>>

(* close: the waiters are woken to find the session closed.                *)
CloseAndWake ==
  /\ ~sessionClosed
  /\ sessionClosed' = TRUE
  /\ Drain
  /\ UNCHANGED <<policy, credits>>
-----------------------------------------------------------------------------
Goon(s) == Resume(s) \/ Continue(s) \/ DeadlineSent(s)

CapacityNext ==
  \/ \E s \in Submits : SubmitOrWait(s) \/ SubmitNoWait(s) \/ Goon(s) \/ Expire(s)
  \/ CreditUpdate
  \/ PeerCloses
  \/ Patched
  \/ CloseAndWake

(* Continuations run and the Deadline's send settles; nothing obliges the  *)
(* peer to grant credits or a timeout to be set.                           *)
CapacityFairness == \A s \in Submits : WF_capacityVars(Goon(s))

CapacitySpec == CapacityInit /\ [][CapacityNext]_capacityVars
FairCapacitySpec == CapacitySpec /\ CapacityFairness
-----------------------------------------------------------------------------
(* No submit sleeps while there is credit for it: whoever waits is in the  *)
(* list that the next update wakes, once, and there is no credit left.     *)
NoForgottenWaiter ==
  /\ ToSet(waiters) = {s \in Submits : submit[s] = "waiting"}
  /\ IsInjective(waiters)
  /\ waiters # <<>> => credits = 0

(* A close leaves no submit waiting for credits that will not come.        *)
CloseEndsWaiting ==
  sessionClosed ~> \A s \in Submits : submit[s] \notin {"waiting", "woken", "reserved"}
=============================================================================
