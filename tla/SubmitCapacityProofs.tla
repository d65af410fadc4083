------------------------- MODULE SubmitCapacityProofs -------------------------
(***************************************************************************)
(* For every number of submits and all credit windows: no submit sleeps    *)
(* while there is credit, none is missing from the list of waiters, and    *)
(* the credits never fall below zero.                                      *)
(***************************************************************************)
EXTENDS SubmitCapacity, TLAPS

(* NoForgottenWaiter over the positions of the list.                       *)
Listed ==
  /\ \A i, j \in 1 .. Len(waiters) : waiters[i] = waiters[j] => i = j
  /\ \A s \in Submits : submit[s] = "waiting" <=> \E i \in 1 .. Len(waiters) : waiters[i] = s

Starved == waiters # <<>> => credits = 0

IInv == CapacityTypeOK /\ Listed /\ Starved
-----------------------------------------------------------------------------
(* A call that is not waiting joins the end of the list.                   *)
LEMMA JoinKeepsIInv ==
  ASSUME IInv, NEW s \in Submits, submit[s] \in {"idle", "woken"}, credits = 0,
         Goes(s, "waiting"), waiters' = Append(waiters, s), UNCHANGED <<policy, credits, sessionClosed>>
  PROVE  IInv'
<1>1. CapacityTypeOK'
  BY DEF IInv, CapacityTypeOK, Goes
<1>2. /\ Len(waiters') = Len(waiters) + 1
      /\ waiters'[Len(waiters')] = s
      /\ \A i \in 1 .. Len(waiters) : waiters'[i] = waiters[i]
  BY DEF IInv, CapacityTypeOK
<1>3. \A i \in 1 .. Len(waiters) : waiters[i] # s
  BY DEF IInv, Listed
<1>4. \A t \in Submits : submit'[t] = IF t = s THEN "waiting" ELSE submit[t]
  BY DEF IInv, CapacityTypeOK, Goes
<1>5. Listed'
  <2>0. Len(waiters) \in Nat BY DEF IInv, CapacityTypeOK
  <2>1. \A i, j \in 1 .. Len(waiters') : waiters'[i] = waiters'[j] => i = j
    BY <2>0, <1>2, <1>3 DEF IInv, Listed
  <2>2. ASSUME NEW t \in Submits
        PROVE  submit'[t] = "waiting" <=> \E i \in 1 .. Len(waiters') : waiters'[i] = t
    <3>1. CASE t = s BY <3>1, <2>0, <1>2, <1>4
    <3>2. CASE t # s BY <3>2, <2>0, <1>2, <1>4 DEF IInv, Listed
    <3> QED BY <3>1, <3>2
  <2> QED BY <2>1, <2>2 DEF Listed
<1>6. Starved'
  BY DEF Starved
<1> QED BY <1>1, <1>5, <1>6 DEF IInv

(* A waiting call leaves the list from wherever it stands.                 *)
LEMMA LeaveKeepsIInv ==
  ASSUME IInv, NEW s \in Submits, Expire(s)
  PROVE  IInv'
<1> PICK k \in DOMAIN waiters : waiters[k] = s /\ waiters' = RemoveAt(waiters, k)
  BY DEF Expire
<1> DEFINE n == Len(waiters)
<1>0. n \in Nat /\ k \in 1 .. n /\ waiters \in Seq(Submits)
  BY DEF IInv, CapacityTypeOK
<1>1. /\ waiters' \in Seq(Submits)
      /\ Len(waiters') = n - 1
      /\ \A i \in 1 .. n - 1 : waiters'[i] = IF i < k THEN waiters[i] ELSE waiters[i + 1]
  <2> DEFINE front == SubSeq(waiters, 1, k - 1)
             back == SubSeq(waiters, k + 1, n)
  <2>1. front \in Seq(Submits) /\ Len(front) = k - 1 /\ \A i \in 1 .. k - 1 : front[i] = waiters[i]
    BY <1>0
  <2>2. back \in Seq(Submits) /\ Len(back) = n - k /\ \A i \in 1 .. n - k : back[i] = waiters[i + k]
    BY <1>0
  <2>3. waiters' = front \o back
    BY DEF RemoveAt
  <2> HIDE DEF front, back
  <2>4. /\ front \o back \in Seq(Submits)
        /\ Len(front \o back) = n - 1
        /\ \A i \in 1 .. n - 1 : (front \o back)[i] = IF i < k THEN front[i] ELSE back[i - (k - 1)]
    BY <1>0, <2>1, <2>2
  <2>5. ASSUME NEW i \in 1 .. n - 1
        PROVE  waiters'[i] = IF i < k THEN waiters[i] ELSE waiters[i + 1]
    <3>1. CASE i < k
      BY <3>1, <1>0, <2>1, <2>3, <2>4
    <3>2. CASE i >= k
      <4>1. i - (k - 1) \in 1 .. n - k /\ i - (k - 1) + k = i + 1
        BY <3>2, <1>0
      <4>2. waiters'[i] = back[i - (k - 1)]
        BY <3>2, <1>0, <2>3, <2>4
      <4>3. back[i - (k - 1)] = waiters[i - (k - 1) + k]
        BY <4>1, <2>2
      <4> QED BY <3>2, <4>1, <4>2, <4>3, <1>0
    <3> QED BY <3>1, <3>2, <1>0
  <2> QED BY <2>3, <2>4, <2>5
<1>2. \A t \in Submits : submit'[t] = IF t = s THEN "refused" ELSE submit[t]
  BY DEF IInv, CapacityTypeOK, Expire, Goes
<1>3. CapacityTypeOK'
  BY <1>1 DEF IInv, CapacityTypeOK, Expire, Goes
<1>4. \A i, j \in 1 .. Len(waiters') : waiters'[i] = waiters'[j] => i = j
  BY <1>0, <1>1 DEF IInv, Listed
<1>5. ASSUME NEW t \in Submits
      PROVE  submit'[t] = "waiting" <=> \E i \in 1 .. Len(waiters') : waiters'[i] = t
  <2>1. CASE t = s
    <3>1. \A i \in 1 .. n - 1 : waiters'[i] # s
      BY <1>0, <1>1 DEF IInv, Listed
    <3> QED BY <2>1, <3>1, <1>1, <1>2
  <2>2. CASE t # s
    <3>1. ASSUME NEW i \in 1 .. n, waiters[i] = t
          PROVE  \E j \in 1 .. n - 1 : waiters'[j] = t
      <4>1. i # k BY <3>1, <2>2
      <4>2. CASE i < k BY <4>2, <3>1, <1>0, <1>1
      <4>3. CASE i > k
        <5>1. i - 1 \in 1 .. n - 1 /\ ~(i - 1 < k) /\ (i - 1) + 1 = i BY <4>3, <1>0
        <5> QED BY <5>1, <3>1, <1>1
      <4> QED BY <4>1, <4>2, <4>3, <1>0
    <3>2. ASSUME NEW j \in 1 .. n - 1, waiters'[j] = t
          PROVE  \E i \in 1 .. n : waiters[i] = t
      BY <3>2, <1>0, <1>1
    <3> QED BY <2>2, <3>1, <3>2, <1>1, <1>2 DEF IInv, Listed
  <2> QED BY <2>1, <2>2
<1>6. waiters # <<>> /\ credits' = credits
  BY <1>0 DEF Expire
<1>7. Starved'
  BY <1>6 DEF IInv, Starved
<1> QED BY <1>3, <1>4, <1>5, <1>7 DEF IInv, Listed

(* Draining leaves nobody in the list and nobody waiting.                  *)
LEMMA DrainKeepsIInv ==
  ASSUME IInv, Drain, credits' \in Nat, policy' \in {"reject", "await"}, sessionClosed' \in BOOLEAN
  PROVE  IInv'
<1>1. \A s \in Submits : submit'[s] # "waiting"
  BY DEF IInv, CapacityTypeOK, Listed, Drain, ToSet
<1>2. waiters' = <<>> /\ Len(waiters') = 0
  BY DEF Drain
<1>3. CapacityTypeOK'
  BY <1>2 DEF IInv, CapacityTypeOK, Drain
<1> QED BY <1>1, <1>2, <1>3 DEF IInv, Listed, Starved

(* Every other step of a call leaves the list alone and lowers the credits *)
(* only where there are some.                                              *)
LEMMA MoveKeepsIInv ==
  ASSUME IInv, NEW s \in Submits, submit[s] # "waiting",
         NEW to \in {"reserved", "preparing", "dispatched", "refused"}, Goes(s, to),
         UNCHANGED <<policy, waiters, sessionClosed>>, (credits > 0 /\ Reserve) \/ UNCHANGED credits
  PROVE  IInv'
<1>1. \A t \in Submits : submit'[t] = IF t = s THEN to ELSE submit[t]
  BY DEF IInv, CapacityTypeOK, Goes
<1>2. credits' \in Nat /\ (waiters # <<>> => credits' = 0)
  BY DEF IInv, CapacityTypeOK, Starved, Reserve
<1>3. CapacityTypeOK'
  BY <1>2 DEF IInv, CapacityTypeOK, Goes
<1>4. Listed' /\ Starved'
  BY <1>1, <1>2 DEF IInv, Listed, Starved
<1> QED BY <1>3, <1>4 DEF IInv

LEMMA NextKeepsIInv ==
  ASSUME IInv, [CapacityNext]_capacityVars
  PROVE  IInv'
<1>1. ASSUME NEW s \in Submits, SubmitOrWait(s) PROVE IInv'
  <2>0. submit[s] = "idle" /\ UNCHANGED <<policy, sessionClosed>> BY <1>1 DEF SubmitOrWait
  <2>1. CASE Proceeds(s) /\ UNCHANGED waiters /\ ((credits > 0 /\ Reserve) \/ UNCHANGED credits)
    BY <2>0, <2>1, MoveKeepsIInv DEF Proceeds
  <2>2. CASE credits = 0 /\ Goes(s, "waiting") /\ waiters' = Append(waiters, s) /\ UNCHANGED credits
    BY <2>0, <2>2, JoinKeepsIInv
  <2>3. CASE Goes(s, "refused") /\ UNCHANGED <<credits, waiters>>
    BY <2>0, <2>3, MoveKeepsIInv
  <2> QED BY <1>1, <2>1, <2>2, <2>3 DEF SubmitOrWait
<1>2. ASSUME NEW s \in Submits, SubmitNoWait(s) PROVE IInv'
  BY <1>2, MoveKeepsIInv DEF SubmitNoWait, Proceeds
<1>3. ASSUME NEW s \in Submits, Goon(s) PROVE IInv'
  <2>1. CASE Resume(s)
    <3>0. submit[s] = "woken" /\ UNCHANGED <<policy, sessionClosed>> BY <2>1 DEF Resume
    <3>1. CASE credits = 0 /\ Goes(s, "waiting") /\ waiters' = Append(waiters, s) /\ UNCHANGED credits
      BY <3>0, <3>1, JoinKeepsIInv
    <3>2. CASE /\ Goes(s, "reserved") \/ Goes(s, "refused")
               /\ UNCHANGED waiters
               /\ (credits > 0 /\ Reserve) \/ UNCHANGED credits
      BY <3>0, <3>2, MoveKeepsIInv
    <3> QED BY <2>1, <3>1, <3>2 DEF Resume
  <2>2. CASE Continue(s) BY <2>2, MoveKeepsIInv DEF Continue, Proceeds
  <2>3. CASE DeadlineSent(s) BY <2>3, MoveKeepsIInv DEF DeadlineSent
  <2> QED BY <1>3, <2>1, <2>2, <2>3 DEF Goon
<1>4. ASSUME NEW s \in Submits, Expire(s) PROVE IInv'
  BY <1>4, LeaveKeepsIInv
<1>5. CASE CreditUpdate
  BY <1>5, DrainKeepsIInv, WindowAssumption DEF CreditUpdate, IInv, CapacityTypeOK
<1>6. CASE PeerCloses
  BY <1>6, DrainKeepsIInv DEF PeerCloses, IInv, CapacityTypeOK
<1>7. CASE Patched
  <2>1. CASE \E w \in Windows : credits' = w /\ Drain
    BY <1>7, <2>1, DrainKeepsIInv, WindowAssumption DEF Patched, IInv, CapacityTypeOK
  <2>2. CASE UNCHANGED <<credits, waiters, submit>>
    BY <1>7, <2>2 DEF Patched, IInv, CapacityTypeOK, Listed, Starved
  <2> QED BY <1>7, <2>1, <2>2 DEF Patched
<1>8. CASE CloseAndWake
  BY <1>8, DrainKeepsIInv DEF CloseAndWake, IInv, CapacityTypeOK
<1>9. CASE UNCHANGED capacityVars
  BY <1>9 DEF capacityVars, IInv, CapacityTypeOK, Listed, Starved
<1> QED BY <1>1, <1>2, <1>3, <1>4, <1>5, <1>6, <1>7, <1>8, <1>9 DEF CapacityNext

(* The invariant over positions is the one the runs check.                 *)
LEMMA IInvImplies == IInv => NoForgottenWaiter
<1> SUFFICES ASSUME IInv PROVE NoForgottenWaiter
  OBVIOUS
<1>1. DOMAIN waiters = 1 .. Len(waiters) /\ \A i \in 1 .. Len(waiters) : waiters[i] \in Submits
  BY DEF IInv, CapacityTypeOK
<1>2. ToSet(waiters) = {s \in Submits : submit[s] = "waiting"}
  BY <1>1 DEF IInv, Listed, ToSet
<1>3. IsInjective(waiters)
  BY <1>1 DEF IInv, Listed, IsInjective
<1> QED BY <1>2, <1>3 DEF IInv, Starved, NoForgottenWaiter
-----------------------------------------------------------------------------
(* Every execution keeps the inductive invariant.                          *)
THEOREM CapacityInvariance == CapacitySpec => []IInv
<1>1. CapacityInit => IInv
  <2> SUFFICES ASSUME CapacityInit PROVE IInv
    OBVIOUS
  <2>1. waiters = <<>> /\ Len(waiters) = 0 /\ \A s \in Submits : submit[s] = "idle"
    BY DEF CapacityInit
  <2>2. CapacityTypeOK
    <3>1. waiters \in Seq(Submits)
      BY <2>1
    <3>2. credits \in Nat
      BY UnlimitedAssumption DEF CapacityInit
    <3> QED BY <3>1, <3>2 DEF CapacityInit, CapacityTypeOK
  <2>3. Listed /\ Starved
    BY <2>1 DEF Listed, Starved
  <2> QED BY <2>2, <2>3 DEF IInv
<1>2. IInv /\ [CapacityNext]_capacityVars => IInv'
  BY NextKeepsIInv
<1> QED BY <1>1, <1>2, PTL DEF CapacitySpec

(* The credits stay a natural number: no race of submits overspends them.  *)
THEOREM CapacityType == CapacitySpec => []CapacityTypeOK
<1>1. IInv => CapacityTypeOK
  BY DEF IInv
<1> QED BY <1>1, CapacityInvariance, PTL

(* No submit waits while there is credit, or outside #capacityWaiters.     *)
THEOREM NoForgottenWaiterTheorem == CapacitySpec => []NoForgottenWaiter
<1> QED BY IInvImplies, CapacityInvariance, PTL
=============================================================================
