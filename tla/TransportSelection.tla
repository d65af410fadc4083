-------------------------- MODULE TransportSelection --------------------------
(* selectTransport of packages/core: from descriptors of the installed       *)
(* providers and evidence about them (readiness, probe observations) to one  *)
(* provider and a diagnosis of the others.                                   *)
(*                                                                           *)
(* A provider is [kind, id, available, model, units, rank, limit], a policy  *)
(* is [mode, kind], a readiness record [kind, id, route, security] and an    *)
(* observation [kind, id, state, metrics].  Ids are numbers in the order of  *)
(* the bytes of the source's strings.                                        *)
EXTENDS Integers, SequencesExt

Kinds == {"quic", "tcp", "ipc", "websocket"}

transportNumericId == [quic |-> 1, tcp |-> 2, ipc |-> 3, websocket |-> 4]

NoMetrics == [successCount |-> 0, throughput |-> 0, rtt |-> 0]

Auto == [mode |-> "auto", kind |-> "none"]

Key(x) == <<x.kind, x.id>>
Keys(s) == {Key(s[i]) : i \in DOMAIN s}
EachOnce(s, f(_)) == \A i, j \in DOMAIN s : f(s[i]) = f(s[j]) => i = j

(* No kind and no id twice; one readiness record for each provider; at most  *)
(* one observation, with metrics exactly when it succeeded.                  *)
ValidEvidence(providers, options) ==
  /\ EachOnce(providers, LAMBDA p : p.kind) /\ EachOnce(providers, LAMBDA p : p.id)
  /\ EachOnce(options.readiness, Key) /\ Keys(options.readiness) = Keys(providers)
  /\ EachOnce(options.observations, Key) /\ Keys(options.observations) \subseteq Keys(providers)
  /\ \A i \in DOMAIN options.observations :
       LET o == options.observations[i] IN (o.state = "succeeded") = (o.metrics # NoMetrics)

(* createTransportCandidates: what is known of one provider.                 *)
Candidate(provider, options) ==
  LET ready == CHOOSE r \in ToSet(options.readiness) : Key(r) = Key(provider)
      observed == {o \in ToSet(options.observations) : Key(o) = Key(provider)}
      observation == IF observed = {} THEN [state |-> "not-run", metrics |-> NoMetrics]
                     ELSE CHOOSE o \in observed : TRUE
  IN  [provider |-> provider,
       peerSupported |-> provider.kind \in options.peerSupportedTransports,
       withinLimits |-> options.requestedMaxFrameBytes <= provider.limit,
       routeResolved |-> ready.route, securitySatisfied |-> ready.security,
       probeState |-> observation.state, probe |-> observation.metrics,
       rejectionReason |-> "none"]

(* transportRejectionReason: the first reason that applies.                  *)
RejectionReason(c, policy) ==
  LET Reason(holds, name) == IF holds THEN <<name>> ELSE <<>>
      reasons == Reason(policy.mode = "force" /\ c.provider.kind # policy.kind, "policy-disallowed")
                   \o Reason(~c.provider.available, "local-unavailable")
                   \o Reason(~c.peerSupported, "peer-unsupported")
                   \o Reason(~c.withinLimits, "limit-exceeded")
                   \o Reason(~c.routeResolved, "route-unresolved")
                   \o Reason(~c.securitySatisfied, "security-unsatisfied")
  IN  Append(reasons, "none")[1]

(* compareTransportCandidates: negative when left goes first.                *)
CostDifference(l, r) == IF l.model # 0 /\ l.model = r.model THEN l.units - r.units ELSE 0

PreferenceDifference(l, r, policy) ==
  (IF r.kind = policy.kind THEN 1 ELSE 0) - (IF l.kind = policy.kind THEN 1 ELSE 0)

(* Mutant: nothing decides between candidates of the same rank.              *)
CriteriaUndecided(left, right, policy) ==
  <<right.probe.successCount - left.probe.successCount,
    right.probe.throughput - left.probe.throughput,
    left.probe.rtt - right.probe.rtt,
    CostDifference(left.provider, right.provider),
    PreferenceDifference(left.provider, right.provider, policy),
    left.provider.rank - right.provider.rank>>

Criteria(left, right, policy) ==
  LET l == left.provider
      r == right.provider
  IN  <<right.probe.successCount - left.probe.successCount,
        right.probe.throughput - left.probe.throughput,
        left.probe.rtt - right.probe.rtt,
        CostDifference(l, r),
        PreferenceDifference(l, r, policy),
        l.rank - r.rank,
        transportNumericId[l.kind] - transportNumericId[r.kind],
        l.id - r.id>>

GoesBefore(left, right, policy) ==
  LET differences == Criteria(left, right, policy)
  IN  \E i \in DOMAIN differences : differences[i] < 0 /\ \A j \in 1..(i - 1) : differences[j] = 0

(* Array.prototype.sort: when the comparison is not an order, which one of   *)
(* the arrangements comes out is up to the engine; neighbours have been      *)
(* compared with each other.                                                 *)
Arrangements(candidates, policy) ==
  {s \in SetToSeqs(candidates) : \A i \in 1..(Len(s) - 1) : ~GoesBefore(s[i + 1], s[i], policy)}

RejectedBefore(l, r) ==
  \/ transportNumericId[l.provider.kind] < transportNumericId[r.provider.kind]
  \/ l.provider.kind = r.provider.kind /\ l.provider.id < r.provider.id

(* A measured choice among several, the only one unmeasured, or none.        *)
Several(S) == \E x, y \in S : x # y

Orders(eligible, policy) ==
  IF Several(eligible)
  THEN Arrangements({c \in eligible : c.probeState = "succeeded"}, policy)
  ELSE SetToSeqs({[c EXCEPT !.probeState = "not-run", !.probe = NoMetrics] : c \in eligible})

(* Those without an order get their reason: an eligible one lacks a probe.   *)
Explained(c) ==
  IF c.rejectionReason # "none" THEN c
  ELSE LET state == IF c.probeState = "failed" THEN "failed" ELSE "missing"
       IN  [c EXCEPT !.probeState = state,
                     !.rejectionReason = IF state = "failed" THEN "probe-failed" ELSE "probe-missing"]

Rejections(evaluated, order) ==
  LET chosen == {Key(order[i].provider) : i \in DOMAIN order}
      left == {Explained(c) : c \in {d \in evaluated : Key(d.provider) \notin chosen}}
  IN  {s \in SetToSeqs(left) : \A i \in 1..(Len(s) - 1) : RejectedBefore(s[i], s[i + 1])}

(* selectTransport and transportSelectionError: every outcome it may have.   *)
Selections(providers, options) ==
  IF ~ValidEvidence(providers, options) THEN {[code |-> "INVALID_EVIDENCE", order |-> <<>>, rejected |-> <<>>, policy |-> options.policy]}
  ELSE
    LET candidates == {Candidate(p, options) : p \in ToSet(providers)}
        evaluated == {[c EXCEPT !.rejectionReason = RejectionReason(c, options.policy)] : c \in candidates}
        eligible == {c \in evaluated : c.rejectionReason = "none"}
        Code(order) == IF order # <<>> THEN "selected"
                       ELSE IF options.policy.mode = "force" THEN "FORCED_TRANSPORT_UNAVAILABLE"
                       ELSE "NO_VIABLE_TRANSPORT"
    IN  UNION {{[code |-> Code(order), order |-> order, rejected |-> rejected, policy |-> options.policy] :
                  rejected \in Rejections(evaluated, order)} :
                order \in Orders(eligible, options.policy)}
=============================================================================
