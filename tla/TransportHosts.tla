---------------------------- MODULE TransportHosts ----------------------------
(* How a native host gets from its configuration to carriers: a client       *)
(* resolves a route for every installed provider, probes those that may be   *)
(* used, selects one and adopts its connection; a server opens a listener    *)
(* for every route, all or none; an application calls selectTransport with   *)
(* evidence of its own.                                                      *)
(*                                                                           *)
(* A configuration is [role, providers, routes, secure, policy]; the routes  *)
(* map a kind to [endpoint, security], where the endpoint is "none", "good", *)
(* "secure" (a wss:// one) or "bad".                                         *)
EXTENDS TransportSelection

CONSTANTS
  Configurations,   \* what a host may be set up with
  Questions,        \* what an application may ask selectTransport
  Metrics,          \* what a probe may measure
  Connects,         \* the connect() calls of a client
  None

VARIABLES
  host,             \* the configuration
  call,             \* connect(): where it is
  probes,           \*   what its probes have found
  outcome,          \*   what it (or the application) has been answered
  carrier,          \*   its native connection
  roleConnection,   \* NnrpBackendRuntime.#roleConnection of the client
  closing,          \* close() of the runtime or of the server: where it is
  opening,          \* listenServerRoles: where it is, or how it ended
  listener          \* the native listener of each kind
vars == <<host, call, probes, outcome, carrier, roleConnection, closing, opening, listener>>
clientVars == <<call, probes, outcome, carrier, roleConnection>>
serverVars == <<opening, listener>>

Unanswered == [code |-> "unanswered"]
Failed == [state |-> "failed", metrics |-> NoMetrics]
Running == [state |-> "running", metrics |-> NoMetrics]

NoRoute == [endpoint |-> "none", security |-> FALSE]
Route(kind) == IF kind \in DOMAIN host.routes THEN host.routes[kind] ELSE NoRoute

(* TCP and QUIC derive an endpoint from the application's, the others need   *)
(* one of their own.                                                         *)
EndpointResolves(kind) ==
  LET endpoint == Route(kind).endpoint
  IN  endpoint # "bad" /\ (kind \in {"ipc", "websocket"} => endpoint # "none")

SecuritySatisfied(kind) ==
  LET security == Route(kind).security
      wss == Route(kind).endpoint = "secure"
  IN  CASE kind = "tcp" -> host.secure => security
        [] kind = "quic" -> security
        [] kind = "ipc" -> ~host.secure /\ ~security
        [] kind = "websocket" -> (host.secure => wss) /\ wss = security

(* resolveClientProviderRoute: the security is looked at only when the       *)
(* endpoint resolves.                                                        *)
RouteReady(kind) == EndpointResolves(kind)
SecurityReady(kind) == EndpointResolves(kind) => SecuritySatisfied(kind)

Installed == {host.providers[i].kind : i \in DOMAIN host.providers}
Available == {host.providers[i].kind : i \in {j \in DOMAIN host.providers : host.providers[j].available}}

PeerSupportedKinds == {"tcp", "quic"} \cup DOMAIN host.routes

Allowed(kind) == host.policy.mode = "force" => kind = host.policy.kind

(* Mutant: the routes that are derived from the endpoint are forgotten.      *)
ProbeTargetsListed ==
  {k \in Available \cap DOMAIN host.routes : EndpointResolves(k) /\ SecuritySatisfied(k) /\ Allowed(k)}

ProbeTargets ==
  {k \in Available \cap PeerSupportedKinds : EndpointResolves(k) /\ SecuritySatisfied(k) /\ Allowed(k)}

(* uninstalledProviderObservation: a route whose provider is not installed.  *)
Uninstalled(kind) ==
  [kind |-> kind, id |-> 100 + transportNumericId[kind], available |-> FALSE, model |-> 0, units |-> 0, rank |-> 65535,
   limit |-> 1]

ClientDescriptors == host.providers \o SetToSeq({Uninstalled(k) : k \in DOMAIN host.routes \ Installed})

(* What selectClientProvider hands to selectTransport.                       *)
ClientEvidence(k) ==
  [policy |-> host.policy, peerSupportedTransports |-> PeerSupportedKinds, requestedMaxFrameBytes |-> 0,
   readiness |-> [i \in DOMAIN ClientDescriptors |->
                    LET d == ClientDescriptors[i]
                    IN  [kind |-> d.kind, id |-> d.id,
                         route |-> d.kind \in Installed => RouteReady(d.kind),
                         security |-> d.kind \in Installed => SecurityReady(d.kind)]],
   observations |-> SetToSeq({[kind |-> d.kind, id |-> d.id, state |-> probes[k][d.kind].state,
                               metrics |-> probes[k][d.kind].metrics] :
                               d \in {e \in ToSet(host.providers) : e.kind \in DOMAIN probes[k]}})]

Init ==
  /\ host \in Configurations
  /\ call = [k \in Connects |-> "idle"]
  /\ probes = [k \in Connects |-> <<>>]
  /\ outcome = [k \in Connects |-> Unanswered]
  /\ carrier = [k \in Connects |-> "none"]
  /\ roleConnection = None
  /\ closing = "open"
  /\ opening = "idle"
  /\ listener = [k \in Kinds |-> "none"]

(* What a host is set up with: one provider of a kind, one of an id, and no  *)
(* id of an uninstalled one (validateTransportProvidersForPolicy refuses the *)
(* first, selectTransport both).                                             *)
WellFormed(c) ==
  /\ c.providers \in Seq(ToSet(c.providers))
  /\ \A i, j \in DOMAIN c.providers :
       c.providers[i].kind = c.providers[j].kind \/ c.providers[i].id = c.providers[j].id => i = j
  /\ \A p \in ToSet(c.providers) : p.kind \in Kinds /\ p.id \in 1..100 /\ p.units \in Nat /\ p.rank \in Nat
  /\ DOMAIN c.routes \subseteq Kinds

(* What a probe measures, nothing at all included.                           *)
Measures == [successCount : Nat, throughput : Nat, rtt : Nat]

------------------------------------------------------------------------------
(* An application's own call.                                                *)
Ask(k) ==
  /\ host.role = "application" /\ outcome[k] = Unanswered
  /\ \E options \in Questions : \E answer \in Selections(host.providers, options) :
       outcome' = [outcome EXCEPT ![k] = answer]
  /\ UNCHANGED <<host, call, probes, carrier, roleConnection, closing>> /\ UNCHANGED serverVars

------------------------------------------------------------------------------
(* NnrpBackendRuntime.connect of a client and connectClientRole.             *)
Goes(k, state) == call' = [call EXCEPT ![k] = state]

ClientStays == UNCHANGED <<host, closing>> /\ UNCHANGED serverVars

(* The synchronous part.  With several targets every one of them is probed.  *)
Connect(k) ==
  /\ host.role = "client" /\ call[k] = "idle" /\ closing = "open"
  /\ IF host.providers = <<>> \/ (host.policy.mode = "force" /\ host.policy.kind \notin Installed)
     THEN Goes(k, "failed") /\ UNCHANGED probes
     ELSE /\ Goes(k, "probing")
          /\ probes' = [probes EXCEPT ![k] =
               IF Several(ProbeTargets) THEN [t \in ProbeTargets |-> Running] ELSE <<>>]
  /\ UNCHANGED <<outcome, carrier, roleConnection>> /\ ClientStays

ProbeSettles(k, kind) ==
  /\ kind \in DOMAIN probes[k] /\ probes[k][kind] = Running
  /\ \E found \in {Failed} \cup {[state |-> "succeeded", metrics |-> m] : m \in Metrics} :
       probes' = [probes EXCEPT ![k][kind] = found]
  /\ UNCHANGED <<call, outcome, carrier, roleConnection>> /\ ClientStays

(* After the last probe: selectTransport, then the provider's connect.       *)
Select(k) ==
  /\ call[k] = "probing" /\ \A kind \in DOMAIN probes[k] : probes[k][kind] # Running
  /\ \E answer \in Selections(ClientDescriptors, ClientEvidence(k)) :
       /\ outcome' = [outcome EXCEPT ![k] = answer]
       /\ Goes(k, IF answer.code = "selected" THEN "connecting" ELSE "failed")
  /\ UNCHANGED <<probes, carrier, roleConnection>> /\ ClientStays

CarrierOpens(k) ==
  /\ call[k] = "connecting"
  /\ Goes(k, "adopting")
  /\ carrier' = [carrier EXCEPT ![k] = "open"]
  /\ UNCHANGED <<probes, outcome, roleConnection>> /\ ClientStays

CarrierFails(k) ==
  /\ call[k] = "connecting"
  /\ Goes(k, "failed")
  /\ UNCHANGED <<probes, outcome, carrier, roleConnection>> /\ ClientStays

(* The adoption; when there is none or it fails the carrier is closed.       *)
Adopts(k) ==
  /\ call[k] = "adopting"
  /\ Goes(k, "connected")
  /\ carrier' = [carrier EXCEPT ![k] = "adopted"]
  /\ roleConnection' = k
  /\ UNCHANGED <<probes, outcome>> /\ ClientStays

AdoptionFails(k) ==
  /\ call[k] = "adopting"
  /\ Goes(k, "failed")
  /\ carrier' = [carrier EXCEPT ![k] = "closed"]
  /\ UNCHANGED <<probes, outcome, roleConnection>> /\ ClientStays

(* NnrpBackendRuntime.close: the sessions first, then the connection it      *)
(* finds.                                                                    *)
CloseClient ==
  /\ host.role = "client" /\ closing = "open" /\ closing' = "closing"
  /\ UNCHANGED <<host>> /\ UNCHANGED clientVars /\ UNCHANGED serverVars

CloseConnection ==
  /\ host.role = "client" /\ closing = "closing" /\ closing' = "closed"
  /\ carrier' = [k \in Connects |-> IF k = roleConnection THEN "closed" ELSE carrier[k]]
  /\ UNCHANGED <<host, call, probes, outcome, roleConnection>> /\ UNCHANGED serverVars

------------------------------------------------------------------------------
(* listenServerRoles.                                                        *)
ServerStays == UNCHANGED host /\ UNCHANGED clientVars

(* orderedServerProviders.                                                   *)
ListensBefore(p, q) ==
  \/ p.kind = host.policy.kind /\ q.kind # host.policy.kind
  \/ /\ p.kind # host.policy.kind /\ q.kind # host.policy.kind
     /\ \/ p.rank < q.rank
        \/ p.rank = q.rank /\ transportNumericId[p.kind] < transportNumericId[q.kind]

ServerProviders == {p \in ToSet(host.providers) : p.available /\ Allowed(p.kind)}

RoutesResolve ==
  /\ DOMAIN host.routes \subseteq Installed
  /\ \A p \in ServerProviders : EndpointResolves(p.kind) /\ SecuritySatisfied(p.kind)

(* listen(): validateTransportProvidersForPolicy refuses at once, a route    *)
(* that does not resolve refuses before the first listener.                  *)
Listen ==
  /\ host.role = "server" /\ closing = "open" /\ opening = "idle"
  /\ opening' = IF ServerProviders # {} /\ RoutesResolve THEN "listening" ELSE "failed"
  /\ UNCHANGED <<listener, closing>> /\ ServerStays

Remaining == {p \in ServerProviders : listener[p.kind] = "none"}

(* One listener after the other, in the order of the providers.              *)
ListenerOpens ==
  /\ opening = "listening" /\ opening' = "adopting"
  /\ \E p \in Remaining :
       /\ \A q \in Remaining : ~ListensBefore(q, p)
       /\ listener' = [listener EXCEPT ![p.kind] = "open"]
  /\ UNCHANGED closing /\ ServerStays

(* The rollback closes what has been adopted so far, whatever each close     *)
(* answers.                                                                  *)
RolledBack(l) == [k \in Kinds |-> IF l[k] = "adopted" THEN "closed" ELSE l[k]]

ListenerFails ==
  /\ opening = "listening" /\ opening' = "failed"
  /\ listener' = RolledBack(listener)
  /\ UNCHANGED closing /\ ServerStays

ListenerAdopts ==
  /\ opening = "adopting" /\ opening' = IF Remaining = {} THEN "open" ELSE "listening"
  /\ \E k \in Kinds : listener[k] = "open" /\ listener' = [listener EXCEPT ![k] = "adopted"]
  /\ UNCHANGED closing /\ ServerStays

ListenerRefuses ==
  /\ opening = "adopting" /\ opening' = "failed"
  /\ \E k \in Kinds : listener[k] = "open" /\ listener' = RolledBack([listener EXCEPT ![k] = "closed"])
  /\ UNCHANGED closing /\ ServerStays

(* NnrpServer.close and #closeRoleServer: wait for the opening, close what   *)
(* it made.                                                                  *)
CloseServer ==
  /\ host.role = "server" /\ closing = "open" /\ opening # "idle" /\ closing' = "closing"
  /\ UNCHANGED serverVars /\ ServerStays

(* Mutant: close() does not wait for the listeners that are being opened.    *)
CloseListenersAtOnce ==
  /\ host.role = "server" /\ closing = "closing" /\ closing' = "closed"
  /\ listener' = RolledBack(listener)
  /\ UNCHANGED opening /\ ServerStays

CloseListeners ==
  /\ host.role = "server" /\ closing = "closing" /\ opening \notin {"listening", "adopting"}
  /\ closing' = "closed"
  /\ listener' = IF opening = "open" THEN RolledBack(listener) ELSE listener
  /\ UNCHANGED opening /\ ServerStays

------------------------------------------------------------------------------
ClientStep(k) ==
  \/ Ask(k) \/ Connect(k) \/ Select(k) \/ CarrierOpens(k) \/ CarrierFails(k) \/ Adopts(k) \/ AdoptionFails(k)
  \/ \E kind \in Kinds : ProbeSettles(k, kind)

Next ==
  \/ \E k \in Connects : ClientStep(k)
  \/ CloseClient \/ CloseConnection
  \/ Listen \/ ListenerOpens \/ ListenerFails \/ ListenerAdopts \/ ListenerRefuses
  \/ CloseServer \/ CloseListeners

Spec == Init /\ [][Next]_vars

------------------------------------------------------------------------------
Answered(k) == outcome[k] # Unanswered

(* A connect() never trips over its own evidence: what selectClientProvider  *)
(* composes from routes, probes and routes without a provider is valid, it   *)
(* has probed everything selectTransport finds eligible, and the provider    *)
(* selected has a route as secure as the application's endpoint.             *)
EvidenceIsComplete ==
  \A k \in Connects : host.role = "client" /\ Answered(k) =>
    /\ outcome[k].code # "INVALID_EVIDENCE"
    /\ \A i \in DOMAIN outcome[k].rejected : outcome[k].rejected[i].rejectionReason # "probe-missing"
    /\ outcome[k].code = "selected" =>
         LET kind == outcome[k].order[1].provider.kind
         IN  kind \in Installed /\ EndpointResolves(kind) /\ SecuritySatisfied(kind)

Better(m, n) ==
  \/ m.successCount > n.successCount
  \/ m.successCount = n.successCount /\ m.throughput > n.throughput
  \/ m.successCount = n.successCount /\ m.throughput = n.throughput /\ m.rtt < n.rtt

(* Measurements decide before any preference: nobody who was measured better *)
(* comes behind the winner, neither in the order nor among the rejected ones *)
(* that had no reason of their own.                                          *)
BestMeasuredWins ==
  \A k \in Connects : Answered(k) /\ Len(outcome[k].order) > 1 =>
    \A i \in DOMAIN outcome[k].order : ~Better(outcome[k].order[i].probe, outcome[k].order[1].probe)

(* Every descriptor gets one verdict: a place in the order or a reason.      *)
EveryoneHasAVerdict ==
  \A k \in Connects : Answered(k) /\ outcome[k].code # "INVALID_EVIDENCE" =>
    LET verdicts == outcome[k].order \o outcome[k].rejected
    IN  /\ EachOnce(verdicts, LAMBDA c : c.provider.kind)
        /\ {verdicts[i].provider : i \in DOMAIN verdicts} = ToSet(IF host.role = "client" THEN ClientDescriptors ELSE host.providers)
        /\ \A i \in DOMAIN verdicts : (verdicts[i].rejectionReason = "none") = (i <= Len(outcome[k].order))

(* The evidence leaves one order, whatever the order the providers are       *)
(* installed in: among the measured candidates the comparison is an order.   *)
(* The exception is named: costs are compared inside one model only, so with *)
(* two models among them three candidates may form a cycle.                  *)
SameCostModel(c) == \A i, j \in DOMAIN c : c[i].provider.model = c[j].provider.model

OneOrder ==
  \A k \in Connects : Answered(k) /\ Len(outcome[k].order) > 1 /\ SameCostModel(outcome[k].order) =>
    Arrangements(ToSet(outcome[k].order), outcome[k].policy) = {outcome[k].order}

(* The evidence decides: measurements first, then an order without a gap or  *)
(* a cycle, and a reason for everybody who is not in it.                     *)
EvidenceDecides == BestMeasuredWins /\ EveryoneHasAVerdict /\ OneOrder

(* A connect() that fails leaves no native connection behind.                *)
FailedConnectLeavesNothing ==
  \A k \in Connects : call[k] = "failed" => carrier[k] \in {"none", "closed"}

(* A server listens on all of its routes or on none.                         *)
ListensOnAllOrNone ==
  /\ opening = "failed" => \A k \in Kinds : listener[k] \in {"none", "closed"}
  /\ opening = "open" /\ closing # "closed" => \A p \in ServerProviders : listener[p.kind] = "adopted"

(* After close() has returned nothing listens, also when close() was called  *)
(* while the listeners were being opened.                                    *)
ClosedServerIsSilent ==
  host.role = "server" /\ closing = "closed" => \A k \in Kinds : listener[k] \in {"none", "closed"}

(* Client and server alike leave nothing half open, wherever connect(),      *)
(* listen() or the adoption of what they opened fails.                       *)
NothingHalfOpen == FailedConnectLeavesNothing /\ ListensOnAllOrNone /\ ClosedServerIsSilent

(* "Close the carrier exactly once through the role owner": once runtime and *)
(* calls are over no native connection is left.                              *)
NoConnectionLeft ==
  closing = "closed" /\ (\A k \in Connects : call[k] \in {"idle", "failed", "connected"}) =>
    \A k \in Connects : carrier[k] \in {"none", "closed"}
=============================================================================
