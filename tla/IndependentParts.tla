--------------------------- MODULE IndependentParts ---------------------------
(* One system of the parts that share no state with any other: schema        *)
(* registries, the metadata channel, submit requests, transport hosts and    *)
(* native server roles.  A behaviour is a behaviour of one part; the others  *)
(* stay where they are.                                                      *)
EXTENDS SchemaRegistry, NativeServerRole

CONSTANTS Messages, Foreign, Strange,                     \* of the channel
          Inputs,                                         \* of the submit requests
          Configurations, Questions, Metrics, Connects, None   \* of the hosts

VARIABLES part,
          sent, wire, heard, altered,
          input, built, payload, accepted,
          host, call, probes, outcome, carrier, roleConnection, closing, opening, listener

registryVars == vars
channelVars == <<sent, wire, heard, altered>>
submitVars == <<input, built, payload, accepted>>
hostVars == <<host, call, probes, outcome, carrier, roleConnection, closing, opening, listener>>

Channel == INSTANCE MetadataChannel
Submits == INSTANCE SubmitRequests
Hosts == INSTANCE TransportHosts

\* One provider of a kind and of an id; a probe measures numbers, one that succeeded
\* something.
ASSUME HostsAssumption ==
  /\ \A c \in Configurations : Hosts!WellFormed(c)
  /\ \A m \in Metrics : m \in Hosts!Measures /\ m # Hosts!NoMetrics
  /\ \A q \in Questions : \A i \in DOMAIN q.observations : q.observations[i].metrics \in Hosts!Measures

\* Messages an application or the Rust runtime sends; a peer writes bytes.
ASSUME ChannelAssumption ==
  /\ \A msg \in Messages : Channel!WellFormed(msg)
  /\ Strange \subseteq Channel!Bytes

\* What callers of the builders pass.
ASSUME SubmitAssumption == \A in \in Inputs : Submits!WellFormed(in)

NoChannel == sent = 0 /\ wire = 0 /\ heard = 0 /\ altered = 0
NoSubmit == input = 0 /\ built = 0 /\ payload = 0 /\ accepted = 0
NoHost ==
  /\ host = 0 /\ call = 0 /\ probes = 0 /\ outcome = 0 /\ carrier = 0
  /\ roleConnection = 0 /\ closing = 0 /\ opening = 0 /\ listener = 0

PartsInit ==
  /\ Init /\ RoleInit
  /\ \/ part = "registries" /\ NoChannel /\ NoSubmit /\ NoHost
     \/ part = "channel" /\ Channel!Init /\ NoSubmit /\ NoHost
     \/ part = "submits" /\ Submits!Init /\ NoChannel /\ NoHost
     \/ part = "hosts" /\ Hosts!Init /\ NoChannel /\ NoSubmit
     \/ part = "roles" /\ NoChannel /\ NoSubmit /\ NoHost

PartsNext ==
  /\ UNCHANGED part
  /\ \/ part = "registries" /\ Next /\ UNCHANGED <<channelVars, submitVars, hostVars, roleVars>>
     \/ part = "channel" /\ Channel!Next /\ UNCHANGED <<registryVars, submitVars, hostVars, roleVars>>
     \/ part = "submits" /\ Submits!Next /\ UNCHANGED <<registryVars, channelVars, hostVars, roleVars>>
     \/ part = "hosts" /\ Hosts!Next /\ UNCHANGED <<registryVars, channelVars, submitVars, roleVars>>
     \/ part = "roles" /\ RoleNext /\ UNCHANGED <<registryVars, channelVars, submitVars, hostVars>>

PartsSpec == PartsInit /\ [][PartsNext]_<<part, registryVars, channelVars, submitVars, hostVars, roleVars>>

\* MetadataChannel: what is encoded is what the other side decodes.
SurvivesTheWire == part = "channel" => Channel!SurvivesTheWire
\* MetadataChannel: no byte of an accepted block is without a meaning.
NoByteIgnored == part = "channel" => Channel!NoByteIgnored
\* SubmitRequests: what a builder builds the receiver accepts and finds again.
SubmittedIsReceived == part = "submits" => Submits!SubmittedIsReceived
\* TransportHosts: a connect() never trips over its own evidence.
EvidenceIsComplete == part = "hosts" => Hosts!EvidenceIsComplete
\* TransportHosts: measurements decide first, and one order and a verdict for all follow.
EvidenceDecides == part = "hosts" => Hosts!EvidenceDecides
\* TransportHosts: whatever fails, nothing stays half open.
NothingHalfOpen == part = "hosts" => Hosts!NothingHalfOpen
=============================================================================
