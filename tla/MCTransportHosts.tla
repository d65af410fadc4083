--------------------------- MODULE MCTransportHosts ---------------------------
(* Values for TransportHosts: lists of up to four providers with equal       *)
(* and with different costs and ranks, routes that resolve, do not, lack     *)
(* their security or have no provider, and every kind of policy.             *)
EXTENDS TransportSelection

Provider(kind, model, units, rank) ==
  [kind |-> kind, id |-> transportNumericId[kind], available |-> TRUE, model |-> model, units |-> units, rank |-> rank,
   limit |-> 10]

Away(p) == [p EXCEPT !.available = FALSE]

Lists ==
  {<<>>,
   <<Provider("tcp", 0, 0, 1)>>,
   <<Provider("tcp", 1, 5, 0), Provider("quic", 1, 3, 0)>>,
   <<Away(Provider("tcp", 0, 0, 0)), Provider("ipc", 0, 0, 0), Provider("quic", 0, 0, 0)>>,
   <<Provider("quic", 1, 9, 0), Provider("tcp", 2, 5, 1), Provider("ipc", 1, 1, 2)>>,
   <<Provider("websocket", 0, 0, 0), Provider("ipc", 0, 0, 2), Provider("tcp", 0, 0, 2), Provider("quic", 0, 0, 2)>>}

R(endpoint, security) == [endpoint |-> endpoint, security |-> security]

Tables ==
  {<<>>,
   [quic |-> R("none", TRUE)],
   [quic |-> R("none", TRUE), tcp |-> R("bad", FALSE)],
   [quic |-> R("good", TRUE), tcp |-> R("none", TRUE), ipc |-> R("good", FALSE), websocket |-> R("secure", TRUE)],
   [quic |-> R("good", TRUE), ipc |-> R("good", FALSE), websocket |-> R("good", FALSE)]}

MCPolicies == {Auto, [mode |-> "prefer", kind |-> "tcp"], [mode |-> "force", kind |-> "quic"]}

Hosts == [role : {"client", "server"}, providers : Lists, routes : Tables, secure : BOOLEAN, policy : MCPolicies]

Asker == [role |-> "application", routes |-> <<>>, secure |-> FALSE, policy |-> Auto,
          providers |-> <<Provider("quic", 1, 9, 1), Provider("tcp", 1, 5, 1), Provider("websocket", 1, 9, 1)>>]

MCConfigurations == Hosts \cup {Asker}

MCMetrics == {[successCount |-> 3, throughput |-> 1, rtt |-> 2], [successCount |-> 3, throughput |-> 1, rtt |-> 1],
              [successCount |-> 2, throughput |-> 2, rtt |-> 1]}

(* Evidence an application may bring: complete, with a hole or a duplicate.  *)
Ready(kind, ok) == [kind |-> kind, id |-> transportNumericId[kind], route |-> ok, security |-> TRUE]
Seen(kind, m) == [kind |-> kind, id |-> transportNumericId[kind],
                  state |-> IF m = NoMetrics THEN "failed" ELSE "succeeded", metrics |-> m]

Readiness ==
  {<<Ready("quic", a), Ready("tcp", TRUE), Ready("websocket", TRUE)>> : a \in BOOLEAN}
    \cup {<<Ready("quic", TRUE), Ready("tcp", TRUE)>>, <<Ready("quic", TRUE), Ready("tcp", TRUE), Ready("tcp", TRUE)>>}

Observations ==
  {<<Seen("quic", a), Seen("tcp", b), Seen("websocket", c)>> : a, b, c \in MCMetrics \cup {NoMetrics}}
    \cup {<<Seen("tcp", a), Seen("quic", a)>> : a \in MCMetrics} \cup {<<>>}

MCQuestions ==
  [policy : MCPolicies, peerSupportedTransports : {Kinds, {"tcp", "websocket"}}, requestedMaxFrameBytes : {10, 11},
   readiness : Readiness, observations : Observations]
=============================================================================
