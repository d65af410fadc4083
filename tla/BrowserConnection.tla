------------------------- MODULE BrowserConnection -------------------------
(***************************************************************************)
(* The carrier of a browser client: one WebSocket shared by all sessions   *)
(* (packages/transport-websocket/src/browser.ts), the pump that hands its  *)
(* packets to the WASM runtime (packages/browser-client/src/wasm-role.ts), *)
(* and the roles the client opens and closes on it                         *)
(* (packages/browser-client/src/index.ts).  One action is one turn of the  *)
(* event loop with the microtasks that follow it.  The WASM runtime is     *)
(* external: it keeps the events of each role until the role asks.         *)
(***************************************************************************)
EXTENDS Naturals, Sequences, FiniteSets, SequencesExt

CONSTANTS Roles,       \* the sessions the application opens
          Main,        \* the one whose events are followed
          Events       \* what the peer can send to Main

ASSUME ConnectionAssumption == Main \in Roles

VARIABLES
  connection,     \* #connectionPromise: "none", "opening" or "open"
  socket,         \* readyState: "none", "open", "closing" or "closed"
  protocolError,  \* the socket reported an error or a message that is not binary
  packets,        \* #packets: what nobody has received yet
  pump,           \* receivePump: "none", "waiting" in receive() or "ended"
  told,           \* failReceive was called: WASM fails every await
  closing,        \* client close: "no", "roles", "carrier" or "freed"
  roles,          \* state of each role
  inbox,          \* events WASM holds for Main
  bornDeaf        \* history: the pump began on a socket that was not open

connectionVars ==
  <<connection, socket, protocolError, packets, pump, told, closing, roles, inbox, bornDeaf>>

ConnectionInit ==
  /\ connection = "none" /\ socket = "none"
  /\ protocolError = FALSE
  /\ packets = <<>>
  /\ pump = "none" /\ told = FALSE
  /\ closing = "no"
  /\ roles = [r \in Roles |-> "new"]
  /\ inbox = <<>>
  /\ bornDeaf = FALSE

WasmClosed == closing \in {"carrier", "freed"}

-----------------------------------------------------------------------------
(* The pump *)

\* Mutant: the pump ends without a word.
PumpEndsSilently == pump' = "ended" /\ UNCHANGED told

\* receive() throws: the error is recorded and told to WASM, unless it was closed.
PumpEnds ==
  /\ pump' = "ended"
  /\ told' = (told \/ ~WasmClosed)

\* ensureReceivePump: started by the first role, and never again.
PumpStarts ==
  IF pump # "none" THEN UNCHANGED <<pump, told, bornDeaf>>
  ELSE IF WasmClosed \/ socket # "open"
  THEN pump' = "ended" /\ bornDeaf' = ~WasmClosed /\ UNCHANGED told
  ELSE IF protocolError THEN PumpEnds /\ UNCHANGED bornDeaf
  ELSE pump' = "waiting" /\ UNCHANGED <<told, bornDeaf>>

\* A packet for Main: the waiting pump ingests it at once, else it is kept.
PacketArrives(e) ==
  /\ socket = "open" /\ roles[Main] \in {"open", "closing"}
  /\ IF pump = "waiting"
     THEN inbox' = Append(inbox, e) /\ UNCHANGED packets
     ELSE packets' = Append(packets, e) /\ UNCHANGED inbox
  /\ UNCHANGED <<connection, socket, protocolError, pump, told, closing, roles, bornDeaf>>

SocketFails ==
  /\ socket = "open" /\ ~protocolError
  /\ protocolError' = TRUE
  /\ IF pump = "waiting" THEN PumpEnds ELSE UNCHANGED <<pump, told>>
  /\ UNCHANGED <<connection, socket, packets, closing, roles, inbox, bornDeaf>>

SocketCloses ==
  /\ socket \in {"open", "closing"}
  /\ socket' = "closed"
  /\ IF pump = "waiting" THEN PumpEnds ELSE UNCHANGED <<pump, told>>
  /\ UNCHANGED <<connection, protocolError, packets, closing, roles, inbox, bornDeaf>>

\* receive() gives up after its default of 30 seconds without a packet.
ReceiveTimesOut ==
  /\ pump = "waiting"
  /\ PumpEnds
  /\ UNCHANGED <<connection, socket, protocolError, packets, closing, roles, inbox, bornDeaf>>

-----------------------------------------------------------------------------
(* Opening and closing *)

\* openSession or resumeSession; the first one opens the connection.
OpenSession(r) ==
  /\ closing = "no" /\ roles[r] = "new"
  /\ roles' = [roles EXCEPT ![r] = IF connection = "open" THEN "opening" ELSE "connecting"]
  /\ connection' = IF connection = "none" THEN "opening" ELSE connection
  /\ UNCHANGED <<socket, protocolError, packets, pump, told, closing, inbox, bornDeaf>>

\* A connection that comes up after close() is closed at once.
ConnectionOpens ==
  /\ connection = "opening"
  /\ connection' = IF closing = "no" THEN "open" ELSE "none"
  /\ socket' = IF closing = "no" THEN "open" ELSE "closing"
  /\ roles' = [r \in Roles |->
       IF roles[r] # "connecting" THEN roles[r]
       ELSE IF closing = "no" THEN "opening" ELSE "closed"]
  /\ UNCHANGED <<protocolError, packets, pump, told, closing, inbox, bornDeaf>>

\* The next openSession tries again.
ConnectionFails ==
  /\ connection = "opening"
  /\ connection' = "none"
  /\ roles' = [r \in Roles |-> IF roles[r] = "connecting" THEN "closed" ELSE roles[r]]
  /\ UNCHANGED <<socket, protocolError, packets, pump, told, closing, inbox, bornDeaf>>

\* Mutant: a role that opens after close() is kept.
RoleOpensLate(r) ==
  /\ roles[r] = "opening"
  /\ roles' = [roles EXCEPT ![r] = "open"]
  /\ PumpStarts
  /\ UNCHANGED <<connection, socket, protocolError, packets, closing, inbox>>

\* openRole and #registerSession: a role that comes after close() is closed.
RoleOpens(r) ==
  /\ roles[r] = "opening"
  /\ roles' = [roles EXCEPT ![r] = IF closing = "no" THEN "open" ELSE "closing"]
  /\ PumpStarts
  /\ UNCHANGED <<connection, socket, protocolError, packets, closing, inbox>>

RoleOpenFails(r) ==
  /\ roles[r] = "opening"
  /\ roles' = [roles EXCEPT ![r] = "closed"]
  /\ UNCHANGED <<connection, socket, protocolError, packets, pump, told, closing, inbox, bornDeaf>>

RoleCloses(r) ==
  /\ roles[r] = "closing"
  /\ roles' = [roles EXCEPT ![r] = "closed"]
  /\ UNCHANGED <<connection, socket, protocolError, packets, pump, told, closing, inbox, bornDeaf>>

\* The role part of the session's close().
CloseRole(r) ==
  /\ roles[r] = "open"
  /\ roles' = [roles EXCEPT ![r] = "closing"]
  /\ UNCHANGED <<connection, socket, protocolError, packets, pump, told, closing, inbox, bornDeaf>>

CloseClient ==
  /\ closing = "no"
  /\ closing' = "roles"
  /\ roles' = [r \in Roles |-> IF roles[r] = "open" THEN "closing" ELSE roles[r]]
  /\ UNCHANGED <<connection, socket, protocolError, packets, pump, told, inbox, bornDeaf>>

\* The sessions are closed and the connection is known: WASM and socket are closed.
CloseCarrier ==
  /\ closing = "roles" /\ connection # "opening"
  /\ \A r \in Roles : roles[r] # "closing"
  /\ closing' = "carrier"
  /\ socket' = IF socket = "open" THEN "closing" ELSE socket
  /\ UNCHANGED <<connection, protocolError, packets, pump, told, roles, inbox, bornDeaf>>

\* The pump is awaited, then the binding is freed.
FreeBinding ==
  /\ closing = "carrier" /\ pump # "waiting"
  /\ closing' = "freed"
  /\ UNCHANGED <<connection, socket, protocolError, packets, pump, told, roles, inbox, bornDeaf>>

-----------------------------------------------------------------------------
(* Properties *)

ConnectionTypeOK ==
  /\ connection \in {"none", "opening", "open"}
  /\ socket \in {"none", "open", "closing", "closed"}
  /\ protocolError \in BOOLEAN /\ told \in BOOLEAN /\ bornDeaf \in BOOLEAN
  /\ pump \in {"none", "waiting", "ended"}
  /\ closing \in {"no", "roles", "carrier", "freed"}
  /\ roles \in [Roles -> {"new", "connecting", "opening", "open", "closing", "closed"}]
  /\ ToSet(packets) \cup ToSet(inbox) \subseteq Events

\* When the pump is over and WASM was told nothing, the client was closed; the one
\* exception is a pump that began after the socket was gone: that role is never told.
SilenceIsExplained ==
  pump = "ended" => told \/ WasmClosed \/ bornDeaf

\* The binding is freed after the pump's last use of it, no role outlives the client,
\* and the socket is no longer open, whatever was opening when close() was called.
FreedIsOver ==
  closing = "freed" =>
    /\ pump # "waiting"
    /\ socket # "open"
    /\ \A r \in Roles : roles[r] # "open"
=============================================================================
