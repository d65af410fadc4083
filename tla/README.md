# nnrp-js in TLA+

A verification development for the TypeScript SDK of NNRP: a client and a server for Deno, Node and
the browser over a runtime written in Rust, which is reached through FFI or WASM and is not part of the
repository. The SDK is single-threaded JavaScript. Its difficulty is the order in which promise
continuations, timers, aborts and native completions run, and what one call has read before another
changes it. That is what the modules here describe. An action is one callback: the synchronous part of
a call, or one continuation after an `await`.

Paths below are relative to `src/packages`.

## The system

| Component | State it keeps | Operations | Talks to |
| --- | --- | --- | --- |
| Native server accept path (`native-server/src/index.ts`: `InternalServerRoleGroup`, `NnrpServer`, `NnrpBackendRuntime`; `transport-*/src/native-node.ts`: closes of role sessions) | entries with a pending poll and a parked settlement, waiters, closed flags, session tables | `accept`, `close` of group, server, runtime and session | listeners by promise; the application by `accept()` |
| Native server session (`NnrpServerSession`, `NnrpServerOperation`) | receive queue, parked events, frames of operations, terminal flags | `nextEvent`, `receiveSubmit`, replies, `close` | the native event queue; the object queue when a peer cancels |
| Runtime objects (`RuntimeObjectLifecycle`, the announcement queue; one copy each in server, native client and browser client) | object table, queue of announcements, releasing runs | declare, reference, patch, release, release of all objects of an operation | the peer |
| Native client session: submitting (`native-client/src/index.ts`) | frames, operations, cancelled operations, timers, credits, credit waiters | `submit`, `submitNoWait`, `cancel`, `nextEvent`, `patch`, `close` | the native queue (two kinds of reader), the object queue |
| Native client event routing (`NnrpClient`, `NnrpBackendRuntime.awaitEvents`) | a queue per session, role session tables, routing keys | `openSession`, `nextSessionEvent`, `nextEvent`, `close` | all native sessions of a connection |
| Browser client (`browser-client/src/index.ts`) | the client's state again, plus an event pump per session | as above | the WASM role |
| Browser WASM role and carrier (`browser-client/src/wasm-role.ts`, `transport-websocket/src/browser.ts`) | packets received, listeners, receive promises | open, send, receive, pump, close | the WebSocket; the WASM runtime |
| Native role bindings (`transport-*/src/native-node.ts`, `native.ts`) | handles, accept tickets, adopted sessions, closed flags | `accept`, `submit`, `poll`, `close` | the Rust library |
| Native server listen and provider routing | listeners opened so far | `listenServerRoles` | the bindings |
| Transport selection (`core/src/index.ts`) | none | `selectTransport` | callers of `connect` and `listen` |
| Schema registry, cache leases, recovery tickets, lifecycles (`core/src/index.ts`) | small tables and phases | register, resolve, renew, expire, transition | the application |
| Codecs and validators (`core/src/index.ts`) | none | encode, decode, validate | every sender and reader |

What makes them hard:

* **Interleaving.** Several `accept()`, `nextEvent()` or `submit()` calls are outstanding at once on one
  object, and each has continuations between which anything else may run.
* **Abandoned work.** A timeout or an abort ends a call but not the native poll it waits for: the poll
  stays behind and takes an event.
* **Closing.** Server, runtime, group and session may be closed at any moment, from each other's
  continuations too, and what is on its way must still be found and closed.
* **Partial failure.** One of several closes, sends or releases fails, and the rest is skipped or not.
* **Two readers.** `submit()` and `nextEvent()` of the native client read one queue.

What makes each correct is stated below, component by component.

## Modules

| Module | Stands for | State and actions |
| --- | --- | --- |
| `ServerRoleGroup` | the accept path | `pending`, `settlement`: the entries; `waiters`, `groupClosed`, `terminal`: the group; `caller`, `hand`: `accept()` calls and the session each holds; `roleSessions`, `sessions`: the tables; `serverClose`, `runtimeClose`: closes under way; `native`, `closers`: the native sessions. One action per callback: `Accept`, `GroupAccept`, `DrainMicrotask`, `RoleAccepts`, `RoleTimesOut`, `RoleFails`, `EntryStep`, `Register`, `AcceptReturns`, `AcceptRefused`, `AcceptFailed`, the closes and `CloseSettles`. |
| `SessionHandoff` | what the accept path promises | the fate of every session a listener accepts |
| `ServerRoleGroupRefinement` | the mapping from the first to the second | |
| `ServerSession` | receiving and replying | `queue`: `#receiveQueue`; `taken`, `orphans`: the native polls; `pendingEvents`; `operationFrames`; `terminal`, `replying`, `answered`: replies |
| `RuntimeObjects` | the object table and its queue | `tracked`, `queue`, `sending`; `run`, `todo`: releasing runs; `peer`: what the other side has been told |
| `ObjectHistory` | what may be told about objects | an announcement is legal for the receiver |
| `SubmitCapacity` | a submit before its dispatch: credits and their waiters | `policy`, `credits`, `waiters`, `submit`, `sessionClosed` |
| `ClientEventRouting` | `NnrpClient.#nextRoutedEvent` over `awaitEvents` | `session`, `opened`, `mapped`: handles and routing keys; `wire`: what the library has not returned; `queues`, `unclaimed`: parked events; `polls`, `asking`: polls under way and who waits for them. A poll goes from session to session, one await each (`NativePollTakes`, `NativePollRefuses`, `PollResumes`), while sessions open and close. |
| `SubmitLifecycle` | submits from dispatch to their end | `operationByFrame`, `terminalFrames`, `cancelledOperations`, `cleanups`, `listening`: the session; `polling`: loops of `submit()`; `reading`: `nextEvent()`; `operation`, `events`: the native session |
| `ClientSubmits` | `SubmitCapacity` and `SubmitLifecycle`, the two halves of a submit, in one system | `half`: the one a behaviour moves |
| `ClientEvents` | `ClientEventRouting` and `SubmitLifecycle`, the way of an event to the application, in one system | `way`: the one a behaviour moves |
| `TransportSelection` | `selectTransport`: its evidence, comparisons and verdicts | operators, no state |
| `TransportHosts` | `connect()` with its probes and `listen()` with its listeners, over `TransportSelection` | `probes`, `outcome`, `carrier`, `roleConnection`: the client; `opening`, `listener`: the server; `closing` |
| `NativeServerRole` | a native listener becomes a role and is closed | `adoption`, `registry`, `callback`; `accepts`: the ticket table; `accept`, `answer`, `ticket`: the calls |
| `SchemaRegistry` | `NnrpSchemaRegistry` | `installed`; histories of offers, conflicts and withdrawals |
| `WireIntegers`, `MetadataLayouts`, `MetadataBlocks` | integers with their width, the layouts of control and object messages, the fixed blocks with their validators, recovery tickets | operators; an integer is the sequence of its bytes with a ninth for what no field can hold, so a value beyond 32 or 64 bits is a value like any other |
| `MetadataChannel` | one message from an application through encoder, wire and decoder; a peer in another language may alter bytes | `sent`, `wire`, `heard`, `altered` |
| `SubmitRequests` | the builders of tensor and typed submit bodies, and the decoder of the receiver | `input`, `built`, `payload`, `accepted` |
| `IndependentParts` | the parts that share no state with any other (`SchemaRegistry`, `NativeServerRole`, and instances of `MetadataChannel`, `SubmitRequests` and `TransportHosts`) in one system | `part`: the one a behaviour moves |
| `BrowserConnection` | WebSocket, carrier pump, WASM roles and their closes | `socket`, `packets`, `pump`, `told`, `roles`, `inbox`, `closing` |
| `BrowserSession` | one browser session over it: submits and their cancellation, event pump, readers, credits | `call`, `inFlight`, `terminal`, `resultWaiters`; `cancelling`, `cancelled`: a Cancel being sent, and those sent; `eventPump` ("off", "running", and "ending" between the loop and its `finally`), `eventQueue`, `remembered`: results whose operation is known; `eventWaiters`, `leaving`: readers, and those whose call is over while their waiter is still in line; `credits` |
| `ServerRoleGroupProofs`, `SubmitCapacityProofs`, `IndependentPartsProofs`, `ServerSessionProofs`, `SubmitLifecycleProofs`, `RuntimeObjectsProofs`, `BrowserSessionProofs`, `ClientEventRoutingProofs` | theorems | |
| `MC...` | instances for TLC | symmetry, traffic, plans. `MCIndependentParts` gives `IndependentParts` its constants, out of `MCMetadataChannel`, `MCSubmitRequests` and `MCTransportHosts`, which only hold values. |

`BrowserSession` extends `BrowserConnection`, `TransportHosts` extends `TransportSelection`, and the codec
modules extend each other in the order of the table, `SubmitRequests` and `MetadataChannel` at the end:
these are the compositions. `ServerRoleGroup` composes listeners, group, server, runtime and sessions in
one module, because their promises interleave.

`PROJECT.json` maps each definition to its lines.

## Properties, component by component

* **Accept path.** A session is in one place at a time (`OneHolder`); an open session is always in some
  place where a close finds it, unless its close has failed (`NoSessionLost`); nobody waits without a poll
  or a drain to come (`NoLostWakeup`), so every `accept()` ends (`AcceptEnds`); a closed group keeps
  nothing (`ClosedGroupIsEmpty`). Together they
  implement `SessionHandoff` (`KeepsPromise`).
* **Server session.** Events keep the order of the wire although two kinds of call take them
  (`ReceivedInOrder`); `receiveSubmit()` loses nothing it skips (`NoEventLost`); an operation is bound to a
  frame exactly while it is unanswered (`BoundIsUnanswered`); it is answered at most once although replies
  race and fail, and a flag that is set stands for a reply (`OneTerminalReply`); a failing call does not hold
  up the next (`QueueMoves`).
* **Runtime objects.** What reaches the peer is legal there (`LegalHistory`, which is refinement of
  `ObjectHistory`); the table is what the peer was told (`TrackedIsTold`); a releasing run goes on only from
  a released object, and ends (`GoesOnWhenReleased`, `RunEnds`).
* **Credits.** Nobody sleeps while there is credit (`NoForgottenWaiter`); a close ends every wait
  (`CloseEndsWaiting`).
* **Submits.** A call keeps its frame until it ends (`FrameIsOwned`); timers and listeners go with the
  frame (`ListensWhileBound`); only late payloads of cancelled operations are kept from the application
  (`OnlyLatePayloadsDropped`); a `submit()` with a timeout ends (`TimedSubmitEnds`).
* **Event routing.** Each event of an open session is in exactly one place, however the polls of several
  callers interleave and sessions come and go, and the session is routed (`EveryEventAccounted`); polls that
  do not overlap keep the order (`OneReaderKeepsOrder`).
* **Hosts and selection.** `connect()` never trips over the evidence it has composed itself
  (`EvidenceIsComplete`); measurements decide before any preference, one order is left, and everybody
  outside it has a reason (`EvidenceDecides`); a failed `connect()` leaves no connection, a server listens on
  all routes or on none, and a closed one on none although it was closed while opening
  (`NothingHalfOpen`).
* **Native server role.** `accept()` and `close()` share tickets: each is settled once, and none outlives its
  call or the role (`TicketsSettleOnce`); the policy callback is registered as long as the library may call it
  (`CallbackLivesWithServer`).
* **Schemas.** Two registries offered the same descriptors in any order answer alike
  (`SameOffersSameAnswers`); a version never changes its meaning (`VersionsAreFinal`).
* **Codecs.** What an encoder accepts its decoder reads back (`SurvivesTheWire`); what a decoder accepts
  encodes to the very bytes that arrived (`NoByteIgnored`); the receiver finds tiles, sections, codecs,
  references and frames where the builder put them (`SubmittedIsReceived`, against a reader written from
  the layout alone).
* **Browser.** Whoever waits has a pump (`WaitersAreServed`); events keep their order through waiters and
  queue (`EventsKeepTheirOrder`); nothing vanishes but the late result of a
  cancelled operation, a second end of one frame, and the events of the two defects below (`OnlyEndsVanish`); a pump that is
  over has told WASM why (`SilenceIsExplained`); a freed binding is used by nobody (`FreedIsOver`); a carrier
  failure ends the waits and `close()` ends (`WaitsEnd`).

Type invariants are conjuncts of `BoundIsUnanswered`, `TrackedIsTold`, `FrameIsOwned`, `EveryEventAccounted` and
`EventsKeepTheirOrder`. Those of `ServerRoleGroup`, `SubmitCapacity`, `NativeServerRole`, `ServerSession`,
`RuntimeObjects`, `SubmitLifecycle`, `BrowserSession` and `ClientEventRouting` are proved.

Some properties name their exception, so that nothing is hidden in the model. `SurvivesTheWire` excepts values
above bit 31 in the fields validated by a mask alone (`MaskedOnly`): they lose these bits without an error.
`EvidenceDecides` asks for one order among candidates of one cost model (`SameCostModel`): costs of different
models compare as equal, and three candidates may form a cycle. `SilenceIsExplained` excepts a pump that begins
on a socket which has just gone (`bornDeaf`): it ends without telling WASM, and a reader waits for ever.
`NoEventLost` and the second half of `OneTerminalReply` except the faults "abort" and "encode".
`OnlyEndsVanish` excepts what `nextEvent()` throws for (`refused`) and what the waiter of a leaving reader gets
(`orphaned`); both are shown below. `BoundIsUnanswered` says of an operation's frame that it is bound while its
submit is unanswered, unless another submit of the same operation at the same frame was answered: the code cannot tell the two apart. In
`NativeServerRole` the library may refuse a release (`refused`): the close then ends before the native close,
and the callback goes although the server may still be bound.

## Runs

| Run | Shows | Bounds and why they are enough |
| --- | --- | --- |
| `group_safety` | the safety of the accept path | 2 listeners, 2 `accept()` calls, 2 sessions: the smallest in which settlements and waiters pair up in every way, one listener fails while the other delivers, and closes meet both; up to 2 closes of one native session under way. Callers and sessions are symmetric. |
| `group_promise` | `KeepsPromise`, `AcceptEnds`; native closes succeed | 2 listeners, 2 callers competing for 1 session; no symmetry, as it is not sound for liveness |
| `session_receiving` | everything about receiving and replying | 2 calls; 4 traffic patterns, among them an operation cancelled and submitted again at another frame, and one submitted twice at one frame and once more at another; all faults, and the faults without those the properties except; 1 abandoned poll |
| `objects_protocol` | all properties of runtime objects | everything about one object and ownership of a second, 2 operations, 2 versions, 2 deltas; one announcement of the application queued at a time beside those of a run |
| `client_submits` | credits; frames and timeouts of `submit()`, nobody else reading events | 4 submits and windows 0 to 2, so that updates wake more submits than they serve; 2 calls on one frame or two, one with a timeout |
| `client_events` | timers, listeners and dropped events with `nextEvent()`, `cancel()`, failing sends and a close by the peer; the accounting and order of routed events | 2 `submitNoWait()` calls on two frames, or one after the other on one; 2 readers, 2 sessions, 2 polls at once, 2 events in all and 2 in a batch: two polls can hold events of both sessions, park, overtake and be abandoned; readers are symmetric |
| `independent_parts` | schemas, native roles, hosts and selection, codecs | 2 registries and 3 offers over 7 descriptors that differ in one field each; 3 accepts, one without a timeout; lists of up to 4 providers, routes that resolve, do not, lack their security or have no provider; every block with each field at 0, at its limits and beyond its width, and bytes replaced by a peer; up to 3 frames, 2 sections and tile ids around byte boundaries in every index mode; submit regions below 2^16 bytes |
| `browser_session` | pump, order and loss of events in a browser session | one session, one submit that waits and one that does not and may be cancelled by call, timer or signal; one reader, 2 events of the peer: enough for a waiter, a queue and a pump to meet in every order, and for an event to follow the end of its frame |
| `browser_carrier` | what a browser session owes to the connection below it, and its liveness | the session and a second role opened and closed beside it, both kinds of submit, one reader, 1 event of the peer: it may arrive, or the carrier fail, before or after each wait begins |

Three runs show a disagreement between the code and its documents, which `PROJECT.json` quotes under "findings":

| Run | What TLC finds |
| --- | --- |
| `session_event_lost` | an aborted receive leaves its native poll behind, which swallows an event; or it drops a parked one |
| `browser_credits` | a credit window in a queued event is applied when the pump queues it and again when a reader takes it |
| `browser_result_lost` | the pump ends the frame of a `submitNoWait()` when it queues its result (`completeEvent`, `browser-client/src/index.ts:1501`); `nextEvent()` takes the result out of the queue, completes it once more (1517), and throws `NNRP_FRAME_TERMINAL_DUPLICATE`: no reader ever gets it |

The bounds in guards are `MaxCloses` (closes of one native session under way when its runtime is closed
again), `MaxOrphans` (abandoned polls), `MaxQueue` (queued announcements), `MaxOffers`
(descriptors offered to a registry), `MaxArrivals` and `MaxPolls` (events and polls of the routing), `MaxEvents`
(the batch size, a parameter of the code) and `MaxSent` (events of a browser peer); the other counters are
bounded by the sets above. `SubmitRequests` keeps lengths to 2^16 bytes, where the code's end at 2^32. Deadlock is
not an error in any run: the application may stop calling and the peer may stop sending at any moment.

The modules state further properties no run checks, because the code does not have them. Each can be seen by
checking it with the named configuration:

| Property | What the documents say (under `doc/todo/v1-preview4/`) | How to see it fail |
| --- | --- | --- |
| `ServerCloseClosesListeners` | "Close accepted sessions and the listener exactly once." (`04-server-control-surface.md:51`) | `MCServerRoleGroup`, 1 listener, 1 session, `CloseMayFail = TRUE`: a failing session close ends `NnrpServer.close()` before the listeners, and a second call returns at once |
| `TimedSubmitEnds` with another reader | "Cancel in-flight work when the local timeout expires." (`03-client-control-surface.md:30`) | `client_submits.cfg` with `Reads = TRUE`: `nextEvent()` takes the terminal event and disarms the timer |
| `CancelledIsReleased` | the releases of a cancelled operation (`05-runtime-object-and-cache.md:18`) | `client_submits.cfg` with `Holders = {1}`: a timeout frees the frame before the Cancel is sent, and the releases that follow are refused |
| `OwnEventsOnly` | the test of replaced sessions, `native-client/test/index.test.ts:712` | `client_events.cfg` with `WireId <- OneWireId`: what a closed session left under its id is given to the session that replaces it |
| `SessionsAreIndependent` | | `client_events.cfg`: a call that fails or is given up for one session takes the events of another with it |
| `LeavingReadersTakeNothing` | "Preserve wire events as the `runtime` variant" (`03-client-control-surface.md:42`) | `browser_session.cfg`: `raceEventPoll` rejects a call of `nextEvent()`, and the `finally` that takes its waiter out of the line (`browser-client/src/index.ts:1080`) runs some microtasks later; a turn of the pump in between hands it an event, which nobody sees |
| `WaitingSubmitsCanEnd` | "Submit cancellation and timeout deterministically reject the local wait" (`doc/v1-preview4-sdk-contract-v15-release-notes.md:19`) | `browser_carrier.cfg`: `cancel()` for the frame of a waiting `submit()`; the late result is suppressed, which finishes the frame and disarms timer and signal (1353), but does not settle the waiter: the call ends only when the session or its carrier does |
| `LateResultsAreSuppressed` | "Suppress late result and partial-result payloads after cancellation." (`02-codecs-and-runtime-events.md:47`) | `browser_session.cfg` (as a PROPERTY): a submit that gave up has forgotten its frame, so its late result passes for one of an unknown operation and is returned (1350) |
| `NoConnectionLeft` | "Close the carrier exactly once through the role owner." (`03-client-control-surface.md`) | `independent_parts.cfg` with `Connects = {k1, k2}` and the invariant `part = "hosts" => Hosts!NoConnectionLeft`: the second overwrites the connection of the first |

Met while modelling and expressible in the modules, but without a property of their own: two closes of one
native session overlap, because the flag is set after the native call (`closers` counts them); the timeout of a
queued receive does not run until its turn comes; a releasing run stops at an object the application has
released meanwhile; a submit that was awake when its session closed is still dispatched (`Continue`,
`Prepared`); a `submit()` cancelled with `cancel()` resolves with a late result; the loop of a timed out
`submit()` takes the lifecycle event `nextEvent()` was to return; a suppressed late result frees neither frame
nor listener.

## Fairness

Weak fairness of a callback says that the event loop runs what is queued and that a native call
returns. It is assumed of continuations, microtasks, poll loops, timers, and settling native calls.
Nothing makes the application call, a signal abort, or the peer send, grant or accept. A listener's
`accept` is assumed to settle: calls have a timeout (with the default, 0, the native accept waits for a
peer), and closing the listener releases the accept it has pending. In the browser fairness is given to
promise continuations, to the answers of WASM and to a socket that is closing; not to the peer, the timers of
the application or the application. The runs of routing and of the independent parts check safety only.

## Proofs

`ServerRoleGroupProofs`: for any number of listeners, calls and sessions. The invariants of
`group_safety` are not inductive by themselves: a drain hands a parked session to a waiter without looking
whether anybody else has it. `IInv` adds what they rest on: the queue holds exactly the waiting calls, each
once (`WaitersInv`); a call holds a session exactly between its grant and its return (`HandInv`); only
sessions a listener has accepted are held, and a listener being polled parks nothing (`BirthInv`); parked,
handed and registered sessions are pairwise different (`HolderInv`); an open session nobody closes is held
(`KeptInv`); a waiter has a poll or a drain coming (`WakeInv`). The core is `DrainPairs` and `DrainOneCall`:
ranking the settled entries maps them one to one to the first waiters, which is why a drain neither
duplicates nor drops a session. The proofs rest on `NAssumption`, `SlotAssumption` and `FailureAssumption`.

`PromiseTheorem` is the refinement of `SessionHandoff` without its fairness: every step offers, takes, gives up or
closes a session as the abstract specification allows, or changes nothing it sees. A session is "taken" when it
is in the server's list, so one a waiter was granted but has not returned is still "offered". What `IInv` lacks for
this is `SessionsInv`: a session of the list has been accepted and is in no other hand, which makes a return take
an offered one, and the runtime closes none of them once the server has closed, so that none is given up twice.
A native close that fails leaves its session open for ever, in the code too; the theorem assumes
`CloseMayFail = FALSE`, like the run.

`SubmitCapacityProofs`: for any set of submits and any windows below `Unlimited`. The invariant is
`CapacityTypeOK` with `NoForgottenWaiter`, whose parts need each other: the list has no repetition because
exactly the waiting submits are in it.

`IndependentPartsProofs`, of `SchemaRegistry`: for any registries, descriptors and payloads. `RegistryInv` says what `install()`
leaves: only offered descriptors of standard profiles, one for each key, and, without a conflict or a
withdrawal, one that stands for each descriptor offered (`NothingMissing`). Two registries with the same offers
then have the same schema behind every key, although not the same descriptor.

`IndependentPartsProofs`, of `TransportHosts`: for any configurations with one provider of a kind and of an id and
routes of known kinds, any calls, and any measurements in numbers that are not all zero (`HostsAssumption`). `NothingHalfOpen` needs
`ListenerInv`: while listeners open at most the last one is not adopted (`OneOpen`), so rolling back the adopted
ones leaves none; and the close of a server ends only after the opening has (`opening` decides what it closes).
`EvidenceTheorem` follows an answer of `selectTransport` back to what `connect()` composed: the descriptors differ
in kind and id (`DescriptorFacts`), there is one observation for each probe (`ObservationFacts`), so the evidence is valid;
whatever has no reason against it is a probe target (`Eligible`), so with two of them all targets were probed and
each eligible one was measured or has failed (`OrderFacts`). `EvidenceInv` says that this is what the probes of a
call under way look like at any time. `DecisionTheorem` is about the selection itself, whoever brings the evidence.
With costs of one model the comparison looks at eight numbers of each candidate (`Weight`) one after the other,
which is an order (`AscendingIsAnOrder`) that two kinds never tie in (`WeightFacts`); neighbours ascend, so all do
(`ArrangementAscends`), and two arrangements cannot differ at a first place (`OneArrangement`). That nobody was
measured better than the first (`BestIsFirst`) needs no such condition, since measurements come before costs.
These arguments run along the order by its least place at which they would fail, like `EventsOfChosen` below.

`IndependentPartsProofs`, of `NativeServerRole`: for any set of `accept()` calls. `TicketsSettleOnce` is not inductive: that `close()`
may release whatever is in the table holds because of `TableInv` and `TicketInv`, by which the table is the
calls under way whose ticket is not settled, unless the library has refused a release. `CloseInv` empties the
table before the native close, so no call begins or releases after it; `CallbackInv` ties the callback to the
adoption.

`IndependentPartsProofs`, of `MetadataChannel`: for any messages an application or the Rust library can form
(`ChannelAssumption`, by `WellFormed`) and any bytes a peer in another language writes. Three facts about each
format are established, one by one: its fields lie side by side without sharing a byte and, with the bytes
its decoder wants to be zero, cover all of it (`Sound`); its validator lets no value through that a field cannot
carry (`LayoutCarries`, `BlockCarries`); and its decoder reads the fields the encoder writes. Hence
reading and writing are inverse to each other in both directions, of metadata (`ReadsBack`) and of bytes
(`WritesBack`). What lies behind the metadata comes back because the validators tie its length to the
length fields, and a length is its numeral (`NumeralOfLow`). `ChannelInv` says that what is heard is the decoding of
what is on the wire. In `SurvivesTheorem` the condition `SafeFields` excepts the fields whose validator only masks.

`IndependentPartsProofs`, of `SubmitRequests`: for any tensors and typed payloads a caller can form
(`SubmitAssumption`, by `WellFormed`): any numbers of tiles, sections and frames, of any lengths, in every index mode, with any
strides, codecs and references, as long as no region of the body reaches 2^16 bytes, where the model's lengths end.
`SubmitsInv` says only that what is accepted was decoded from the bytes of what was built. Beyond that
`SubmittedTheorem` is about the layout. Everything in a body is strings one behind another, so there is one
lemma about that (`Laying`: where each begins, and that its bytes are found there), and one about what lies in a part
(`PartOfPart`). With these the regions (`BodyRegions`), the frames behind their offsets (`FramesRead`), tiles
padded to a stride, sections padded to eight bytes (`SectionRead`, `TableRead`), up to three inline objects of which
any may be missing (`RegionRead`), and references (`ReferencesRead`) are each found where a reader looks that knows
only the bytes. Three readers are recursive functions; that they arrive at the same places is shown along the index
by `Upwards`, which takes a set where induction would take an operator. A bitset is the sum of different powers
of two for each byte, whose bits are those of its tiles (`BitsetBits`, `BitsetTiles`). `RequestAccepted` shows that
the decoder, which runs the validators again on what it reads, has nothing to object to.

`ServerSessionProofs`: for any calls, operations, frames and traffic (`TrafficAssumption`, `OrphanAssumption`).
That no event is lost rests on receiving calls running one at a time: by `QueueInv` the queue is the calls under
way, each once, and only its head is polling or releasing, and by `HeldInv` a call holds an event exactly while
it waits for the releases. So an event taken is in one hand, parked or given, until a step of that call moves
it on. `NativeInv` adds that only an abort leaves a poll behind. `OneTerminalReply` needs that an operation
without its flag has no reply at all, in flight or sent (`RepliesInv`): the flag is what a reply looks at. The
library has no theorem for taking an element out of the middle of a sequence, which `receiveSubmit()` does;
`RemovedSet` and its neighbours supply it.

`OInv` adds the order. By `SeqOrder` what is parked is no submit, ascends, and lies behind every event other
than a submit that the application has; submits and other events each ascend among what it was given. By
`CallOrder` the event a call holds is later than all of these, and a `nextEvent()` that polls has found nothing
parked, which is why it overtakes nothing. For `BoundIsUnanswered` it also takes that only what was given is
answered; the two halves of the binding keep each other up, since a reply looks the frame up before it
unbinds it.

`RuntimeObjectsProofs`: for any objects, operations, versions and runs (`RunAssumption`).
`LegalHistoryTheorem` is the refinement of `ObjectHistory`: every announcement sent is legal for a peer that knows
only what it was sent before. An announcement is validated against the table and sent later, and the table
changes when the sending has been confirmed. So `TableInv` says how far the table lags: while the session is open
it is the peer's view, less the announcement that has been sent and is not committed. `SendingInv` says that
what the library is about to send stays legal although the session is closed meanwhile, and `RunsInv` that a
releasing run has one announcement queued, the release of the first object on its list. `GoesOnTheorem` is an
action property: a run goes on only from an object its operation no longer holds.

`SubmitLifecycleProofs`: for any operations, frames, calls and faults, in two parts.
The type invariant holds without a condition.
While the application does not poll `nextEvent()` (`~Reads`), as in `client_submits`, a call under way owns its
frame because only its own settling frees it; that this takes no other call's listener needs
`ListensWhileBound`, and that a call refused before its dispatch has no listener needs `ListenersInv`.
For an application that uses `submitNoWait()` only (`Detached`), as in `client_events` but with any number of
calls on any frames, it is `nextEvent()` that frees them. `FramesInv` says that a pending result or drop still
has the frame of its operation, which rests on `LastInv` (no result or drop follows another terminal event of
its operation in the queue) and `FreshInv` (none is reported before the operation has ended). So no terminal
event meets a frame that has reached its end, where `#finishTerminalFrame` would throw and lose it, and no
event frees a frame that another call has taken since. With both kinds of reader a terminal event frees the
frame of a call of `submit()` that is still under way, and loops drop what is not theirs, so neither condition
can be dropped.

`BrowserSessionProofs`: for any roles, frames, readers and events (`SessionAssumption`, `EventAssumption`). The parts
of `IInv` follow the layers. `CarrierInv`: the carrier keeps packets only after its pump has ended, because the pump
starts with the first role. `ClosingInv`: a client that closes has no open role, and none is pumping once it is
freed. `CallsInv` and `PumpInv`: a submit that awaits its result has a waiter, and readers and waiters of an open
session have a pump. `ReadersInv`: a reader waits only while nothing is queued, so an event handed to a reader
overtakes none. `OrderInv` puts the four places of an event in a row, with the application, queued, in the inbox
and in the carrier: each ascends, and each lies before the next. `EventsInv`: an event in none of these answered
its submit, was the late result of a cancelled operation or a second end of its frame, or was lost by one of the two
defects. That a runtime end the pump throws for is a second one rests on `EndsInv`: a frame that is over has had an
end, and an older one than all that is to come.

`ClientEventRoutingProofs`: for any sessions (reused ids included), readers, polls at once and batch size
(`RoutingAssumption`, and `NobodyAssumption`, by which `Nobody` is no poll and no limit). An event of a session goes
through the library, the polls, the session's queue and the caller. `Line` numbers these places 0 to
`MaxPolls + 2`, in the order the events take, and every step moves a part of one place to the end of a later one,
empties places, or appends at 0. `Content` says what this keeps: an event that was sent is once in the line of
its session, or once in what was spilled and not in the line (`OnceInv`); in no other session's line and
under no bare id (`AtHomeInv`); and nothing is there that was not sent (`SentInv`), so that the next event is new.
While polls have not overlapped each place ascends and what is further on was sent earlier (`SortedInv`); this is
preserved because at most one poll is under way and the places a part leaps over are empty. Which line a batch
is routed to is the matter of `Shape`: by `RoutesInv` an open or closing session has the route of its id and no two
sessions share one, and by `PollsInv` a poll keeps what it took in `fresh` only until it resumes, and no two polls
have the same caller. `EventsOfChosen` says what the recursive function that picks the events of some sessions
from a batch returns: those events, each once, in order. It is proved by the least place at which it would fail,
as an induction over an operator is not to be had.

Only model-checked: liveness (the prover has no proof rules for it here), so `KeepsPromise` with its fairness
and the liveness of the other components. Neither proved nor model-checked, as no configuration mixes them:
`FrameIsOwned`, `ListensWhileBound` and `OnlyLatePayloadsDropped` for an application that calls `submit()` and
`nextEvent()` on one session.
No module uses a RECURSIVE operator.

## What is abstract

Payloads, headers, diagnostics and trace contexts, except in the codec modules, where a byte is a byte;
wall-clock time (a timeout may strike whenever its timer is armed); what the Rust library does (each native
call succeeds, fails or reports an event when the code that calls it allows either). An operation holds one
release-on-drop object in `SubmitLifecycle`; several, and their races, are in `RuntimeObjects`. A Cancel, Abort
or Supersede sent by the peer of a client is left out of `SubmitLifecycle`: the servers of this repository send
none. In role mode `patchSession` always fails; `Patched` stands for the explicit binding. In
`NativeServerRole` the order of the ticket table is left open, and what the policy callback answers is the
application's. A batch of role events of which one cannot be copied loses the rest: `ClientEventRouting` does
not model the copying.

A native call that reports success is taken to have filled in what it returns. The code checks this here and there and
throws, after the library has done its part, and no module has these throws: a session id that was not
negotiated (`assertNegotiatedSessionId`, `native-server/src/index.ts:1457`; the session would stay with the runtime until the
runtime is closed), a submit without its operation handle (`native-server/src/index.ts:1866`; the event would be lost), a loop
of `submit()` that meets a malformed event or another frame (`native-client/src/index.ts:647`), and `requiredHandle`
after the begin of an accept (`transport-tcp/src/native-node.ts:1196`; the ticket would stay with the library) and after the
adoption of a listener (913; the policy callback would stay registered). `TransportHosts` lets every close of a
carrier or a listener succeed; what failing closes do is a matter of `ServerRoleGroup`, where `CloseMayFail`.

`ServerRoleGroup` does not tell overlapping closes of one native session apart: that one has failed is seen by all that
are waiting, which allows more behaviours than the code has. When a close of the server or the runtime waits for several
sessions, it goes on at the first failure, like `Promise.all`. A SessionClose of a client's peer is run with
`submitNoWait()` only, and what it does to submits that wait for credits is not in `SubmitCapacity`. The run of the routing
gives sessions different ids (the theorems about it do not need that).

In `BrowserSession` a frame id is used once, the peer ends an operation once (and the runtime tells its lifecycle
once, which may come before or after), the packet of a deadline goes out in the same step as its submit, and
the timer of a submit does not strike before the submit is out. The capacity policy is "await", and submits do not queue
for credits.

## Not modelled

* The Rust library and its WASM build: not part of the repository, an external choice in every module.
* Release tooling, conformance scripts, examples, benchmarks: build-time scripts without runtime state.
* Cache leases and the lifecycle values of connections and sessions: immutable records whose checks look at one
  argument; no order of calls can go wrong.
* One-way sends (progress, flow updates, trace, backpressure, retry-after): they change nothing but the frame
  counter.
* In the browser client the waiting for credits, `patch` and runtime objects: copies of the code that
  `SubmitCapacity`, `SubmitLifecycle` and `RuntimeObjects` model.
* The Deno files and the QUIC, IPC and WebSocket packages beside TCP: the same control over another library
  and other endpoints. Copying of buffers and conversion of arguments in all of them.
* Frame headers, the texts of diagnostics, result bodies beyond their metadata.

## Plan

1. Waiting for credits in `BrowserSession`, where a window may count twice.
2. Bodies of 2^16 bytes and more in `SubmitRequests`: lengths with all four bytes.
