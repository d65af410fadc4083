--------------------------- MODULE BrowserSession ---------------------------
(***************************************************************************)
(* NnrpBrowserClientSession (packages/browser-client/src/index.ts): the    *)
(* event pump that runs while somebody waits, and hands each event of the  *)
(* role to the submit whose result it is, to the first waiting reader, or  *)
(* to the queue.  It runs on the connection of BrowserConnection; the      *)
(* session under study is Main, with the capacity policy "await".          *)
(***************************************************************************)
EXTENDS BrowserConnection

CONSTANTS Frames,     \* one submit each; a frame id is not used twice
          Waited,     \* the frames of submit(); the others use submitNoWait()
          Cancels,    \* the frames the application calls cancel() or abort() for
          Readers,    \* callers of nextEvent
          Windows,    \* credit windows the peer announces
          InitialCredits,
          MaxSent     \* bound: events the peer sends

ASSUME SessionAssumption ==
  /\ Waited \subseteq Frames /\ Cancels \subseteq Frames
  /\ Windows \subseteq Nat /\ InitialCredits \in Nat /\ MaxSent \in Nat

\* isRuntimeTerminalEvent: a ResultPush, or a ResultDrop or ResultDropReason.
IsRuntimeEnd(e) == e.kind \in {"result", "drop"}

\* All events that tell the end of an operation.
IsEnd(e) == IsRuntimeEnd(e) \/ e.kind = "lifecycle"

\* What an event tells is about a frame or a window.
ASSUME EventAssumption ==
  \A e \in Events :
    /\ e.number \in Nat
    /\ IsEnd(e) => e.frame \in Frames
    /\ e.kind = "flow" => e.credits \in Windows

VARIABLES
  credits,        \* #availableCredits
  call,           \* the submit call of each frame
  inFlight,       \* #inFlightFrames and the keys of #operationByFrame
  terminal,       \* #terminalFrames
  cancelled,      \* #cancelledOperations, by frame
  cancelling,     \* cancel() was called and its packet is being sent
  resultWaiters,  \* the keys of #resultWaiters
  eventPump,      \* #eventPump: "off", "running" in awaitEvent, or "ending" before its finally
  eventQueue,     \* #eventQueue
  remembered,     \* the results in browserRuntimeEventOperationIds
  eventWaiters,   \* #eventWaiters: readers by age
  leaving,        \* readers whose call is rejected and whose waiter is not yet taken out
  sent, delivered, answered, window, \* history
  withdrawn,      \* history: frames that were ever in cancelled
  refused,        \* history: queued results that nextEvent took and threw for
  orphaned        \* history: events handed to the waiter of a reader that is leaving

frameVars == <<inFlight, terminal, cancelled, cancelling, withdrawn>>
callVars == <<call, resultWaiters, answered>>
creditVars == <<credits, window>>
readVars == <<eventQueue, remembered, eventWaiters, leaving, delivered, refused, orphaned>>
sessionVars == <<frameVars, callVars, creditVars, readVars, eventPump, sent>>
vars == <<connectionVars, sessionVars>>

Init ==
  /\ ConnectionInit
  /\ credits = InitialCredits /\ window = InitialCredits
  /\ call = [f \in Frames |-> "none"]
  /\ inFlight = {} /\ terminal = {} /\ cancelled = {} /\ cancelling = {} /\ withdrawn = {}
  /\ resultWaiters = {} /\ answered = {}
  /\ eventPump = "off"
  /\ eventQueue = <<>> /\ eventWaiters = <<>>
  /\ remembered = {} /\ leaving = {} /\ refused = {} /\ orphaned = {}
  /\ sent = <<>> /\ delivered = <<>>

SessionOpen == roles[Main] = "open" /\ closing = "no"

-----------------------------------------------------------------------------
(* The event pump, when it starts and stops *)

\* Calls that await their result hold the pump, as readers do.
Waiting(waiters, results) == waiters # <<>> \/ results # {}

\* The condition of the pump's loop, after the changes of this step.
PumpGoesOn ==
  eventPump' = IF SessionOpen /\ Waiting(eventWaiters', resultWaiters') THEN "running" ELSE "ending"

EnsureEventPump ==
  IF SessionOpen /\ eventPump = "off" THEN PumpGoesOn ELSE UNCHANGED eventPump

\* Mutant: a pump that is over does not look who came since its last turn.
PumpStopsForGood ==
  /\ eventPump = "ending"
  /\ eventPump' = "off"
  /\ UNCHANGED <<connectionVars, frameVars, callVars, creditVars, readVars, sent>>

\* The pump's finally, in a microtask of its own: it starts anew for those who came
\* while #eventPump was still set.
PumpStops ==
  /\ eventPump = "ending"
  /\ eventPump' = IF SessionOpen /\ Waiting(eventWaiters, resultWaiters) THEN "running" ELSE "off"
  /\ UNCHANGED <<connectionVars, frameVars, callVars, creditVars, readVars, sent>>

-----------------------------------------------------------------------------
(* Submitting *)

\* submit or submitNoWait with a credit at hand: reserve, begin the frame, send.
Submit(f) ==
  /\ SessionOpen /\ call[f] = "none" /\ credits > 0
  /\ credits' = credits - 1 /\ window' = window - 1
  /\ call' = [call EXCEPT ![f] = "sending"]
  /\ inFlight' = inFlight \cup {f}
  /\ resultWaiters' = resultWaiters \cup ({f} \cap Waited)
  /\ UNCHANGED <<connectionVars, terminal, cancelled, cancelling, withdrawn, answered,
                 readVars, eventPump, sent>>

\* The submit call is over: its finally forgets the waiter and the frame.
SubmitEnds(f, outcome) ==
  /\ call' = [call EXCEPT ![f] = outcome]
  /\ resultWaiters' = resultWaiters \ {f}
  /\ inFlight' = inFlight \ {f}
  /\ UNCHANGED <<terminal, cancelled, cancelling, withdrawn, answered>>

\* The packet is out.  A result that came first ends the call; else it waits.
SubmitSent(f) ==
  /\ call[f] = "sending"
  /\ UNCHANGED <<connectionVars, creditVars, readVars, sent>>
  /\ \/ /\ f \notin Waited
        /\ call' = [call EXCEPT ![f] = "detached"]
        /\ UNCHANGED <<resultWaiters, answered, frameVars, eventPump>>
     \/ /\ f \in resultWaiters
        /\ call' = [call EXCEPT ![f] = "waiting"]
        /\ UNCHANGED <<resultWaiters, answered, frameVars>>
        /\ EnsureEventPump
     \/ /\ f \in Waited \ resultWaiters
        /\ SubmitEnds(f, IF f \in {e.frame : e \in answered} THEN "answered" ELSE "failed")
        /\ EnsureEventPump

SubmitFails(f) ==
  /\ call[f] = "sending"
  /\ SubmitEnds(f, "failed")
  /\ UNCHANGED <<connectionVars, creditVars, readVars, eventPump, sent>>

\* The timer or the signal of a submit, in force until its frame is finished: the
\* operation is cancelled, and submit() fails.
SubmitCancelled(f) ==
  /\ SessionOpen /\ f \in inFlight
  /\ cancelled' = cancelled \cup {f} /\ withdrawn' = withdrawn \cup {f}
  /\ \/ /\ call[f] = "waiting"
        /\ call' = [call EXCEPT ![f] = "failed"]
        /\ resultWaiters' = resultWaiters \ {f} /\ inFlight' = inFlight \ {f}
     \/ /\ call[f] = "detached" /\ f \notin cancelled
        /\ UNCHANGED <<call, resultWaiters, inFlight>>
  /\ UNCHANGED <<connectionVars, terminal, cancelling, answered, creditVars, readVars, eventPump, sent>>

\* cancel() or abort() of the application; the frame must be known.
CancelCalled(f) ==
  /\ SessionOpen /\ f \in (Cancels \cap inFlight) \ (cancelling \cup cancelled)
  /\ cancelling' = cancelling \cup {f}
  /\ UNCHANGED <<connectionVars, inFlight, terminal, cancelled, withdrawn,
                 callVars, creditVars, readVars, eventPump, sent>>

\* #applySentTerminalControl once the packet is out; the submit is told nothing.
CancelSent(f) ==
  /\ f \in cancelling
  /\ cancelling' = cancelling \ {f}
  /\ \/ cancelled' = cancelled \cup {f} /\ withdrawn' = withdrawn \cup {f}
     \/ UNCHANGED <<cancelled, withdrawn>>
  /\ UNCHANGED <<connectionVars, inFlight, terminal, callVars, creditVars, readVars, eventPump, sent>>

-----------------------------------------------------------------------------
(* The turns of the event pump *)

\* A runtime end ends its frame; a terminal lifecycle event does while the frame is known.
Ends(e) == IsRuntimeEnd(e) \/ (e.kind = "lifecycle" /\ e.frame \in inFlight)

\* completeEvent throws NNRP_FRAME_TERMINAL_DUPLICATE.
CompletesTwice(e) == IsRuntimeEnd(e) /\ e.frame \in terminal

CompleteEvent(e) ==
  /\ terminal' = IF Ends(e) THEN terminal \cup {e.frame} ELSE terminal
  /\ inFlight' = IF Ends(e) THEN inFlight \ {e.frame} ELSE inFlight
  /\ remembered' = IF IsRuntimeEnd(e) /\ e.frame \in inFlight THEN remembered \cup {e} ELSE remembered
  /\ credits' = IF e.kind = "flow" THEN e.credits ELSE credits
  /\ UNCHANGED <<cancelled, cancelling, withdrawn>>

\* The result of a cancelled operation whose frame is known, or was when it came.  A
\* drop is not suppressed.
Suppressed(e) ==
  e.kind = "result" /\ e.frame \in cancelled /\ (e.frame \in inFlight \/ e \in remembered)

Suppress(e) ==
  /\ terminal' = terminal \cup {e.frame} /\ inFlight' = inFlight \ {e.frame}
  /\ UNCHANGED <<cancelled, cancelling, withdrawn>>

\* Mutant: only the readers are rejected; submits keep the pump that fails.
RejectReaders ==
  /\ eventPump' = "ending"
  /\ eventWaiters' = <<>>
  /\ UNCHANGED <<callVars, frameVars>>

\* The pump's catch: all that wait are rejected, and their calls forget their frames.
RejectWaiters ==
  /\ eventPump' = "ending"
  /\ eventWaiters' = <<>>
  /\ resultWaiters' = {}
  /\ call' = [f \in Frames |-> IF call[f] = "waiting" THEN "failed" ELSE call[f]]
  /\ inFlight' = inFlight \ {f \in Frames : call[f] = "waiting"}
  /\ UNCHANGED <<answered, terminal, cancelled, cancelling, withdrawn>>

\* The waiter of the frame, if any, is not settled.
PumpSuppresses(e) ==
  /\ Suppressed(e)
  /\ Suppress(e)
  /\ UNCHANGED <<callVars, creditVars, readVars>>
  /\ PumpGoesOn

PumpAnswers(e) ==
  /\ ~Suppressed(e) /\ ~CompletesTwice(e)
  /\ Ends(e) /\ e.frame \in resultWaiters
  /\ CompleteEvent(e)
  /\ resultWaiters' = resultWaiters \ {e.frame}
  /\ answered' = answered \cup {e}
  /\ call' = IF call[e.frame] = "waiting" THEN [call EXCEPT ![e.frame] = "answered"] ELSE call
  /\ UNCHANGED <<window, eventQueue, eventWaiters, leaving, delivered, refused, orphaned>>
  /\ PumpGoesOn

\* To the first waiter, the one of a rejected call included, whose promise nobody sees.
HandToWaiter(e) ==
  /\ eventWaiters' = Tail(eventWaiters)
  /\ IF Head(eventWaiters) \in leaving
     THEN orphaned' = orphaned \cup {e} /\ UNCHANGED delivered
     ELSE delivered' = Append(delivered, e) /\ UNCHANGED orphaned
  /\ UNCHANGED eventQueue

\* Mutant: what nobody waits for is put in front of the queue.
HandOverInFront(e) ==
  IF eventWaiters # <<>> THEN HandToWaiter(e)
  ELSE eventQueue' = <<e>> \o eventQueue /\ UNCHANGED <<eventWaiters, delivered, orphaned>>

\* Mutant: what nobody waits for is dropped.
HandOverOrDrop(e) ==
  IF eventWaiters # <<>> THEN HandToWaiter(e)
  ELSE UNCHANGED <<eventQueue, eventWaiters, delivered, orphaned>>

HandOver(e) ==
  IF eventWaiters # <<>> THEN HandToWaiter(e)
  ELSE eventQueue' = Append(eventQueue, e) /\ UNCHANGED <<eventWaiters, delivered, orphaned>>

PumpHandsOver(e) ==
  /\ ~Suppressed(e) /\ ~CompletesTwice(e)
  /\ Ends(e) => e.frame \notin resultWaiters
  /\ CompleteEvent(e)
  /\ window' = IF e.kind = "flow" THEN e.credits ELSE window
  /\ HandOver(e)
  /\ UNCHANGED <<callVars, leaving, refused>>
  /\ PumpGoesOn

\* A second runtime end of one frame ends the pump, and the waits of all others.
PumpThrows(e) ==
  /\ ~Suppressed(e) /\ CompletesTwice(e)
  /\ RejectWaiters
  /\ UNCHANGED <<creditVars, eventQueue, remembered, leaving, delivered, refused, orphaned>>

PumpTurn ==
  /\ eventPump = "running" /\ inbox # <<>>
  /\ inbox' = Tail(inbox)
  /\ \/ PumpSuppresses(Head(inbox))
     \/ PumpAnswers(Head(inbox))
     \/ PumpHandsOver(Head(inbox))
     \/ PumpThrows(Head(inbox))
  /\ UNCHANGED <<connection, socket, protocolError, packets, pump, told, closing, roles, bornDeaf, sent>>

\* awaitEvent fails once WASM was told of the carrier or the role is being closed.
PumpFails ==
  /\ eventPump = "running" /\ inbox = <<>>
  /\ told \/ WasmClosed \/ roles[Main] # "open"
  /\ RejectWaiters
  /\ UNCHANGED <<connectionVars, creditVars, eventQueue, remembered, leaving, delivered,
                 refused, orphaned, sent>>

-----------------------------------------------------------------------------
(* Reading *)

\* One turn of the loop of nextEvent: a queued result is suppressed now.
NextEventPassesOver ==
  /\ SessionOpen /\ eventQueue # <<>> /\ Suppressed(Head(eventQueue))
  /\ eventQueue' = Tail(eventQueue)
  /\ Suppress(Head(eventQueue))
  /\ UNCHANGED <<connectionVars, callVars, creditVars, remembered, eventWaiters, leaving,
                 delivered, refused, orphaned, eventPump, sent>>

\* A queued event is completed once more when it is taken: the call throws for a runtime
\* end whose frame the pump has ended, and the event is gone.
NextEventThrows ==
  /\ SessionOpen /\ eventQueue # <<>>
  /\ ~Suppressed(Head(eventQueue)) /\ CompletesTwice(Head(eventQueue))
  /\ eventQueue' = Tail(eventQueue)
  /\ refused' = refused \cup {Head(eventQueue)}
  /\ UNCHANGED <<connectionVars, frameVars, callVars, creditVars, remembered, eventWaiters,
                 leaving, delivered, orphaned, eventPump, sent>>

NextEventTakes ==
  /\ SessionOpen /\ eventQueue # <<>>
  /\ ~Suppressed(Head(eventQueue)) /\ ~CompletesTwice(Head(eventQueue))
  /\ eventQueue' = Tail(eventQueue)
  /\ CompleteEvent(Head(eventQueue))
  /\ delivered' = Append(delivered, Head(eventQueue))
  /\ UNCHANGED <<connectionVars, callVars, window, eventWaiters, leaving, refused, orphaned,
                 eventPump, sent>>

NextEventWaits(r) ==
  /\ SessionOpen /\ eventQueue = <<>> /\ r \notin ToSet(eventWaiters) \cup leaving
  /\ eventWaiters' = Append(eventWaiters, r)
  /\ UNCHANGED <<connectionVars, frameVars, callVars, creditVars, eventQueue, remembered,
                 leaving, delivered, refused, orphaned, sent>>
  /\ EnsureEventPump

\* The timer or the signal of the call rejects it; its waiter stays in line.
ReaderGivesUp(r) ==
  /\ r \in ToSet(eventWaiters) \ leaving
  /\ leaving' = leaving \cup {r}
  /\ UNCHANGED <<connectionVars, frameVars, callVars, creditVars, eventQueue, remembered,
                 eventWaiters, delivered, refused, orphaned, eventPump, sent>>

\* The finally of the call, a microtask later: the waiter is taken out.
ReaderLeaves(r) ==
  /\ r \in leaving
  /\ leaving' = leaving \ {r}
  /\ eventWaiters' = RemoveFirst(eventWaiters, r)
  /\ UNCHANGED <<connectionVars, frameVars, callVars, creditVars, eventQueue, remembered,
                 delivered, refused, orphaned, eventPump, sent>>

\* close(): every wait is rejected at once, every frame forgotten.
SessionForgets ==
  /\ eventWaiters' = <<>> /\ resultWaiters' = {}
  /\ inFlight' = {} /\ terminal' = {} /\ cancelled' = {}
  /\ call' = [f \in Frames |-> IF call[f] = "waiting" THEN "failed" ELSE call[f]]
  /\ UNCHANGED <<creditVars, cancelling, withdrawn, answered, eventPump, eventQueue, remembered,
                 leaving, delivered, refused, orphaned, sent>>

CloseSession == CloseRole(Main) /\ SessionForgets

Close == CloseClient /\ (IF roles[Main] = "open" THEN SessionForgets ELSE UNCHANGED sessionVars)

-----------------------------------------------------------------------------
(* The peer: a runtime end and a lifecycle event for each submit, and windows.
   A message is a task: the microtasks of the calls that gave up are over.     *)

\* The peer ends an operation once, and the runtime tells its lifecycle once.
Repeats(e, x) == e.frame = x.frame /\ (IsRuntimeEnd(e) <=> IsRuntimeEnd(x))

PeerSends ==
  /\ Len(sent) < MaxSent /\ leaving = {}
  /\ \E e \in Events :
       /\ e.number = Len(sent) + 1
       /\ IsEnd(e) =>
            /\ call[e.frame] # "none"
            /\ \A x \in ToSet(sent) : IsEnd(x) => ~Repeats(e, x)
       /\ sent' = Append(sent, e)
       /\ PacketArrives(e)
  /\ UNCHANGED <<frameVars, callVars, creditVars, readVars, eventPump>>

ConnectionSteps ==
  /\ \/ SocketFails \/ SocketCloses \/ ReceiveTimesOut
     \/ ConnectionOpens \/ ConnectionFails \/ CloseCarrier \/ FreeBinding
     \/ \E r \in Roles : OpenSession(r) \/ RoleOpens(r) \/ RoleOpenFails(r) \/ RoleCloses(r)
     \/ \E r \in Roles \ {Main} : CloseRole(r)
  /\ UNCHANGED sessionVars

SessionSteps ==
  \/ \E f \in Frames : \/ Submit(f) \/ SubmitSent(f) \/ SubmitFails(f) \/ SubmitCancelled(f)
                       \/ CancelCalled(f) \/ CancelSent(f)
  \/ PumpTurn \/ PumpFails \/ PumpStops
  \/ NextEventPassesOver \/ NextEventThrows \/ NextEventTakes
  \/ \E r \in Readers : NextEventWaits(r) \/ ReaderGivesUp(r) \/ ReaderLeaves(r)
  \/ CloseSession \/ Close

Next == ConnectionSteps \/ SessionSteps \/ PeerSends

\* Promise continuations and the answers of WASM come; the browser ends a socket that
\* close() was called on.  Nothing is assumed of the peer, timers or the application.
Fairness ==
  /\ WF_vars(PumpTurn) /\ WF_vars(PumpFails) /\ WF_vars(PumpStops)
  /\ WF_vars((ConnectionOpens \/ ConnectionFails) /\ UNCHANGED sessionVars)
  /\ \A r \in Roles : WF_vars((RoleOpens(r) \/ RoleOpenFails(r)) /\ UNCHANGED sessionVars)
                      /\ WF_vars(RoleCloses(r) /\ UNCHANGED sessionVars)
  /\ WF_vars((CloseCarrier \/ FreeBinding) /\ UNCHANGED sessionVars)
  /\ WF_vars(socket = "closing" /\ SocketCloses /\ UNCHANGED sessionVars)

Spec == Init /\ [][Next]_vars
FairSpec == Spec /\ Fairness

-----------------------------------------------------------------------------
(* Properties *)

TypeOK ==
  /\ ConnectionTypeOK
  /\ credits \in Nat
  /\ call \in [Frames -> {"none", "sending", "waiting", "detached", "answered", "failed"}]
  /\ inFlight \cup terminal \cup cancelled \cup cancelling \cup withdrawn \subseteq Frames
  /\ resultWaiters \subseteq Waited
  /\ eventPump \in {"off", "running", "ending"}
  /\ IsInjective(eventWaiters) /\ ToSet(eventWaiters) \cup leaving \subseteq Readers
  /\ ToSet(eventQueue) \cup ToSet(sent) \cup ToSet(delivered) \cup answered \subseteq Events
  /\ remembered \cup refused \cup orphaned \subseteq Events

\* Nobody waits for nothing: while a submit awaits its result or a reader an event, the
\* event pump is running, or about to look once more who waits, however waiters came
\* and left, and when in the pump's last turns they came.
WaitersAreServed ==
  SessionOpen /\ Waiting(eventWaiters, {f \in Frames : call[f] = "waiting"}) => eventPump # "off"

\* Readers get events in the order the peer sent them, through waiters and queue alike.
EventsKeepTheirOrder ==
  /\ TypeOK
  /\ LET line == delivered \o eventQueue \o inbox \o packets
     IN \A j, k \in 1..Len(line) : j < k => line[j].number < line[k].number

\* Another end of the frame came before.
SecondEnd(e) ==
  IsEnd(e) /\ \E x \in ToSet(sent) : IsEnd(x) /\ x.frame = e.frame /\ x.number < e.number

\* What the peer sent to a session is in one of its queues, with a reader or with the
\* submit it answers.  Meant to be missing are the late result of a cancelled operation
\* and a second end of one frame; missing by two defects are the queued results that
\* nextEvent throws for, and events handed to the waiter of a reader that is leaving.
OnlyEndsVanish ==
  \A e \in ToSet(sent) :
    \/ e \in ToSet(packets) \cup ToSet(inbox) \cup ToSet(eventQueue) \cup ToSet(delivered) \cup answered
    \/ e.kind = "result" /\ e.frame \in withdrawn
    \/ SecondEnd(e)
    \/ e \in refused \cup orphaned

\* A credit window counts once: the credits a session believes to have are at most
\* those of the last window it received less the submits that followed.
CreditWindowCountsOnce == credits <= window

\* The end of an operation that nobody cancelled reaches the readers: nextEvent does not
\* take it out of the queue and throw it away.
QueuedResultsAreReturned == \A e \in refused : e.frame \in withdrawn

\* A call of nextEvent that has timed out or was aborted takes no event with it.
LeavingReadersTakeNothing == orphaned = {}

\* A submit that waits can still be ended by its timer, by its signal or by a result:
\* its frame is not over.
WaitingSubmitsCanEnd == \A f \in Frames : call[f] = "waiting" => f \in inFlight

\* The result of an operation that is cancelled by the time the pump takes it is not
\* handed to a reader.
LateResultsAreSuppressed ==
  [][\A e \in Events :
       e.kind = "result" /\ e.frame \in cancelled /\ e \in ToSet(inbox) \ ToSet(inbox')
         => e \notin ToSet(delivered') \cup ToSet(eventQueue')]_vars

\* When WASM has been told that the carrier is gone, every submit that awaits its
\* result ends: with an answer that had arrived before, or with an error.
CarrierFailureEndsWaits ==
  \A f \in Frames : (told /\ call[f] = "waiting") ~> call[f] # "waiting"

\* close() comes to an end, whatever was being opened when it was called.
CloseEnds == closing = "roles" ~> closing = "freed"

\* Whatever the carrier and the peer do, the waits they can end are ended.
WaitsEnd == CarrierFailureEndsWaits /\ CloseEnds
=============================================================================
