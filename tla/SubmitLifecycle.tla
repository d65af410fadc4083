--------------------------- MODULE SubmitLifecycle ---------------------------
(***************************************************************************)
(* Submits of one native client session from dispatch to their end: the    *)
(* frames they occupy, their timeouts and aborts, the Cancel these send,   *)
(* and the events of the native session that end them.                     *)
(*                                                                         *)
(* Events leave one queue through two kinds of reader.  submit() starts a  *)
(* loop (submitResultCompact) that takes events until it meets the result  *)
(* or the terminal lifecycle event of its own operation and drops what     *)
(* else it takes; nextEvent() returns what it takes and finishes the frame *)
(* of a terminal event.  Waiting for credits is in SubmitCapacity, what a  *)
(* release run does in RuntimeObjects: an operation holds one object here. *)
(***************************************************************************)
EXTENDS Naturals, Sequences, FiniteSets

CONSTANTS
  Operations,  \* operation ids, each submitted at most once
  Frames,      \* frame ids
  None,        \* no operation
  Plans,       \* what the application may submit, and how
  Holders,     \* operations that reference a release-on-drop object
  Reads,       \* whether the application polls nextEvent()
  Cancels,     \* whether the application calls cancel() itself
  Closes,      \* whether the application may close the session
  Faults,      \* what may fail: "submit", "send"
  Reported     \* kinds of event the native session may report

Call == [frame : Frames, how : {"submit", "submitNoWait"}, option : {"plain", "signal", "timeout"}]
Event == [op : Operations, kind : {"partial", "result", "drop", "lifecycle"}]
CloseEvent == [op |-> None, kind |-> "close"]  \* SessionClose
NoEvent == [op |-> None, kind |-> "partial"]

ASSUME NoneAssumption == None \notin Operations
ASSUME PlanAssumption == Plans \subseteq [Operations -> Call]
ASSUME HoldingAssumption == Holders \subseteq Operations
ASSUME ReportAssumption == Reported \subseteq {"partial", "result", "drop", "lifecycle", "close"}
ASSUME SwitchAssumption == {Reads, Cancels, Closes} \subseteq BOOLEAN /\ Faults \subseteq {"submit", "send"}

VARIABLES
  plan,                 \* the application's calls
  call,                 \* progress of each call
  operationByFrame,     \* #operationByFrame; #inFlightFrames is its domain
  terminalFrames,       \* #terminalFrames
  cancelledOperations,  \* #cancelledOperations
  cleanups,             \* #submitCancellationCleanups: whose cleanup is at a frame
  listening,            \* calls whose timer or abort listener is armed
  control,              \* progress of the Cancel of each operation
  holding,              \* operations whose object is not released
  operation,            \* the operations in the native session
  events,               \* its event queue
  polling,              \* operations whose submitResultCompact loop runs
  reading,              \* the event nextEvent() is working on
  given,                \* events the application has got
  dropped,              \* events taken from the queue that it will never get
  closed                \* #closed

frameVars == <<operationByFrame, cleanups, listening>>
nativeVars == <<operation, events, polling>>
readVars == <<reading, given, dropped>>
vars == <<plan, call, terminalFrames, cancelledOperations, control, holding, closed,
          frameVars, nativeVars, readVars>>

FrameOf(o) == plan[o].frame
Bound(o) == \E f \in Frames : operationByFrame[f] = o
Unsettled == {"preparing", "waiting", "resolving", "rejecting"}

TypeOK ==
  /\ plan \in Plans
  /\ call \in [Operations -> Unsettled \cup {"idle", "resolved", "returned", "rejected"}]
  /\ operationByFrame \in [Frames -> Operations \cup {None}]
  /\ terminalFrames \subseteq Frames
  /\ cancelledOperations \subseteq Operations
  /\ cleanups \in [Frames -> Operations \cup {None}]
  /\ listening \subseteq Operations
  /\ control \in [Operations -> {"none", "sending", "releasing", "done", "left", "failed"}]
  /\ holding \subseteq Operations
  /\ operation \in [Operations -> {"none", "submitting", "running", "partial", "dropped", "ended"}]
  /\ events \in Seq(Event \cup {CloseEvent})
  /\ polling \subseteq Operations
  /\ reading \in Event \cup {CloseEvent, NoEvent}
  /\ given \subseteq Event \cup {CloseEvent}
  /\ dropped \subseteq Event \cup {CloseEvent}
  /\ closed \in BOOLEAN
  /\ \A o \in Operations : call[o] = "returned" => plan[o].how = "submitNoWait"

Init ==
  /\ plan \in Plans
  /\ call = [o \in Operations |-> "idle"]
  /\ operationByFrame = [f \in Frames |-> None]
  /\ terminalFrames = {}
  /\ cancelledOperations = {}
  /\ cleanups = [f \in Frames |-> None]
  /\ listening = {}
  /\ control = [o \in Operations |-> "none"]
  /\ holding = Holders
  /\ operation = [o \in Operations |-> "none"]
  /\ events = <<>>
  /\ polling = {}
  /\ reading = NoEvent
  /\ given = {}
  /\ dropped = {}
  /\ closed = FALSE
-----------------------------------------------------------------------------
Moves(o, to) == call' = [call EXCEPT ![o] = to]

(* Mutant: a finished frame keeps its timer and its listener.              *)
FinishFrameOnly(f, own) ==
  /\ operationByFrame' = [operationByFrame EXCEPT ![f] = None]
  /\ cleanups' = [cleanups EXCEPT ![f] = None]
  /\ listening' = listening \ own

(* #finishFrame, after the caller has run its own cleanup.                 *)
FinishFrame(f, own) ==
  /\ operationByFrame' = [operationByFrame EXCEPT ![f] = None]
  /\ cleanups' = [cleanups EXCEPT ![f] = None]
  /\ listening' = listening \ (own \cup {cleanups[f]})

(* #armSubmitCancellation and the call of the native library.              *)
Dispatch(o) ==
  /\ Moves(o, "waiting")
  /\ operation' = [operation EXCEPT ![o] = "submitting"]
  /\ IF plan[o].option = "plain" THEN UNCHANGED <<cleanups, listening>>
     ELSE /\ cleanups' = [cleanups EXCEPT ![FrameOf(o)] = o]
          /\ listening' = listening \cup {o}

(* Mutant: #beginFrame does not look whether the frame is in flight.       *)
AnyFrame(o) == TRUE

FrameFree(o) == operationByFrame[FrameOf(o)] = None

(* submit, submitNoWait: the frame is occupied and, for a call with a      *)
(* timeout, the Deadline sent before the submit is dispatched.             *)
Submit(o) ==
  /\ call[o] = "idle"
  /\ ~closed
  /\ IF FrameFree(o)
     THEN /\ operationByFrame' = [operationByFrame EXCEPT ![FrameOf(o)] = o]
          /\ terminalFrames' = terminalFrames \ {FrameOf(o)}
          /\ IF plan[o].option = "timeout"
             THEN Moves(o, "preparing") /\ UNCHANGED <<cleanups, listening, operation>>
             ELSE Dispatch(o)
     ELSE Moves(o, "rejected") /\ UNCHANGED <<terminalFrames, frameVars, operation>>
  /\ UNCHANGED <<plan, cancelledOperations, control, holding, events, polling, readVars, closed>>

(* The Deadline has been sent, or has failed, or the time is up.           *)
Prepared(o) ==
  /\ call[o] = "preparing"
  /\ \/ Dispatch(o) /\ UNCHANGED operationByFrame
     \/ Moves(o, "rejected") /\ FinishFrame(FrameOf(o), {}) /\ UNCHANGED operation
  /\ UNCHANGED <<plan, terminalFrames, cancelledOperations, control, holding, events, polling,
                 readVars, closed>>

(* The native library has taken the submit.                                *)
Accepted(o) ==
  /\ operation[o] = "submitting"
  /\ operation' = [operation EXCEPT ![o] = "running"]
  /\ \/ plan[o].how = "submit" /\ polling' = polling \cup {o} /\ UNCHANGED call
     \/ plan[o].how = "submitNoWait" /\ Moves(o, "returned") /\ UNCHANGED polling
  /\ UNCHANGED <<plan, terminalFrames, cancelledOperations, control, holding, frameVars, events,
                 readVars, closed>>

Refused(o) ==
  /\ operation[o] = "submitting"
  /\ "submit" \in Faults \/ closed
  /\ operation' = [operation EXCEPT ![o] = "ended"]
  /\ IF call[o] = "waiting" THEN Moves(o, "rejecting") ELSE UNCHANGED call
  /\ UNCHANGED <<plan, terminalFrames, cancelledOperations, control, holding, frameVars, events,
                 polling, readVars, closed>>

(* The continuation of an ended call: cleanup and #finishFrame.            *)
Settles(o) ==
  /\ \/ call[o] = "resolving" /\ Moves(o, "resolved")
     \/ call[o] = "rejecting" /\ Moves(o, "rejected")
  /\ FinishFrame(FrameOf(o), {o})
  /\ UNCHANGED <<plan, terminalFrames, cancelledOperations, control, holding, nativeVars, readVars, closed>>
-----------------------------------------------------------------------------
(***************************************************************************)
(* Cancelling                                                              *)
(***************************************************************************)

(* A Cancel needs the frame its operation is bound to.                     *)
SendsCancel(o) ==
  control' = IF control[o] = "none" /\ Bound(o) /\ ~closed
             THEN [control EXCEPT ![o] = "sending"] ELSE control

(* Mutant: a timeout sends Cancel but leaves the call pending.             *)
TriggerWithoutReject(o) ==
  /\ o \in listening
  /\ listening' = listening \ {o}
  /\ cancelledOperations' = cancelledOperations \cup {o}
  /\ SendsCancel(o)
  /\ UNCHANGED <<plan, call, terminalFrames, holding, operationByFrame, cleanups, nativeVars, readVars, closed>>

(* The timer fires or the signal aborts.                                   *)
Trigger(o) ==
  /\ o \in listening
  /\ listening' = listening \ {o}
  /\ cancelledOperations' = cancelledOperations \cup {o}
  /\ IF plan[o].how = "submit" /\ call[o] = "waiting" THEN Moves(o, "rejecting") ELSE UNCHANGED call
  /\ SendsCancel(o)
  /\ UNCHANGED <<plan, terminalFrames, holding, operationByFrame, cleanups, nativeVars, readVars, closed>>

(* cancel() of the application; one Cancel per operation is followed.      *)
AppCancels(o) ==
  /\ Cancels
  /\ control[o] = "none" /\ Bound(o) /\ ~closed
  /\ SendsCancel(o)
  /\ UNCHANGED <<plan, call, terminalFrames, cancelledOperations, holding, frameVars, nativeVars,
                 readVars, closed>>

(* #applySentTerminalControl                                               *)
CancelSent(o) ==
  /\ control[o] = "sending"
  /\ cancelledOperations' = cancelledOperations \cup {o}
  /\ control' = [control EXCEPT ![o] = "releasing"]
  /\ UNCHANGED <<plan, call, terminalFrames, holding, frameVars, nativeVars, readVars, closed>>

CancelFails(o) ==
  /\ control[o] = "sending"
  /\ "send" \in Faults \/ closed
  /\ control' = [control EXCEPT ![o] = "failed"]
  /\ UNCHANGED <<plan, call, terminalFrames, cancelledOperations, holding, frameVars, nativeVars,
                 readVars, closed>>

(* #releaseOperationObjects: an ObjectRelease travels on the frame of its  *)
(* operation, too.                                                         *)
Releases(o) ==
  /\ control[o] = "releasing"
  /\ IF o \in holding /\ ~closed /\ ~Bound(o)
     THEN control' = [control EXCEPT ![o] = "left"] /\ UNCHANGED holding
     ELSE control' = [control EXCEPT ![o] = "done"] /\ holding' = holding \ {o}
  /\ UNCHANGED <<plan, call, terminalFrames, cancelledOperations, frameVars, nativeVars, readVars, closed>>
-----------------------------------------------------------------------------
(***************************************************************************)
(* Events.  The native session reports a partial result or none, then a    *)
(* result, or a terminal lifecycle event that a drop may precede; and that *)
(* the peer has closed the session.                                        *)
(***************************************************************************)
Emits(o, kind, from, to) ==
  /\ kind \in Reported
  /\ operation[o] \in from
  /\ events' = Append(events, [op |-> o, kind |-> kind])
  /\ operation' = [operation EXCEPT ![o] = to]

Emit(o) ==
  /\ \/ Emits(o, "partial", {"running"}, "partial")
     \/ Emits(o, "drop", {"running", "partial"}, "dropped")
     \/ Emits(o, "result", {"running", "partial"}, "ended")
     \/ Emits(o, "lifecycle", {"running", "partial", "dropped"}, "ended")
  /\ UNCHANGED <<plan, call, terminalFrames, cancelledOperations, control, holding, frameVars, polling,
                 readVars, closed>>

EmitClose ==
  /\ "close" \in Reported
  /\ CloseEvent \notin {reading} \cup given \cup dropped \cup {events[i] : i \in DOMAIN events}
  /\ events' = Append(events, CloseEvent)
  /\ UNCHANGED <<plan, call, terminalFrames, cancelledOperations, control, holding, frameVars, operation,
                 polling, readVars, closed>>

Drops(e) == dropped' = dropped \cup {e} /\ UNCHANGED given
Gives(e) == given' = given \cup {e} /\ UNCHANGED dropped

(* submitResultCompact takes the next event.                               *)
LoopTakes(o) ==
  LET e == Head(events)
  IN /\ o \in polling
     /\ events # <<>>
     /\ ~closed
     /\ events' = Tail(events)
     /\ IF e.op = o /\ e.kind \in {"result", "lifecycle"}
        THEN /\ polling' = polling \ {o}
             /\ IF call[o] = "waiting" THEN Moves(o, "resolving") /\ Gives(e)
                ELSE Drops(e) /\ UNCHANGED call
        ELSE Drops(e) /\ UNCHANGED <<polling, call>>
     /\ UNCHANGED <<plan, terminalFrames, cancelledOperations, control, holding, frameVars, operation,
                    reading, closed>>

(* The native poll of a closed session fails.                              *)
LoopFails(o) ==
  /\ o \in polling
  /\ closed
  /\ polling' = polling \ {o}
  /\ IF call[o] = "waiting" THEN Moves(o, "rejecting") ELSE UNCHANGED call
  /\ UNCHANGED <<plan, terminalFrames, cancelledOperations, control, holding, frameVars, operation,
                 events, readVars, closed>>

(* nextEvent() takes the next event and, some microtasks later, handles it. *)
ReaderTakes ==
  /\ Reads
  /\ ~closed
  /\ reading = NoEvent /\ events # <<>>
  /\ reading' = Head(events)
  /\ events' = Tail(events)
  /\ UNCHANGED <<plan, call, terminalFrames, cancelledOperations, control, holding, frameVars,
                 operation, polling, given, dropped, closed>>

(* Mutant: nothing is heard of a cancelled operation any more.             *)
SuppressedAll(e) == e.op \in cancelledOperations

(* #shouldSuppressCancelledPayload                                         *)
Suppressed(e) == e.kind \in {"partial", "result"} /\ e.op \in cancelledOperations

(* #finishTerminalFrame; on a frame that is terminal already it throws,    *)
(* and the event is gone.                                                  *)
FinishesTerminal(f, e) ==
  IF f \in terminalFrames THEN Drops(e) /\ UNCHANGED <<terminalFrames, frameVars>>
  ELSE Gives(e) /\ terminalFrames' = terminalFrames \cup {f} /\ FinishFrame(f, {})

(* A SessionClose of the peer: timers and listeners stay armed.            *)
PeerClosed ==
  /\ operationByFrame' = [f \in Frames |-> None]
  /\ terminalFrames' = {}
  /\ cancelledOperations' = {}
  /\ Gives(CloseEvent)
  /\ UNCHANGED <<cleanups, listening>>

(* completeEvent                                                           *)
ReaderHandles ==
  /\ reading # NoEvent
  /\ reading' = NoEvent
  /\ \/ reading = CloseEvent /\ PeerClosed
     \/ /\ Suppressed(reading)
        /\ Drops(reading) /\ UNCHANGED <<terminalFrames, cancelledOperations, frameVars>>
     \/ /\ ~Suppressed(reading) /\ reading.kind \in {"result", "drop"}
        /\ FinishesTerminal(FrameOf(reading.op), reading) /\ UNCHANGED cancelledOperations
     \/ /\ reading.kind = "lifecycle" /\ Bound(reading.op)
        /\ \E f \in Frames : operationByFrame[f] = reading.op /\ FinishesTerminal(f, reading)
        /\ UNCHANGED cancelledOperations
     \/ /\ ~Suppressed(reading)
        /\ reading.kind = "partial" \/ (reading.kind = "lifecycle" /\ ~Bound(reading.op))
        /\ Gives(reading) /\ UNCHANGED <<terminalFrames, cancelledOperations, frameVars>>
  /\ UNCHANGED <<plan, call, control, holding, nativeVars, closed>>

(* close                                                                   *)
Close ==
  /\ Closes
  /\ ~closed
  /\ closed' = TRUE
  /\ operationByFrame' = [f \in Frames |-> None]
  /\ terminalFrames' = {}
  /\ cancelledOperations' = {}
  /\ listening' = listening \ {cleanups[f] : f \in Frames}
  /\ cleanups' = [f \in Frames |-> None]
  /\ UNCHANGED <<plan, call, control, holding, nativeVars, readVars>>
-----------------------------------------------------------------------------
CallStep(o) == Prepared(o) \/ Accepted(o) \/ Refused(o) \/ Settles(o)
CancelStep(o) == CancelSent(o) \/ CancelFails(o) \/ Releases(o)
LoopStep(o) == LoopTakes(o) \/ LoopFails(o)

Next ==
  \/ \E o \in Operations :
       Submit(o) \/ CallStep(o) \/ Trigger(o) \/ AppCancels(o) \/ CancelStep(o) \/ Emit(o) \/ LoopStep(o)
  \/ EmitClose
  \/ ReaderTakes
  \/ ReaderHandles
  \/ Close

(***************************************************************************)
(* Continuations run, native calls settle, timers fire and loops poll.     *)
(* Nothing obliges the peer to answer, or a signal to abort.               *)
(***************************************************************************)
Fairness ==
  /\ \A o \in Operations :
       /\ WF_vars(CallStep(o)) /\ WF_vars(CancelStep(o)) /\ WF_vars(LoopStep(o))
       /\ WF_vars(plan[o].option = "timeout" /\ Trigger(o))
  /\ WF_vars(ReaderHandles)

Spec == Init /\ [][Next]_vars
FairSpec == Spec /\ Fairness
-----------------------------------------------------------------------------
SessionOpen == ~closed /\ CloseEvent \notin given

(* While a call is under way its frame is its own: a timeout, an abort or  *)
(* a late event of another call never frees it.                            *)
FrameIsOwned ==
  /\ TypeOK
  /\ SessionOpen => \A o \in Operations : call[o] \in Unsettled => operationByFrame[FrameOf(o)] = o

(* A timer or an abort listener never outlives the frame of its call.      *)
ListensWhileBound ==
  SessionOpen => \A o \in listening : operationByFrame[FrameOf(o)] = o

(* The only events nextEvent() keeps from the application are partial and  *)
(* normal results of operations that have been cancelled.                  *)
OnlyLatePayloadsDropped ==
  SessionOpen => \A e \in dropped : e.kind \in {"partial", "result"} /\ e.op \in cancelledOperations

(* A submit() with a timeout ends, whatever the peer does.                 *)
TimedSubmitEnds ==
  \A o \in Operations :
    plan[o].option = "timeout" /\ plan[o].how = "submit" /\ call[o] \in Unsettled
      ~> call[o] \in {"resolved", "rejected"}

(* The objects of a cancelled operation are released.                      *)
CancelledIsReleased == \A o \in Operations : control[o] # "left"
=============================================================================
