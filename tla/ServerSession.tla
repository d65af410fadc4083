---------------------------- MODULE ServerSession ----------------------------
(***************************************************************************)
(* One accepted session of a native server: how nextEvent() and            *)
(* receiveSubmit() share the events of the native event queue, and how an  *)
(* accepted operation is answered.                                         *)
(*                                                                         *)
(* Receiving calls run one after the other (#serializeReceive).  The       *)
(* running one polls the native queue; receiveSubmit() parks what is not a *)
(* submit for the next nextEvent().  A timeout or an abort ends the call   *)
(* but not its native poll, which stays behind as an orphan and swallows   *)
(* an event.  Every reply of an operation passes one terminal flag.        *)
(***************************************************************************)
EXTENDS Integers, Sequences, FiniteSets, SequencesExt

CONSTANTS
  Calls,       \* receiving calls that may be outstanding at once
  Ops,         \* operation ids
  Frames,      \* frame ids
  None,        \* no frame
  Traffic,     \* the event sequences a peer may send
  FaultSets,   \* which things may go wrong together
  MaxOrphans   \* bound: native polls left behind by interrupted calls

Event == [kind : {"submit", "cancel", "other"}, op : Ops, frame : Frames]
FaultKinds == {"abort", "release", "send", "encode"}

ASSUME FrameAssumption == None \notin Frames
ASSUME TrafficAssumption == Traffic \subseteq Seq(Event)
ASSUME FaultAssumption == FaultSets \subseteq SUBSET FaultKinds
ASSUME OrphanAssumption == MaxOrphans \in Nat

VARIABLES
  faults,          \* what may go wrong in this execution
  wire,            \* everything the peer sends, in order; an event is an index
  taken,           \* how many events native polls have taken
  orphans,         \* native polls whose call has ended
  call,            \* progress of each receiving call
  mode,            \* nextEvent ("event") or receiveSubmit ("submit")
  timed,           \* whether the call has a timeout
  queue,           \* #receiveQueue; its head runs
  held,            \* the event a call waits on object releases for, or 0
  pendingEvents,   \* #pendingEvents
  given,           \* the events returned to the application, in order
  refused,         \* events that failed their call: a frame mismatch, a refused release
  operationFrames, \* #operationFrames
  closed,          \* #closed
  terminal,        \* operations whose #terminal flag is set
  replying,        \* terminal replies in flight per operation
  answered         \* terminal replies sent per operation

nativeVars == <<wire, taken, orphans>>
callVars   == <<call, mode, timed, queue, held>>
eventVars  == <<pendingEvents, given, refused, operationFrames, closed>>
replyVars  == <<terminal, replying, answered>>
vars == <<faults, nativeVars, callVars, eventVars, replyVars>>

Index == 1 .. Len(wire)
Parked == ToSet(pendingEvents)
Given == ToSet(given)
Opened == {i \in Given : wire[i].kind = "submit"}

TypeOK ==
  /\ faults \in FaultSets
  /\ wire \in Traffic
  /\ taken \in 0 .. Len(wire)
  /\ orphans \in 0 .. MaxOrphans
  /\ call \in [Calls -> {"idle", "queued", "polling", "releasing"}]
  /\ mode \in [Calls -> {"event", "submit"}]
  /\ timed \in [Calls -> BOOLEAN]
  /\ queue \in Seq(Calls)
  /\ held \in [Calls -> 0 .. taken]
  /\ pendingEvents \in Seq(1 .. taken)
  /\ given \in Seq(1 .. taken)
  /\ refused \subseteq 1 .. taken
  /\ operationFrames \in [Ops -> Frames \cup {None}]
  /\ closed \in BOOLEAN
  /\ terminal \subseteq Index
  /\ replying \in [Index -> Nat]
  /\ answered \in [Index -> Nat]

Init ==
  /\ faults \in FaultSets
  /\ wire \in Traffic
  /\ taken = 0
  /\ orphans = 0
  /\ call = [c \in Calls |-> "idle"]
  /\ mode = [c \in Calls |-> "event"]
  /\ timed = [c \in Calls |-> FALSE]
  /\ queue = <<>>
  /\ held = [c \in Calls |-> 0]
  /\ pendingEvents = <<>>
  /\ given = <<>>
  /\ refused = {}
  /\ operationFrames = [o \in Ops |-> None]
  /\ closed = FALSE
  /\ terminal = {}
  /\ replying = [i \in Index |-> 0]
  /\ answered = [i \in Index |-> 0]
-----------------------------------------------------------------------------
(***************************************************************************)
(* Receiving                                                               *)
(***************************************************************************)
Runs(c) == queue # <<>> /\ Head(queue) = c

Ends(c) ==
  /\ call' = [call EXCEPT ![c] = "idle"]
  /\ held' = [held EXCEPT ![c] = 0]
  /\ queue' = Tail(queue)
  /\ UNCHANGED <<mode, timed>>

Waits(c, at, event) ==
  /\ call' = [call EXCEPT ![c] = at]
  /\ held' = [held EXCEPT ![c] = event]
  /\ UNCHANGED <<mode, timed, queue>>

(* nextEvent, receiveSubmit: queue behind the calls that came before.      *)
Receive(c, m, t) ==
  /\ call[c] = "idle"
  /\ ~closed
  /\ call' = [call EXCEPT ![c] = "queued"]
  /\ mode' = [mode EXCEPT ![c] = m]
  /\ timed' = [timed EXCEPT ![c] = t]
  /\ queue' = Append(queue, c)
  /\ UNCHANGED <<held, nativeVars, eventVars, replyVars>>

(* Mutant: nextEvent() passes over what is queued and polls.               *)
WantedNothing(c) ==
  IF mode[c] = "event" THEN 0
  ELSE SelectInSeq(pendingEvents, LAMBDA i : wire[i].kind = "submit")

(* The index in #pendingEvents of the event the call would take, or 0.     *)
Wanted(c) ==
  IF mode[c] = "event" THEN (IF pendingEvents = <<>> THEN 0 ELSE 1)
  ELSE SelectInSeq(pendingEvents, LAMBDA i : wire[i].kind = "submit")

(* A queued event is taken out and returned, or dropped by an abort.       *)
TakesQueued(c) ==
  /\ Wanted(c) > 0
  /\ pendingEvents' = RemoveAt(pendingEvents, Wanted(c))
  /\ Ends(c)
  /\ \/ given' = Append(given, pendingEvents[Wanted(c)])
     \/ "abort" \in faults /\ UNCHANGED given
  /\ UNCHANGED <<nativeVars, refused, operationFrames, closed, replyVars>>

(* No event is queued: the native queue is polled.  The poll of a closed   *)
(* session is rejected; with an aborted signal the poll starts all the     *)
(* same and is left behind.                                                *)
StartsPoll(c) ==
  /\ Wanted(c) = 0
  /\ \/ ~closed /\ Waits(c, "polling", 0) /\ UNCHANGED orphans
     \/ closed /\ Ends(c) /\ UNCHANGED orphans
     \/ /\ ~closed /\ "abort" \in faults /\ orphans < MaxOrphans
        /\ orphans' = orphans + 1
        /\ Ends(c)
  /\ UNCHANGED <<wire, taken, eventVars, replyVars>>

Start(c) ==
  /\ call[c] = "queued"
  /\ Runs(c)
  /\ TakesQueued(c) \/ StartsPoll(c)

(* Mutant: receiveSubmit drops what is not a submit.                       *)
ParkNothing(i) == pendingEvents

Park(i) == Append(pendingEvents, i)

FrameOf(o) == operationFrames[o]

Bindable(i) == FrameOf(wire[i].op) \in {None, wire[i].frame}

(* The end of #pollServerEvent for event i and what its caller does next.  *)
Delivers(c, i) ==
  \/ /\ wire[i].kind = "submit"
     /\ Ends(c)
     /\ IF Bindable(i)
        THEN /\ operationFrames' = [operationFrames EXCEPT ![wire[i].op] = wire[i].frame]
             /\ given' = Append(given, i)
             /\ UNCHANGED refused
        ELSE /\ refused' = refused \cup {i}
             /\ UNCHANGED <<operationFrames, given>>
     /\ UNCHANGED pendingEvents
  \/ /\ wire[i].kind # "submit" /\ mode[c] = "event"
     /\ Ends(c)
     /\ given' = Append(given, i)
     /\ UNCHANGED <<pendingEvents, refused, operationFrames>>
  \/ /\ wire[i].kind # "submit" /\ mode[c] = "submit"
     /\ IF closed THEN Ends(c) ELSE Waits(c, "polling", 0)
     /\ pendingEvents' = Park(i)
     /\ UNCHANGED <<given, refused, operationFrames>>

(* A native poll returns the next event; Cancel, Abort and Supersede first *)
(* wait until the operation's objects have been released.                  *)
PollReturns(c) ==
  /\ call[c] = "polling"
  /\ taken < Len(wire)
  /\ taken' = taken + 1
  /\ IF wire[taken + 1].kind = "cancel"
     THEN Waits(c, "releasing", taken + 1) /\ UNCHANGED eventVars
     ELSE Delivers(c, taken + 1) /\ UNCHANGED closed
  /\ UNCHANGED <<wire, orphans, replyVars>>

Released(c) ==
  /\ call[c] = "releasing"
  /\ Delivers(c, held[c])
  /\ UNCHANGED <<nativeVars, closed, replyVars>>

(* A release is refused, always so once the session is closed: the call    *)
(* fails and the event is gone.                                            *)
ReleaseFails(c) ==
  /\ call[c] = "releasing"
  /\ "release" \in faults \/ closed
  /\ Ends(c)
  /\ refused' = refused \cup {held[c]}
  /\ UNCHANGED <<nativeVars, pendingEvents, given, operationFrames, closed, replyVars>>

(* Mutant: a call that fails blocks the queue for the calls behind it.     *)
PollEndsUnhandled(c) ==
  /\ call[c] = "polling"
  /\ timed[c] \/ closed
  /\ call' = [call EXCEPT ![c] = "idle"]
  /\ UNCHANGED <<mode, timed, queue, held, nativeVars, eventVars, replyVars>>

(* The native poll of a timed call runs out, or that of a closed session.  *)
PollEnds(c) ==
  /\ call[c] = "polling"
  /\ timed[c] \/ closed
  /\ Ends(c)
  /\ UNCHANGED <<nativeVars, eventVars, replyVars>>

(* The JavaScript timer fires or the signal aborts before the native poll  *)
(* returns: the call is rejected, the poll goes on without it.             *)
Interrupted(c) ==
  /\ call[c] = "polling"
  /\ "abort" \in faults
  /\ orphans < MaxOrphans
  /\ orphans' = orphans + 1
  /\ Ends(c)
  /\ UNCHANGED <<wire, taken, eventVars, replyVars>>

OrphanReturns ==
  /\ orphans > 0
  /\ orphans' = orphans - 1
  /\ \/ taken < Len(wire) /\ taken' = taken + 1
     \/ UNCHANGED taken
  /\ UNCHANGED <<wire, callVars, eventVars, replyVars>>
-----------------------------------------------------------------------------
(***************************************************************************)
(* Replying                                                                *)
(***************************************************************************)

(* Mutant: the flag is looked at but never set.                            *)
NeverFlagged(i) == terminal

Flagged(i) == terminal \cup {i}

(* sendResult and sendResultDrop set the flag, then send; an encoder that  *)
(* throws synchronously leaves the flag set and sends nothing.             *)
Reply(i) ==
  /\ i \in Opened \ terminal
  /\ ~closed
  /\ terminal' = Flagged(i)
  /\ \/ replying' = [replying EXCEPT ![i] = @ + 1]
     \/ "encode" \in faults /\ UNCHANGED replying
  /\ UNCHANGED <<answered, nativeVars, callVars, eventVars>>

(* Mutant: an answered operation keeps its frame.                          *)
RemembersAnswered(i) == operationFrames

ForgetsAnswered(i) ==
  IF FrameOf(wire[i].op) = wire[i].frame
  THEN [operationFrames EXCEPT ![wire[i].op] = None] ELSE operationFrames

ReplySent(i) ==
  /\ replying[i] > 0
  /\ replying' = [replying EXCEPT ![i] = @ - 1]
  /\ answered' = [answered EXCEPT ![i] = @ + 1]
  /\ operationFrames' = ForgetsAnswered(i)
  /\ UNCHANGED <<terminal, nativeVars, callVars, pendingEvents, given, refused, closed>>

ReplyFails(i) ==
  /\ replying[i] > 0
  /\ "send" \in faults \/ closed
  /\ replying' = [replying EXCEPT ![i] = @ - 1]
  /\ terminal' = terminal \ {i}
  /\ UNCHANGED <<answered, nativeVars, callVars, eventVars>>

(* NnrpServerSession.close *)
Close ==
  /\ ~closed
  /\ closed' = TRUE
  /\ pendingEvents' = <<>>
  /\ operationFrames' = [o \in Ops |-> None]
  /\ UNCHANGED <<nativeVars, callVars, given, refused, replyVars>>
-----------------------------------------------------------------------------
Runnable(c) == Start(c) \/ Released(c) \/ PollReturns(c) \/ PollEnds(c)

Next ==
  /\ \/ \E c \in Calls, m \in {"event", "submit"}, t \in BOOLEAN : Receive(c, m, t)
     \/ \E c \in Calls : Runnable(c) \/ ReleaseFails(c) \/ Interrupted(c)
     \/ OrphanReturns
     \/ \E i \in Index : Reply(i) \/ ReplySent(i) \/ ReplyFails(i)
     \/ Close
  /\ UNCHANGED faults

(***************************************************************************)
(* The event loop runs queued continuations, and a native poll returns an  *)
(* event that is there or runs out.                                        *)
(***************************************************************************)
Fairness ==
  /\ \A c \in Calls : WF_vars(Runnable(c) /\ UNCHANGED faults)
  /\ WF_vars(OrphanReturns /\ UNCHANGED faults)

Spec == Init /\ [][Next]_vars
FairSpec == Spec /\ Fairness
-----------------------------------------------------------------------------
InOrder(s, Test(_)) ==
  \A i, j \in DOMAIN s : i < j /\ Test(wire[s[i]]) /\ Test(wire[s[j]]) => s[i] < s[j]

(* nextEvent() and receiveSubmit() never reorder: what the application has *)
(* got and what is still parked is, submits and other events each for      *)
(* themselves, in the order of the wire, and no event is there twice.      *)
ReceivedInOrder ==
  /\ InOrder(given, LAMBDA e : e.kind = "submit")
  /\ InOrder(given \o pendingEvents, LAMBDA e : e.kind # "submit")

(* An event has been returned, is parked, belongs to the running call, or  *)
(* made its call fail: a submit for its frame, a cancellation for an       *)
(* object release that was refused.                                        *)
Accounted(i) == i \in Given \cup Parked \cup refused \cup {held[c] : c \in Calls}

(* receiveSubmit() drops nothing it skips: every event an open session has *)
(* taken is accounted for, as long as no call is aborted or timed out by   *)
(* JavaScript.                                                             *)
NoEventLost == closed \/ "abort" \in faults \/ \A i \in 1 .. taken : Accounted(i)

(* What doc/todo/v1-preview4/04-server-control-surface.md:8 says of an     *)
(* open session: runtime carries every event that is not a submit.         *)
RuntimeCarriesEveryEvent ==
  closed \/ \A i \in 1 .. taken : wire[i].kind # "submit" => Accounted(i)

(* Submits the peer sent under one id at one frame.                        *)
SameBinding(i, j) == wire[i].op = wire[j].op /\ wire[i].frame = wire[j].frame

(* What is bound is a submit the application has, unanswered.              *)
BoundHasSubmit ==
  \A o \in Ops : FrameOf(o) # None =>
    \E i \in Opened : wire[i].op = o /\ wire[i].frame = FrameOf(o) /\ answered[i] = 0

(* What is unanswered is bound, but for an answer under the same id.       *)
UnansweredIsBound ==
  ~closed => \A i \in Opened :
    \/ answered[i] > 0
    \/ FrameOf(wire[i].op) = wire[i].frame
    \/ \E j \in Opened : SameBinding(i, j) /\ answered[j] > 0

(* Only submits the application has can be bound, at one frame at a time:  *)
(* a bound operation has been returned at that frame and has not been      *)
(* answered, and an unanswered one of an open session is still bound, so   *)
(* its trace context can be sent, unless the peer submitted the operation  *)
(* more than once at that frame and another of those has been answered.    *)
BoundIsUnanswered == TypeOK /\ BoundHasSubmit /\ UnansweredIsBound

(* At most one terminal reply of an operation is ever sent, even when a    *)
(* failed one is tried again and replies race; and a terminal flag stands  *)
(* for a reply that is in flight or has been sent, as long as the encoder  *)
(* of a reply does not throw.                                              *)
OneTerminalReply ==
  /\ \A i \in Index : answered[i] + replying[i] <= 1
  /\ "encode" \in faults \/ \A i \in terminal : answered[i] + replying[i] > 0

(* A queued call gets its turn, whatever the call before it meets, unless  *)
(* a call without a timeout is waiting for events.                         *)
QueueMoves ==
  \A c \in Calls :
    call[c] = "queued" ~> (call[c] # "queued" \/ \E d \in Calls : call[d] = "polling" /\ ~timed[d])
=============================================================================
