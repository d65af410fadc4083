---------------------------- MODULE RuntimeObjects ----------------------------
(***************************************************************************)
(* RuntimeObjectLifecycle and the queue in front of it.                    *)
(*                                                                         *)
(* A session announces runtime objects to its peer.  Every announcement    *)
(* goes through #runtimeObjectQueue: it is validated against the tracked   *)
(* objects when its turn comes, sent, and committed once the native send   *)
(* has succeeded.  When an operation is cancelled, aborted or superseded   *)
(* the session lists the release-on-drop objects the operation holds and   *)
(* releases them one after the other through the same queue.               *)
(***************************************************************************)
EXTENDS Integers, Sequences, FiniteSets, SequencesExt

CONSTANTS
  Objects,      \* object ids, positive numbers
  Operations,   \* operation ids
  NoOperation,  \* operation id 0n
  Versions,     \* object versions, positive numbers
  Deltas,       \* delta sequence numbers, positive numbers
  Announced,    \* what the application may announce
  Runs,         \* terminal controls that release the objects of an operation
  SendMayFail,  \* whether a native send may fail
  MaxQueue      \* bound: announcements queued at once

ASSUME ObjectAssumption == Objects \subseteq Nat \ {0} /\ IsFiniteSet(Objects)
ASSUME OperationAssumption == NoOperation \notin Operations
ASSUME NumberAssumption == Versions \subseteq Nat \ {0} /\ Deltas \subseteq Nat \ {0}
ASSUME SendAssumption == SendMayFail \in BOOLEAN /\ MaxQueue \in Nat

Scope == Operations \cup {NoOperation}
Announcement ==
  [type : {"declare"}, object : Objects, drop : BOOLEAN]
    \cup [type : {"reference"}, object : Objects, operation : Scope, version : Versions]
    \cup [type : {"change"}, object : Objects, delta : Deltas]
    \cup [type : {"release"}, object : Objects, operation : Scope]

ASSUME AnnouncedAssumption == Announced \subseteq Announcement

VARIABLES
  tracked,   \* RuntimeObjectLifecycle.#objects; an undeclared object is not live
  peer,      \* what the peer has been told
  queue,     \* #runtimeObjectQueue: announcements and the run each belongs to
  sending,   \* progress of the head of the queue
  closed,    \* the session's #closed
  run,       \* progress of each releasing run
  subject,   \* the operation of each run
  ahead,     \* queue entries a run waits for before it lists the objects
  todo       \* the objects a run has listed and not released yet, in order of their ids

runVars == <<run, subject, ahead, todo>>
vars == <<tracked, peer, queue, sending, closed, runVars>>

History == INSTANCE ObjectHistory

App == "app"

ASSUME RunAssumption == App \notin Runs

TypeOK ==
  /\ tracked \in [Objects -> History!Known]
  /\ peer \in [Objects -> History!Known]
  /\ queue \in Seq([what : Announcement, by : Runs \cup {App}])
  /\ sending \in {"idle", "native", "sent"}
  /\ closed \in BOOLEAN
  /\ run \in [Runs -> {"idle", "waiting", "listing", "next", "releasing", "done", "failed"}]
  /\ subject \in [Runs -> Operations]
  /\ ahead \in [Runs -> Nat]
  /\ todo \in [Runs -> Seq(Objects)]

Init ==
  /\ tracked = [x \in Objects |-> History!Released(FALSE)]
  /\ peer = tracked
  /\ queue = <<>>
  /\ sending = "idle"
  /\ closed = FALSE
  /\ run = [r \in Runs |-> "idle"]
  /\ subject \in [Runs -> Operations]
  /\ ahead = [r \in Runs |-> 0]
  /\ todo = [r \in Runs |-> <<>>]
-----------------------------------------------------------------------------
(***************************************************************************)
(* RuntimeObjectLifecycle                                                  *)
(***************************************************************************)

(* Mutant: an operation may use an object again that it has released.      *)
ValidAgain(a) ==
  LET object == tracked[a.object]
  IN CASE a.type = "declare" -> ~object.live
       [] a.type = "reference" -> object.live /\ a.version >= object.version
       [] a.type = "change" -> object.live /\ a.delta > object.delta
       [] a.type = "release" -> object.live /\ a.operation \notin object.releasedBy

(* validate *)
Valid(a) ==
  LET object == tracked[a.object]
  IN CASE a.type = "declare" -> ~object.live
       [] a.type = "reference" ->
            object.live /\ a.operation \notin object.releasedBy /\ a.version >= object.version
       [] a.type = "change" -> object.live /\ a.delta > object.delta
       [] a.type = "release" -> object.live /\ a.operation \notin object.releasedBy

(* What an announcement makes of an object.                                *)
After(object, a) ==
  CASE a.type = "declare" -> [History!Released(a.drop) EXCEPT !.live = TRUE]
    [] a.type = "reference" ->
         [object EXCEPT !.version = a.version, !.operations = @ \cup ({a.operation} \ {NoOperation})]
    [] a.type = "change" -> [object EXCEPT !.delta = a.delta]
    [] a.type = "release" ->
         IF a.operation = NoOperation \/ object.drop THEN History!Released(object.drop)
         ELSE [object EXCEPT !.operations = @ \ {a.operation}, !.releasedBy = @ \cup {a.operation}]

(* Mutant: a commit forgets the operations that have released the object.  *)
CommitForgets(a) ==
  IF tracked[a.object].live \/ a.type = "declare"
  THEN [tracked EXCEPT ![a.object] = [After(@, a) EXCEPT !.releasedBy = {}]]
  ELSE tracked

(* commit; after clear() only a declaration finds a place.                 *)
Commit(a) ==
  IF tracked[a.object].live \/ a.type = "declare"
  THEN [tracked EXCEPT ![a.object] = After(@, a)]
  ELSE tracked

(* releaseOnDropObjectIds returns them in the order of their ids.          *)
Owned(o) == {x \in Objects : tracked[x].live /\ tracked[x].drop /\ o \in tracked[x].operations}

Ascending(S) == {s \in SetToSeqs(S) : \A i, j \in DOMAIN s : i < j => s[i] < s[j]}
-----------------------------------------------------------------------------
(***************************************************************************)
(* #sendRuntimeObject                                                      *)
(***************************************************************************)
Enqueue(a) ==
  /\ Len(queue) < MaxQueue
  /\ queue' = Append(queue, [what |-> a, by |-> App])
  /\ UNCHANGED <<tracked, peer, sending, closed, runVars>>

Entry == Head(queue)

(* Mutant: a run counts its object as released whatever has become of it.  *)
RunsGoOn(ok) ==
  /\ run' = [r \in Runs |->
               IF r = Entry.by THEN "next"
               ELSE IF run[r] = "waiting" /\ ahead[r] = 1 THEN "listing" ELSE run[r]]
  /\ todo' = [r \in Runs |-> IF r = Entry.by THEN Tail(todo[r]) ELSE todo[r]]

(* A run whose release is refused gives up the objects it has not released. *)
RunsContinue(ok) ==
  /\ run' = [r \in Runs |->
               IF r = Entry.by THEN (IF ok THEN "next" ELSE "failed")
               ELSE IF run[r] = "waiting" /\ ahead[r] = 1 THEN "listing" ELSE run[r]]
  /\ todo' = [r \in Runs |-> IF r = Entry.by /\ ok THEN Tail(todo[r]) ELSE todo[r]]

(* The head of the queue settles, and the runs that waited for it go on.   *)
Settles(ok) ==
  /\ queue' = Tail(queue)
  /\ sending' = "idle"
  /\ RunsContinue(ok)
  /\ ahead' = [r \in Runs |-> IF run[r] = "waiting" THEN ahead[r] - 1 ELSE ahead[r]]
  /\ UNCHANGED <<closed, subject>>

(* Continuations run before the next native result is looked at.           *)
Resuming == \E r \in Runs : run[r] \in {"listing", "next"}

(* The head's turn comes: it is validated and handed to the native library. *)
Validate ==
  /\ queue # <<>> /\ sending = "idle"
  /\ IF Valid(Entry.what) /\ ~closed
     THEN sending' = "native" /\ UNCHANGED <<queue, closed, runVars>>
     ELSE Settles(FALSE)
  /\ UNCHANGED <<tracked, peer>>

(* The native library sends it, possibly while JavaScript runs.            *)
NativeSends ==
  /\ sending = "native"
  /\ sending' = "sent"
  /\ peer' = [peer EXCEPT ![Entry.what.object] = After(@, Entry.what)]
  /\ UNCHANGED <<tracked, queue, closed, runVars>>

NativeFails ==
  /\ sending = "native"
  /\ ~Resuming
  /\ SendMayFail \/ closed
  /\ Settles(FALSE)
  /\ UNCHANGED <<tracked, peer>>

(* The send's promise resolves: the announcement is committed.             *)
Commits ==
  /\ sending = "sent"
  /\ ~Resuming
  /\ tracked' = Commit(Entry.what)
  /\ Settles(tracked[Entry.what.object].live \/ Entry.what.type = "declare")
  /\ UNCHANGED peer

(* close *)
Close ==
  /\ ~closed
  /\ closed' = TRUE
  /\ tracked' = [x \in Objects |-> History!Released(FALSE)]
  /\ UNCHANGED <<peer, queue, sending, runVars>>
-----------------------------------------------------------------------------
(***************************************************************************)
(* #releaseOperationObjects                                                *)
(***************************************************************************)

(* A terminal control for the run's operation has been sent or received:   *)
(* wait for what is queued now.                                            *)
Begin(r) ==
  /\ run[r] = "idle"
  /\ ~closed
  /\ ahead' = [ahead EXCEPT ![r] = Len(queue)]
  /\ run' = [run EXCEPT ![r] = IF queue = <<>> THEN "listing" ELSE "waiting"]
  /\ UNCHANGED <<tracked, peer, queue, sending, closed, subject, todo>>

(* Mutant: the run waits until nothing is queued at all.                   *)
ListWhenNothingQueued(r) ==
  /\ run[r] = "listing"
  /\ queue = <<>>
  /\ run' = [run EXCEPT ![r] = "next"]
  /\ \E ids \in Ascending(Owned(subject[r])) : todo' = [todo EXCEPT ![r] = ids]
  /\ UNCHANGED <<tracked, peer, queue, sending, closed, subject, ahead>>

ListObjects(r) ==
  /\ run[r] = "listing"
  /\ run' = [run EXCEPT ![r] = "next"]
  /\ \E ids \in Ascending(Owned(subject[r])) : todo' = [todo EXCEPT ![r] = ids]
  /\ UNCHANGED <<tracked, peer, queue, sending, closed, subject, ahead>>

ReleaseNext(r) ==
  /\ run[r] = "next"
  /\ IF todo[r] = <<>>
     THEN run' = [run EXCEPT ![r] = "done"] /\ UNCHANGED queue
     ELSE /\ run' = [run EXCEPT ![r] = "releasing"]
          /\ queue' = Append(queue, [by |-> r, what |-> [type |-> "release", object |-> Head(todo[r]),
                                                         operation |-> subject[r]]])
  /\ UNCHANGED <<tracked, peer, sending, closed, subject, ahead, todo>>
-----------------------------------------------------------------------------
QueueStep == Validate \/ NativeSends \/ NativeFails \/ Commits
RunStep(r) == ListObjects(r) \/ ReleaseNext(r)

Next ==
  \/ \E a \in Announced : Enqueue(a)
  \/ QueueStep
  \/ \E r \in Runs : Begin(r) \/ RunStep(r)
  \/ Close

(* Continuations run, and the native library settles every send.           *)
Fairness == WF_vars(QueueStep) /\ \A r \in Runs : WF_vars(RunStep(r))

Spec == Init /\ [][Next]_vars
FairSpec == Spec /\ Fairness
-----------------------------------------------------------------------------
(* Every announcement that reaches the peer is legal there, whatever calls *)
(* raced for the queue, whichever sends failed and whenever the session    *)
(* was closed.                                                             *)
LegalHistory == History!Spec

(* Between two sends of an open session the tracked objects are what the   *)
(* peer has been told: no send is committed twice or forgotten.            *)
TrackedIsTold == TypeOK /\ (~closed /\ sending \in {"idle", "native"} => tracked = peer)

(* A run goes on to its next object only when the operation no longer      *)
(* holds the last one, although the application announces, sends fail and  *)
(* the session is closed meanwhile.                                        *)
GoesOnWhenReleased ==
  [][\A r \in Runs :
       run[r] = "releasing" /\ run'[r] = "next" => Head(todo[r]) \notin Owned(subject[r])']_vars

(* A terminal control is not held up for ever by the releases: its run     *)
(* ends, although announcements keep queueing.                             *)
RunEnds == \A r \in Runs : run[r] # "idle" ~> run[r] \in {"done", "failed"}
=============================================================================
