--------------------------- MODULE ServerRoleGroup ---------------------------
(***************************************************************************)
(* How a native server hands accepted sessions to the application.         *)
(*                                                                         *)
(* One NnrpServer owns one InternalServerRoleGroup, which owns one native  *)
(* listener (an "entry") per eligible transport provider.  Concurrent      *)
(* accept() calls queue as waiters; the group polls every listener while   *)
(* anyone waits, parks what arrives early, and pairs parked settlements    *)
(* with waiters.  A session that has been accepted by a listener is then   *)
(* in exactly one place: parked in an entry, in the hand of an accept()    *)
(* continuation, or registered with the runtime; closing the server, the   *)
(* runtime or the group must find it wherever it is.                       *)
(*                                                                         *)
(* JavaScript runs one callback at a time, so an action is one callback:   *)
(* the synchronous part of a call, or one promise continuation.            *)
(***************************************************************************)
EXTENDS Integers, Sequences, FiniteSets

CONSTANTS
  N,            \* number of listeners; entries are tried in index order
  Callers,      \* concurrent users of accept()
  Sessions,     \* native sessions the peers may open
  None,         \* an empty slot
  Stale,        \* a parked retryable accept error (a timeout)
  CloseMayFail, \* whether the native close of a session may report an error
  MaxCloses     \* bound: native closes of a session in flight when the runtime is closed again

ASSUME NAssumption == N \in Nat \ {0}
ASSUME SlotAssumption ==
  /\ None \notin Callers \cup Sessions
  /\ Stale \notin Sessions
  /\ Stale # None
ASSUME FailureAssumption == CloseMayFail \in BOOLEAN /\ MaxCloses \in Nat

Entry == 1 .. N

VARIABLES
  pending,      \* entry.pending, by the progress of its promise
  settlement,   \* entry.settlement
  late,         \* the session an entry closes because the group is closed
  drains,       \* entries whose queued drain microtask has not run yet
  waiters,      \* group.#waiters
  groupClosed,  \* group.#closed
  terminal,     \* group.#terminalError is set
  caller,       \* progress of each accept() call
  hand,         \* session an accept() continuation holds
  roleSessions, \* runtime.#roleSessions
  sessions,     \* server.#sessions
  serverClose,  \* progress of NnrpServer.close()
  serverWait,   \* sessions NnrpServer.close() waits for
  runtimeClose, \* progress of NnrpBackendRuntime.close()
  runtimeWait,  \* sessions NnrpBackendRuntime.close() waits for
  native,       \* the native session behind each role session
  closers,      \* native close calls in flight per session
  closeFailed   \* sessions a native close call has failed for

groupVars   == <<pending, settlement, late, drains, waiters, groupClosed, terminal>>
callerVars  == <<caller, hand>>
serverVars  == <<roleSessions, sessions, serverClose, serverWait, runtimeClose, runtimeWait>>
nativeVars  == <<native, closers, closeFailed>>
vars == <<groupVars, callerVars, serverVars, nativeVars>>

PendingStates == {"idle", "polling", "closing", "settled"}
CallerStates  == {"idle", "called", "waiting", "granted", "registered", "refused", "failed"}
CloseStates   == {"open", "sessions", "done", "failed"}

TypeOK ==
  /\ pending \in [Entry -> PendingStates]
  /\ settlement \in [Entry -> Sessions \cup {None, Stale}]
  /\ late \in [Entry -> Sessions \cup {None}]
  /\ drains \subseteq Entry
  /\ waiters \in Seq(Callers)
  /\ groupClosed \in BOOLEAN
  /\ terminal \in BOOLEAN
  /\ caller \in [Callers -> CallerStates]
  /\ hand \in [Callers -> Sessions \cup {None}]
  /\ roleSessions \subseteq Sessions
  /\ sessions \subseteq Sessions
  /\ serverClose \in CloseStates
  /\ serverWait \subseteq Sessions
  /\ runtimeClose \in CloseStates
  /\ runtimeWait \subseteq Sessions
  /\ native \in [Sessions -> {"unborn", "open", "closed"}]
  /\ closers \in [Sessions -> Nat]
  /\ closeFailed \subseteq Sessions

Init ==
  /\ pending = [e \in Entry |-> "idle"]
  /\ settlement = [e \in Entry |-> None]
  /\ late = [e \in Entry |-> None]
  /\ drains = {}
  /\ waiters = <<>>
  /\ groupClosed = FALSE
  /\ terminal = FALSE
  /\ caller = [c \in Callers |-> "idle"]
  /\ hand = [c \in Callers |-> None]
  /\ roleSessions = {}
  /\ sessions = {}
  /\ serverClose = "open"
  /\ serverWait = {}
  /\ runtimeClose = "open"
  /\ runtimeWait = {}
  /\ native = [s \in Sessions |-> "unborn"]
  /\ closers = [s \in Sessions |-> 0]
  /\ closeFailed = {}

(* NnrpServer.closed *)
Closed == serverClose # "open" \/ runtimeClose # "open"
-----------------------------------------------------------------------------
(***************************************************************************)
(* Native session close: the role session remembers that it is closed only *)
(* after the native call has succeeded, so a second close() that comes     *)
(* while the first is in flight calls the native library again.            *)
(***************************************************************************)
CloseNative(S) ==
  closers' = [s \in Sessions |->
                IF s \in S /\ native[s] = "open" THEN closers[s] + 1 ELSE closers[s]]

CloseSettles(s) ==
  /\ closers[s] > 0
  /\ closers' = [closers EXCEPT ![s] = @ - 1]
  /\ \/ /\ native' = [native EXCEPT ![s] = "closed"]
        /\ UNCHANGED closeFailed
     \/ /\ CloseMayFail
        /\ closeFailed' = closeFailed \cup {s}
        /\ UNCHANGED native
  /\ UNCHANGED <<groupVars, callerVars, serverVars>>

Settled(S) == \A s \in S : closers[s] = 0

(* Promise.all over the closes of S: it rejects at the first that fails,   *)
(* while others may be under way.  Of two overlapping closes of a session  *)
(* the failure of one may count for either.                                *)
AllClosed(S) == \A s \in S : closers[s] = 0 /\ native[s] = "closed"
OneFailed(S) == S \cap closeFailed # {}
-----------------------------------------------------------------------------
(***************************************************************************)
(* InternalServerRoleGroup.#drain: hand the parked settlements, in entry   *)
(* order, to the waiters, in arrival order; then, if someone still waits,  *)
(* poll every listener that is not being polled.                           *)
(***************************************************************************)
Ready == {e \in Entry : settlement[e] # None}
Rank(e) == Cardinality({f \in Ready : f <= e})
Pairs(w) == IF Len(w) < Cardinality(Ready) THEN Len(w) ELSE Cardinality(Ready)
Served(w) == {e \in Ready : Rank(e) <= Pairs(w)}

(* Mutant: every waiter is resolved with every settlement.                 *)
ServedByAll(w, c) == {e \in Served(w) : \E i \in 1 .. Len(w) : w[i] = c}

ServedBy(w, c) == {e \in Served(w) : w[Rank(e)] = c}

Given(w, c) == {e \in ServedBy(w, c) : settlement[e] # Stale}

(* w and called: the waiter queue and the call states when #drain starts.  *)
Drain(w, called) ==
  /\ settlement' = [e \in Entry |-> IF e \in Served(w) THEN None ELSE settlement[e]]
  /\ waiters' = SubSeq(w, Pairs(w) + 1, Len(w))
  /\ caller' = [c \in Callers |->
                  IF ServedBy(w, c) = {} THEN called[c]
                  ELSE IF Given(w, c) = {} THEN "refused" ELSE "granted"]
  /\ hand' = [c \in Callers |->
                IF Given(w, c) = {} THEN hand[c]
                ELSE settlement[CHOOSE e \in Given(w, c) : TRUE]]
  /\ pending' = [e \in Entry |->
                   IF Pairs(w) < Len(w) /\ ~groupClosed /\ pending[e] = "idle"
                   THEN "polling" ELSE pending[e]]

(* Mutant: close() forgets the sessions no waiter has taken.               *)
NoReadySessions == {}

ReadySessions == {settlement[e] : e \in Ready} \ {Stale}

(* InternalServerRoleGroup.close, its synchronous part: no waiter and no   *)
(* parked session survives it.                                             *)
CloseGroup ==
  /\ groupClosed' = TRUE
  /\ waiters' = <<>>
  /\ caller' = [c \in Callers |-> IF caller[c] = "waiting" THEN "failed" ELSE caller[c]]
  /\ settlement' = [e \in Entry |-> None]
  /\ CloseNative(ReadySessions)

EnsureGroupClosed ==
  IF groupClosed
  THEN UNCHANGED <<groupClosed, waiters, caller, settlement, closers>>
  ELSE CloseGroup
-----------------------------------------------------------------------------
(***************************************************************************)
(* accept()                                                                *)
(***************************************************************************)

(* NnrpServer.accept and the synchronous part of #acceptServerSession.     *)
Accept(c) ==
  /\ caller[c] = "idle"
  /\ ~Closed
  /\ caller' = [caller EXCEPT ![c] = "called"]
  /\ UNCHANGED <<groupVars, hand, serverVars, nativeVars>>

(* InternalServerRoleGroup.accept, once the listener set has opened.       *)
GroupAccept(c) ==
  /\ caller[c] = "called"
  /\ \/ /\ terminal \/ groupClosed
        /\ caller' = [caller EXCEPT ![c] = "failed"]
        /\ UNCHANGED <<groupVars, hand>>
     \/ /\ ~terminal /\ ~groupClosed
        /\ Drain(Append(waiters, c), [caller EXCEPT ![c] = "waiting"])
        /\ UNCHANGED <<late, drains, groupClosed, terminal>>
  /\ UNCHANGED <<serverVars, nativeVars>>

(* The queued microtask that drains after an entry's accept settled.       *)
DrainMicrotask(e) ==
  /\ e \in drains
  /\ drains' = drains \ {e}
  /\ Drain(waiters, caller)
  /\ UNCHANGED <<late, groupClosed, terminal, serverVars, nativeVars>>

(* A listener delivers a session: it is parked, or closed if too late.     *)
RoleAccepts(e, s) ==
  /\ pending[e] = "polling"
  /\ native[s] = "unborn"
  /\ native' = [native EXCEPT ![s] = "open"]
  /\ IF groupClosed
     THEN /\ pending' = [pending EXCEPT ![e] = "closing"]
          /\ late' = [late EXCEPT ![e] = s]
          /\ closers' = [closers EXCEPT ![s] = @ + 1]
          /\ UNCHANGED settlement
     ELSE /\ pending' = [pending EXCEPT ![e] = "settled"]
          /\ settlement' = [settlement EXCEPT ![e] = s]
          /\ UNCHANGED <<late, closers>>
  /\ UNCHANGED <<drains, waiters, groupClosed, terminal, callerVars, serverVars, closeFailed>>

(* Mutant: a timeout is parked without looking at the closed flag.         *)
RoleTimesOutUnchecked(e) ==
  /\ pending[e] = "polling"
  /\ pending' = [pending EXCEPT ![e] = "settled"]
  /\ settlement' = [settlement EXCEPT ![e] = Stale]
  /\ UNCHANGED <<late, drains, waiters, groupClosed, terminal, callerVars, serverVars, nativeVars>>

(* A listener reports a retryable error, in practice an accept timeout.    *)
RoleTimesOut(e) ==
  /\ pending[e] = "polling"
  /\ pending' = [pending EXCEPT ![e] = "settled"]
  /\ settlement' = IF groupClosed THEN settlement ELSE [settlement EXCEPT ![e] = Stale]
  /\ UNCHANGED <<late, drains, waiters, groupClosed, terminal, callerVars, serverVars, nativeVars>>

(* A listener fails for good: #fail rejects the waiters and closes the group. *)
RoleFails(e) ==
  /\ pending[e] = "polling"
  /\ pending' = [pending EXCEPT ![e] = "settled"]
  /\ terminal' = (terminal \/ ~groupClosed)
  /\ EnsureGroupClosed
  /\ UNCHANGED <<late, drains, hand, serverVars, native, closeFailed>>

(* The late session of a closed group has been closed.                     *)
LateClosed(e) ==
  /\ pending[e] = "closing"
  /\ Settled({late[e]})
  /\ pending' = [pending EXCEPT ![e] = "settled"]
  /\ late' = [late EXCEPT ![e] = None]
  /\ UNCHANGED <<settlement, drains, waiters, groupClosed, terminal, callerVars, serverVars, nativeVars>>

(* Mutant: the entry is freed but nothing drains.                          *)
RoleAcceptDoneSilently(e) ==
  /\ pending[e] = "settled"
  /\ pending' = [pending EXCEPT ![e] = "idle"]
  /\ UNCHANGED <<settlement, late, drains, waiters, groupClosed, terminal, callerVars, serverVars,
                 nativeVars>>

(* The finally callback: the entry is free again and a drain is queued.    *)
RoleAcceptDone(e) ==
  /\ pending[e] = "settled"
  /\ pending' = [pending EXCEPT ![e] = "idle"]
  /\ drains' = drains \cup {e}
  /\ UNCHANGED <<settlement, late, waiters, groupClosed, terminal, callerVars, serverVars, nativeVars>>

(* #acceptServerSession continues: the runtime registers the session.      *)
Register(c) ==
  /\ caller[c] = "granted"
  /\ caller' = [caller EXCEPT ![c] = "registered"]
  /\ roleSessions' = roleSessions \cup {hand[c]}
  /\ UNCHANGED <<groupVars, hand, sessions, serverClose, serverWait, runtimeClose, runtimeWait, nativeVars>>

(* NnrpServer.accept continues: a server closed meanwhile keeps no session. *)
AcceptReturns(c) ==
  /\ caller[c] = "registered"
  /\ caller' = [caller EXCEPT ![c] = "idle"]
  /\ hand' = [hand EXCEPT ![c] = None]
  /\ IF Closed
     THEN /\ roleSessions' = roleSessions \ {hand[c]}
          /\ CloseNative({hand[c]})
          /\ UNCHANGED sessions
     ELSE /\ sessions' = sessions \cup {hand[c]}
          /\ UNCHANGED <<roleSessions, closers>>
  /\ UNCHANGED <<groupVars, serverClose, serverWait, runtimeClose, runtimeWait, native, closeFailed>>

(* A retryable error reaches the application; the server stays open.       *)
AcceptRefused(c) ==
  /\ caller[c] = "refused"
  /\ caller' = [caller EXCEPT ![c] = "idle"]
  /\ UNCHANGED <<groupVars, hand, serverVars, nativeVars>>
-----------------------------------------------------------------------------
(***************************************************************************)
(* close()                                                                 *)
(***************************************************************************)

(* NnrpServerSession.close, for a session that is not closed yet.          *)
AppCloses(s) ==
  /\ s \in sessions \cap roleSessions
  /\ roleSessions' = roleSessions \ {s}
  /\ CloseNative({s})
  /\ UNCHANGED <<groupVars, callerVars, sessions, serverClose, serverWait, runtimeClose, runtimeWait,
                 native, closeFailed>>

(* NnrpServer.close, its synchronous part.                                 *)
BeginServerClose ==
  IF serverClose = "open"
  THEN /\ serverClose' = "sessions"
       /\ serverWait' = sessions \cap roleSessions
       /\ roleSessions' = roleSessions \ sessions
       /\ CloseNative(sessions \cap roleSessions)
  ELSE UNCHANGED <<serverClose, serverWait, roleSessions, closers>>

(* The application closes the server.                                      *)
ServerCloses ==
  /\ serverClose = "open"
  /\ BeginServerClose
  /\ UNCHANGED <<groupVars, callerVars, sessions, runtimeClose, runtimeWait, native, closeFailed>>

(* A terminal or closed error reaches NnrpServer.accept, which closes.     *)
AcceptFailed(c) ==
  /\ caller[c] = "failed"
  /\ caller' = [caller EXCEPT ![c] = "idle"]
  /\ BeginServerClose
  /\ UNCHANGED <<groupVars, hand, sessions, runtimeClose, runtimeWait, native, closeFailed>>

(* NnrpServer.close goes on to the listeners only if every session closed. *)
ServerCloseSettles ==
  /\ serverClose = "sessions"
  /\ serverWait' = {}
  /\ \/ /\ AllClosed(serverWait)
        /\ serverClose' = "done"
        /\ sessions' = {}
        /\ EnsureGroupClosed
     \/ /\ OneFailed(serverWait)
        /\ serverClose' = "failed"
        /\ UNCHANGED <<sessions, groupClosed, waiters, caller, settlement, closers>>
  /\ UNCHANGED <<pending, late, drains, terminal, hand, roleSessions, runtimeClose, runtimeWait,
                 native, closeFailed>>

(* NnrpBackendRuntime.close, its synchronous part; it may be called again. *)
RuntimeCloses ==
  /\ \/ runtimeClose = "open"
     \/ runtimeClose = "failed" /\ \A s \in roleSessions : closers[s] < MaxCloses
  /\ runtimeClose' = "sessions"
  /\ runtimeWait' = roleSessions
  /\ CloseNative(roleSessions)
  /\ closeFailed' = closeFailed \ roleSessions
  /\ UNCHANGED <<groupVars, callerVars, roleSessions, sessions, serverClose, serverWait, native>>

RuntimeCloseSettles ==
  /\ runtimeClose = "sessions"
  /\ runtimeWait' = {}
  /\ \/ /\ AllClosed(runtimeWait)
        /\ runtimeClose' = "done"
        /\ EnsureGroupClosed
     \/ /\ OneFailed(runtimeWait)
        /\ runtimeClose' = "failed"
        /\ UNCHANGED <<groupClosed, waiters, caller, settlement, closers>>
  /\ UNCHANGED <<pending, late, drains, terminal, hand, roleSessions, sessions, serverClose, serverWait,
                 native, closeFailed>>
-----------------------------------------------------------------------------
CallStep(c) ==
  \/ GroupAccept(c)
  \/ Register(c)
  \/ AcceptReturns(c)
  \/ AcceptRefused(c)
  \/ AcceptFailed(c)

RoleSettles(e) ==
  \/ \E s \in Sessions : RoleAccepts(e, s)
  \/ RoleTimesOut(e)
  \/ RoleFails(e)

EntryStep(e) == LateClosed(e) \/ RoleAcceptDone(e)

CloseStep == ServerCloseSettles \/ RuntimeCloseSettles

Next ==
  \/ \E c \in Callers : Accept(c) \/ CallStep(c)
  \/ \E e \in Entry : RoleSettles(e) \/ EntryStep(e) \/ DrainMicrotask(e)
  \/ \E s \in Sessions : CloseSettles(s) \/ AppCloses(s)
  \/ ServerCloses
  \/ RuntimeCloses
  \/ CloseStep

(***************************************************************************)
(* The JavaScript event loop runs every queued continuation and microtask, *)
(* and every native call returns: accept() is given a timeout (with the    *)
(* default, 0, the native accept waits for a peer), and the close of a     *)
(* listener releases the accept it has pending.  Nothing makes the         *)
(* application call.                                                       *)
(***************************************************************************)
Fairness ==
  /\ \A c \in Callers : WF_vars(CallStep(c))
  /\ \A e \in Entry : WF_vars(RoleSettles(e)) /\ WF_vars(EntryStep(e)) /\ WF_vars(DrainMicrotask(e))
  /\ \A s \in Sessions : WF_vars(CloseSettles(s))
  /\ WF_vars(ServerCloseSettles)
  /\ WF_vars(RuntimeCloseSettles)

Spec == Init /\ [][Next]_vars
FairSpec == Spec /\ Fairness
-----------------------------------------------------------------------------
Granted == {hand[c] : c \in {d \in Callers : caller[d] = "granted"}}
Parked == {settlement[e] : e \in Ready} \ {Stale}

(* A session a listener has accepted has at most one holder before the     *)
(* runtime registers it: no two accept() calls can return it and no entry  *)
(* still parks a session some accept() call was given.                     *)
OneHolder ==
  /\ \A e, f \in Entry : settlement[e] = settlement[f] /\ settlement[e] \in Sessions => e = f
  /\ \A c, d \in Callers : hand[c] = hand[d] /\ hand[c] # None => c = d
  /\ Parked \cap {hand[c] : c \in Callers} = {}
  /\ (Parked \cup Granted) \cap roleSessions = {}

(* An open native session is never lost: something still holds it, a close *)
(* of it is under way, or a native close of it has failed.                 *)
NoSessionLost ==
  \A s \in Sessions :
    native[s] = "open" /\ closers[s] = 0 /\ s \notin closeFailed
      => s \in Parked \cup Granted \cup roleSessions

(* No lost wakeup: while an accept() call waits, every listener is being   *)
(* polled or a drain that will poll it is queued, and a parked settlement  *)
(* has a drain coming that will hand it over.                              *)
NoLostWakeup ==
  waiters # <<>> =>
    /\ \A e \in Entry : pending[e] = "idle" => e \in drains
    /\ Ready # {} => drains # {} \/ \E e \in Entry : pending[e] = "settled"

(* A closed group keeps no waiter and no parked session, whichever of      *)
(* NnrpServer.close, the runtime's close and a failing listener closed it, *)
(* and a failed listener always closes it.                                 *)
ClosedGroupIsEmpty ==
  /\ groupClosed => waiters = <<>> /\ Ready = {}
  /\ terminal => groupClosed

(* Every accept() call ends: it returns a session or reports an error.     *)
AcceptEnds == \A c \in Callers : caller[c] # "idle" ~> caller[c] = "idle"

(* When NnrpServer.close has ended the listeners are closed.               *)
ServerCloseClosesListeners == serverClose \in {"done", "failed"} => groupClosed
=============================================================================
