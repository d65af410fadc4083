------------------------- MODULE ClientEventRouting -------------------------
(***************************************************************************)
(* How a native client hands the events of its sessions to the callers of  *)
(* nextEvent (packages/native-client/src/index.ts): one poll goes over all *)
(* the sessions of the runtime, in the order they were opened, collects a  *)
(* batch, and the caller that started it puts each event in the queue of   *)
(* its session.  One action is one turn of the event loop; the native      *)
(* library takes events from a session on a thread of its own.             *)
(***************************************************************************)
EXTENDS Naturals, Sequences, FiniteSets, SequencesExt, FiniteSetsExt

CONSTANTS Sessions,     \* session handles, one per openSession or resumeSession
          WireId,       \* the session id each handle negotiates; ids are reused
          Readers,      \* callers of nextEvent, each with one call at a time
          MaxEvents,    \* events of one poll (16 in the code)
          MaxArrivals,  \* bound: events the peer sends in all
          MaxPolls,     \* bound: polls under way at once, abandoned ones included
          Nobody        \* no reader, no session, no poll

ASSUME RoutingAssumption ==
  /\ IsFiniteSet(Sessions)
  /\ MaxEvents \in Nat \ {0} /\ MaxPolls \in Nat \ {0} /\ MaxArrivals \in Nat
  /\ Nobody \notin Sessions \cup Readers

EventOf(s, n) == [session |-> s, number |-> n]
Events == [session : Sessions, number : Nat]
Limit == [session : Sessions, limited : BOOLEAN]
Poll == [at : Nat, batch : Seq(Events), fresh : Seq(Events), reader : Readers \cup {Nobody},
         for : Sessions, stage : {"opening", "native", "taken"}]

ASSUME NobodyAssumption == Nobody \notin Limit /\ Nobody \notin Poll

VARIABLES
  session,    \* state of each role session
  opened,     \* the sessions of #roleSessions and of earlier entries, by age
  mapped,     \* #routingKeyByWireSessionId
  wire,       \* events the native library holds for each session
  queues,     \* #eventQueues under the routing key of each session
  unclaimed,  \* #eventQueues under the key wire-<id>
  asking,     \* the call of each reader: whose events, with a time limit or not
  polls,      \* the calls of awaitEvents under way
  arrived, delivered, spilled, overlapped  \* history, read by properties only

routingVars == <<session, opened, mapped, wire, queues, unclaimed, asking, polls,
                 arrived, delivered, spilled, overlapped>>

Ids == {WireId[s] : s \in Sessions}

RoutingInit ==
  /\ session = [s \in Sessions |-> "new"]
  /\ opened = <<>>
  /\ mapped = [id \in Ids |-> Nobody]
  /\ wire = [s \in Sessions |-> <<>>]
  /\ queues = [s \in Sessions |-> <<>>]
  /\ unclaimed = [id \in Ids |-> <<>>]
  /\ asking = [r \in Readers |-> Nobody]
  /\ polls = [i \in 1..MaxPolls |-> Nobody]
  /\ arrived = [s \in Sessions |-> 0]
  /\ delivered = [s \in Sessions |-> <<>>]
  /\ spilled = {}
  /\ overlapped = FALSE

-----------------------------------------------------------------------------
(* awaitEvents: the walk over #roleSessions *)

Listed(s) == session[s] \in {"opening", "open"}

\* Where a walk that has visited the first i entries goes next; 0 when it is over.
NextEntry(i) ==
  LET left == {j \in i + 1 .. Len(opened) : Listed(opened[j])}
  IN  IF left = {} THEN 0 ELSE Min(left)

\* A poll at entry j, started by a call for the events of session s.
Visiting(j, batch, reader, s) ==
  [at |-> j, batch |-> batch, fresh |-> <<>>, reader |-> reader, for |-> s,
   stage |-> IF session[opened[j]] = "open" THEN "native" ELSE "opening"]

UnderWay == {i \in DOMAIN polls : polls[i] # Nobody}

Holding(p) == p.batch \o p.fresh

Spill(p) == {[event |-> e, for |-> p.for] : e \in ToSet(Holding(p))}

\* The poll ends with an error: its batch is gone, its caller gets the error.
Rejected(i) ==
  /\ spilled' = spilled \cup Spill(polls[i])
  /\ polls' = [polls EXCEPT ![i] = Nobody]
  /\ asking' = IF polls[i].reader = Nobody THEN asking
             ELSE [asking EXCEPT ![polls[i].reader] = Nobody]

-----------------------------------------------------------------------------
(* #nextRoutedEvent: deliver what is queued, else poll and route the batch *)

\* The caller looks in its queue; when it is empty a poll starts in slot i.
TakeOrPoll(r, s, limited, i, held) ==
  IF held[s] # <<>>
  THEN /\ delivered' = [delivered EXCEPT ![s] = Append(@, Head(held[s]))]
       /\ queues' = [held EXCEPT ![s] = Tail(@)]
       /\ asking' = [asking EXCEPT ![r] = Nobody]
       /\ polls' = [polls EXCEPT ![i] = Nobody]
       /\ UNCHANGED overlapped
  ELSE /\ queues' = held
       /\ UNCHANGED delivered
       /\ IF NextEntry(0) = 0
          THEN /\ polls' = [polls EXCEPT ![i] = Nobody]
               /\ asking' = [asking EXCEPT ![r] = Nobody]
               /\ UNCHANGED overlapped
          ELSE /\ polls' = [polls EXCEPT ![i] = Visiting(NextEntry(0), <<>>, r, s)]
               /\ asking' = [asking EXCEPT ![r] = [session |-> s, limited |-> limited]]
               /\ overlapped' = (overlapped \/ UnderWay \ {i} # {})

\* The events of some sessions, in the order of the batch.
EventsOf(batch, some) ==
  LET upTo[n \in 0 .. Len(batch)] ==
        IF n = 0 THEN <<>>
        ELSE IF batch[n].session \in some THEN Append(upTo[n - 1], batch[n])
        ELSE upTo[n - 1]
  IN  upTo[Len(batch)]

\* The sessions whose id maps to s, and those whose id maps to none.
RoutedTo(s) == {t \in Sessions : mapped[WireId[t]] = s}
UnroutedAt(id) == {t \in Sessions : WireId[t] = id /\ mapped[id] = Nobody}

\* Mutant: a batch replaces what is queued.
RoutedAfresh(batch) ==
  [s \in Sessions |->
     LET own == EventsOf(batch, RoutedTo(s)) IN IF own = <<>> THEN queues[s] ELSE own]

\* Mutant: a batch goes in front of what is queued.
RoutedInFront(batch) == [s \in Sessions |-> EventsOf(batch, RoutedTo(s)) \o queues[s]]

\* Each event of the batch goes to the queue its session id maps to now.
Routed(batch) == [s \in Sessions |-> queues[s] \o EventsOf(batch, RoutedTo(s))]

Unrouted(batch) == [id \in Ids |-> unclaimed[id] \o EventsOf(batch, UnroutedAt(id))]

Ask(r, s, limited) ==
  /\ asking[r] = Nobody
  /\ session[s] = "open"
  /\ UnderWay # DOMAIN polls
  /\ TakeOrPoll(r, s, limited, Min(DOMAIN polls \ UnderWay), queues)
  /\ UNCHANGED <<session, opened, mapped, wire, unclaimed, arrived, spilled>>

\* The timer of the call fires, or its signal aborts: the poll goes on unheard.
Abandon(r) ==
  /\ asking[r] # Nobody /\ asking[r].limited
  /\ asking' = [asking EXCEPT ![r] = Nobody]
  /\ polls' = [i \in DOMAIN polls |->
       IF i \in UnderWay /\ polls[i].reader = r
       THEN [polls[i] EXCEPT !.reader = Nobody] ELSE polls[i]]
  /\ UNCHANGED <<session, opened, mapped, wire, queues, unclaimed,
                 arrived, delivered, spilled, overlapped>>

\* The native poll of one session comes to an end, with events or with none.
NativePollTakes(i) ==
  /\ i \in UnderWay /\ polls[i].stage = "native"
  /\ LET s == opened[polls[i].at]
         room == MaxEvents - Len(polls[i].batch)
     IN \E n \in 0 .. Min({room, Len(wire[s])}) :
          /\ polls' = [polls EXCEPT ![i].fresh = SubSeq(wire[s], 1, n), ![i].stage = "taken"]
          /\ wire' = [wire EXCEPT ![s] = SubSeq(@, n + 1, Len(@))]
  /\ UNCHANGED <<session, opened, mapped, queues, unclaimed, asking,
                 arrived, delivered, spilled, overlapped>>

\* A session that is closed refuses to be polled, also in the middle of a poll.
NativePollRefuses(i) ==
  /\ i \in UnderWay /\ polls[i].stage = "native"
  /\ session[opened[polls[i].at]] \in {"closing", "closed"}
  /\ Rejected(i)
  /\ UNCHANGED <<session, opened, mapped, wire, queues, unclaimed,
                 arrived, delivered, overlapped>>

\* The walk goes on to the next session, or ends and its caller routes the batch.
PollResumes(i) ==
  /\ i \in UnderWay /\ polls[i].stage = "taken"
  /\ LET p == polls[i]
         batch == Holding(p)
         next == NextEntry(p.at)
         walkEnds == next = 0 \/ Len(batch) >= MaxEvents
     IN \/ /\ ~walkEnds
           /\ polls' = [polls EXCEPT ![i] = Visiting(next, batch, p.reader, p.for)]
           /\ UNCHANGED <<queues, unclaimed, asking, delivered, spilled, overlapped>>
        \/ /\ walkEnds
           /\ p.reader = Nobody \/ batch = <<>>
           /\ Rejected(i)
           /\ UNCHANGED <<queues, unclaimed, delivered, overlapped>>
        \/ /\ walkEnds
           /\ p.reader # Nobody /\ batch # <<>>
           /\ unclaimed' = Unrouted(batch)
           /\ TakeOrPoll(p.reader, p.for, asking[p.reader].limited, i, Routed(batch))
           /\ UNCHANGED spilled
  /\ UNCHANGED <<session, opened, mapped, wire, arrived>>

-----------------------------------------------------------------------------
(* Sessions come and go under the polls *)

\* openSession or resumeSession; the peer grants an id again once its session is closed.
OpenBegins(s) ==
  /\ session[s] = "new"
  /\ \A t \in Sessions \ {s} :
       WireId[t] = WireId[s] => session[t] \in {"new", "closed", "failed"}
  /\ session' = [session EXCEPT ![s] = "opening"]
  /\ opened' = Append(opened, s)
  /\ UNCHANGED <<mapped, wire, queues, unclaimed, asking, polls,
                 arrived, delivered, spilled, overlapped>>

\* The session is mapped, and polls waiting for it poll it, in the same turn.
OpenEnds(s) ==
  /\ session[s] = "opening"
  /\ session' = [session EXCEPT ![s] = "open"]
  /\ mapped' = [mapped EXCEPT ![WireId[s]] = s]
  /\ polls' = [i \in DOMAIN polls |->
       IF i \in UnderWay /\ opened[polls[i].at] = s
       THEN [polls[i] EXCEPT !.stage = "native"] ELSE polls[i]]
  /\ UNCHANGED <<opened, wire, queues, unclaimed, asking,
                 arrived, delivered, spilled, overlapped>>

\* The handshake fails: every poll that waits for it fails with it.
OpenFails(s) ==
  /\ session[s] = "opening"
  /\ session' = [session EXCEPT ![s] = "failed"]
  /\ LET hit == {i \in UnderWay : opened[polls[i].at] = s}
     IN /\ spilled' = spilled \cup UNION {Spill(polls[i]) : i \in hit}
        /\ polls' = [i \in DOMAIN polls |-> IF i \in hit THEN Nobody ELSE polls[i]]
        /\ asking' = [r \in Readers |->
             IF \E i \in hit : polls[i].reader = r THEN Nobody ELSE asking[r]]
  /\ UNCHANGED <<opened, mapped, wire, queues, unclaimed, arrived, delivered, overlapped>>

CloseBegins(s) ==
  /\ session[s] = "open"
  /\ session' = [session EXCEPT ![s] = "closing"]
  /\ UNCHANGED <<opened, mapped, wire, queues, unclaimed, asking, polls,
                 arrived, delivered, spilled, overlapped>>

\* The native close is over: the client forgets the routes and queues of the id.
CloseEnds(s) ==
  /\ session[s] = "closing"
  /\ session' = [session EXCEPT ![s] = "closed"]
  /\ LET observed == mapped[WireId[s]]
     IN /\ mapped' = [mapped EXCEPT ![WireId[s]] = Nobody]
        /\ queues' = [t \in Sessions |-> IF t \in {s, observed} THEN <<>> ELSE queues[t]]
        /\ unclaimed' = [unclaimed EXCEPT ![WireId[s]] = <<>>]
  /\ wire' = [wire EXCEPT ![s] = <<>>]
  /\ UNCHANGED <<opened, asking, polls, arrived, delivered, spilled, overlapped>>

Arrives(s) ==
  /\ session[s] = "open"
  /\ MapThenSumSet(LAMBDA t : arrived[t], Sessions) < MaxArrivals
  /\ arrived' = [arrived EXCEPT ![s] = @ + 1]
  /\ wire' = [wire EXCEPT ![s] = Append(@, EventOf(s, arrived[s] + 1))]
  /\ UNCHANGED <<session, opened, mapped, queues, unclaimed, asking, polls,
                 delivered, spilled, overlapped>>

RoutingNext ==
  \/ \E s \in Sessions :
       OpenBegins(s) \/ OpenEnds(s) \/ OpenFails(s) \/ CloseBegins(s) \/ CloseEnds(s) \/ Arrives(s)
  \/ \E r \in Readers, s \in Sessions, limited \in BOOLEAN : Ask(r, s, limited)
  \/ \E r \in Readers : Abandon(r)
  \/ \E i \in 1..MaxPolls : NativePollTakes(i) \/ NativePollRefuses(i) \/ PollResumes(i)

RoutingSpec == RoutingInit /\ [][RoutingNext]_routingVars

-----------------------------------------------------------------------------
(* Properties *)

RoutingTypeOK ==
  /\ session \in [Sessions -> {"new", "opening", "open", "closing", "closed", "failed"}]
  /\ opened \in Seq(Sessions)
  /\ IsInjective(opened) /\ ToSet(opened) = {s \in Sessions : session[s] # "new"}
  /\ mapped \in [Ids -> Sessions \cup {Nobody}]
  /\ {wire, queues, delivered} \subseteq [Sessions -> Seq(Events)]
  /\ unclaimed \in [Ids -> Seq(Events)]
  /\ asking \in [Readers -> Limit \cup {Nobody}]
  /\ polls \in [1..MaxPolls -> Poll \cup {Nobody}]
  /\ arrived \in [Sessions -> Nat]
  /\ spilled \subseteq [event : Events, for : Sessions]
  /\ overlapped \in BOOLEAN
  /\ \A i \in UnderWay :
       /\ polls[i].at \in 1..Len(opened)
       /\ Len(Holding(polls[i])) <= MaxEvents
       /\ polls[i].reader # Nobody => asking[polls[i].reader] # Nobody

\* The places where an event of an open session belongs.
Places(e) ==
  LET At(q) == {k \in DOMAIN q : q[k] = e}
  IN ({"wire"} \X At(wire[e.session])) \cup ({"queue"} \X At(queues[e.session]))
       \cup ({"caller"} \X At(delivered[e.session]))
       \cup (UNION {{"poll"} \X {i} \X At(Holding(polls[i])) : i \in UnderWay})
       \cup ({"spilled"} \X {x \in spilled : x.event = e})

\* The event is parked under another session, or under no session.
Astray(e) ==
  \/ \E t \in Sessions \ {e.session} : e \in ToSet(wire[t]) \cup ToSet(queues[t]) \cup ToSet(delivered[t])
  \/ \E id \in Ids : e \in ToSet(unclaimed[id])

\* An open session is always routed, and each event its peer sent is in exactly one
\* place: with the native library, in the batch of a poll, in the queue of this very
\* session, with the caller, or in the batch of a poll that ended in an error or that
\* nobody waited for any more.  However the polls of several callers interleave and
\* whichever sessions come and go, nothing is delivered twice or parked elsewhere.
EveryEventAccounted ==
  /\ RoutingTypeOK
  /\ \A s \in Sessions : session[s] = "open" =>
       /\ mapped[WireId[s]] = s
       /\ \A n \in 1..arrived[s] : Cardinality(Places(EventOf(s, n))) = 1 /\ ~Astray(EventOf(s, n))

\* As long as no two polls were ever under way at once, the caller gets the events of
\* a session in the order the peer sent them, over queues and batches of many calls.
OneReaderKeepsOrder ==
  ~overlapped => \A s \in Sessions :
    LET got == delivered[s] \o queues[s]
        own == {k \in DOMAIN got : got[k].session = s}
    IN \A j, k \in own : j < k => got[j].number < got[k].number

\* Sessions of one connection are independent of each other: an event of a session is
\* never lost because of a call that waits for the events of another one.
SessionsAreIndependent ==
  \A x \in spilled : session[x.event.session] = "open" => x.for = x.event.session

\* What is delivered as an event of a session was sent to that session, and not to an
\* earlier one with the same session id, whose routed state its close released.
OwnEventsOnly ==
  \A s \in Sessions : \A e \in ToSet(delivered[s]) : e.session = s
=============================================================================
