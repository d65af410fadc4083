-------------------------- MODULE ServerSessionProofs --------------------------
(***************************************************************************)
(* For any calls, operations, frames and traffic: receiving calls run one  *)
(* at a time, an open session loses no event it has taken unless a call is *)
(* aborted, and an operation is answered at most once.                     *)
(***************************************************************************)
EXTENDS ServerSession, WellFoundedInduction, TLAPS

Active == {"polling", "releasing"}

(* The queue is the calls under way, each once; only its head is running.  *)
QueueInv ==
  /\ \A i, j \in 1 .. Len(queue) : queue[i] = queue[j] => i = j
  /\ \A c \in Calls : call[c] # "idle" <=> \E i \in 1 .. Len(queue) : queue[i] = c
  /\ \A c \in Calls : call[c] \in Active => queue[1] = c

(* A call holds an event exactly while it waits for the releases.          *)
HeldInv == \A c \in Calls : held[c] # 0 <=> call[c] = "releasing"

CallsInv ==
  /\ call \in [Calls -> {"idle", "queued", "polling", "releasing"}]
  /\ queue \in Seq(Calls)
  /\ held \in [Calls -> 0 .. taken]
  /\ QueueInv
  /\ HeldInv

EventsInv ==
  /\ pendingEvents \in Seq(1 .. taken)
  /\ given \in Seq(1 .. taken)
  /\ refused \subseteq 1 .. taken
  /\ operationFrames \in [Ops -> Frames \cup {None}]
  /\ closed \in BOOLEAN

(* Only an abort leaves a native poll behind.                              *)
NativeInv ==
  /\ faults \in FaultSets
  /\ wire \in Traffic
  /\ taken \in 0 .. Len(wire)
  /\ orphans \in 0 .. MaxOrphans
  /\ orphans > 0 => "abort" \in faults
  /\ mode \in [Calls -> {"event", "submit"}]
  /\ timed \in [Calls -> BOOLEAN]

(* Without the flag there is no reply, neither in flight nor sent.         *)
RepliesInv ==
  /\ terminal \subseteq Index
  /\ replying \in [Index -> Nat]
  /\ answered \in [Index -> Nat]
  /\ \A i \in Index \ terminal : answered[i] + replying[i] = 0
  /\ OneTerminalReply

IInv == NativeInv /\ CallsInv /\ EventsInv /\ NoEventLost /\ RepliesInv
-----------------------------------------------------------------------------
(* The events of the wire: an index of Traffic finds one.                  *)
LEMMA WireIsEvents ==
  ASSUME NativeInv
  PROVE  /\ wire \in Seq(Event)
         /\ Len(wire) \in Nat
         /\ taken \in Nat
         /\ \A i \in 1 .. Len(wire) : wire[i] \in Event
BY TrafficAssumption DEF NativeInv

(* A sequence of the events taken is one when another has been taken.      *)
LEMMA TakingMore ==
  ASSUME NEW n \in Nat, NEW m \in Nat, n <= m, NEW s \in Seq(1 .. n)
  PROVE  s \in Seq(1 .. m)
<1>1. \A i \in 1 .. Len(s) : s[i] \in 1 .. m
  OBVIOUS
<1> QED BY <1>1

(* Naturals have a least one.                                              *)
LEMMA MinOfNats ==
  ASSUME NEW I \in SUBSET Nat, I # {}
  PROVE  \E x \in I : \A y \in I : x <= y
<1>1. PICK x \in I : \A y \in I : <<y, x>> \notin OpToRel(<, Nat)
  BY NatLessThanWellFounded, WFMin
<1>2. \A y \in I : ~(y < x)
  BY <1>1 DEF OpToRel
<1> QED BY <1>2

(* Sequences, with the set of elements as a variable.                      *)
LEMMA SequenceFacts ==
  ASSUME NEW S, NEW s \in Seq(S)
  PROVE  /\ \A k \in 1 .. Len(s) : s[k] \in S
         /\ \A x \in S : Append(s, x) \in Seq(S)
  OBVIOUS

(* ToSet and Append.                                                       *)
LEMMA AppendedSet ==
  ASSUME NEW S, NEW s \in Seq(S), NEW x \in S
  PROVE  ToSet(Append(s, x)) = ToSet(s) \cup {x}
<1> DEFINE t == Append(s, x)
<1>1. /\ t \in Seq(S)
      /\ Len(t) = Len(s) + 1
      /\ t[Len(t)] = x
      /\ \A i \in 1 .. Len(s) : t[i] = s[i]
  OBVIOUS
<1>2. Len(s) \in Nat /\ DOMAIN s = 1 .. Len(s) /\ DOMAIN t = 1 .. Len(s) + 1
  BY <1>1
<1> HIDE DEF t
<1>3. ASSUME NEW y \in ToSet(s) PROVE y \in ToSet(t)
  <2>1. PICK i \in 1 .. Len(s) : y = s[i] BY <1>2 DEF ToSet
  <2> QED BY <2>1, <1>1, <1>2 DEF ToSet
<1>4. x \in ToSet(t)
  BY <1>1, <1>2 DEF ToSet
<1>5. ASSUME NEW y \in ToSet(t) PROVE y \in ToSet(s) \cup {x}
  <2>1. PICK i \in 1 .. Len(s) + 1 : y = t[i] BY <1>2 DEF ToSet
  <2>2. CASE i = Len(s) + 1 BY <2>1, <2>2, <1>1
  <2>3. CASE i # Len(s) + 1
    <3>1. i \in 1 .. Len(s) /\ y = s[i] BY <2>1, <2>3, <1>1, <1>2
    <3> QED BY <3>1, <1>2 DEF ToSet
  <2> QED BY <2>2, <2>3
<1> QED BY <1>3, <1>4, <1>5 DEF t

(* RemoveAt takes out one element and loses no other.                      *)
LEMMA RemovedSet ==
  ASSUME NEW S, NEW s \in Seq(S), NEW k \in 1 .. Len(s)
  PROVE  /\ RemoveAt(s, k) \in Seq(S)
         /\ ToSet(s) \subseteq ToSet(RemoveAt(s, k)) \cup {s[k]}
<1> DEFINE n == Len(s)
           front == SubSeq(s, 1, k - 1)
           back == SubSeq(s, k + 1, n)
<1>0. n \in Nat /\ k \in 1 .. n /\ s \in Seq(S)
  OBVIOUS
<1>1. front \in Seq(S) /\ Len(front) = k - 1 /\ \A i \in 1 .. k - 1 : front[i] = s[i]
  BY <1>0
<1>2. back \in Seq(S) /\ Len(back) = n - k /\ \A i \in 1 .. n - k : back[i] = s[i + k]
  BY <1>0
<1>3. RemoveAt(s, k) = front \o back BY DEF RemoveAt
<1> HIDE DEF front, back
<1>4. /\ front \o back \in Seq(S)
      /\ Len(front \o back) = n - 1
      /\ \A i \in 1 .. n - 1 : (front \o back)[i] = IF i < k THEN front[i] ELSE back[i - (k - 1)]
  <2>1. front \in Seq(S) /\ back \in Seq(S) /\ Len(front) = k - 1 /\ Len(back) = n - k
    BY <1>1, <1>2
  <2>2. /\ front \o back \in Seq(S)
        /\ Len(front \o back) = Len(front) + Len(back)
        /\ \A i \in 1 .. Len(front) + Len(back) :
             (front \o back)[i] = IF i <= Len(front) THEN front[i] ELSE back[i - Len(front)]
    BY <2>1
  <2> HIDE DEF n
  <2> QED BY <1>0, <2>1, <2>2
<1>5. DOMAIN (front \o back) = 1 .. n - 1
  BY <1>4
<1>6. ASSUME NEW i \in 1 .. n, i # k PROVE \E j \in 1 .. n - 1 : (front \o back)[j] = s[i]
  <2>1. CASE i < k
    <3>1. i \in 1 .. n - 1 /\ i \in 1 .. k - 1 BY <2>1, <1>0
    <3> QED BY <2>1, <3>1, <1>1, <1>4
  <2>2. CASE i > k
    <3>1. i - 1 \in 1 .. n - 1 /\ ~(i - 1 < k) BY <2>2, <1>0
    <3>2. (i - 1) - (k - 1) = i - k /\ i - k \in 1 .. n - k /\ (i - k) + k = i BY <2>2, <1>0
    <3>3. (front \o back)[i - 1] = back[i - k] BY <3>1, <3>2, <1>4
    <3>4. back[i - k] = s[i] BY <3>2, <1>2
    <3> QED BY <3>1, <3>3, <3>4
  <2>3. i < k \/ i > k BY <1>6, <1>0
  <2> QED BY <2>1, <2>2, <2>3
<1>7. ASSUME NEW y \in ToSet(s), y # s[k] PROVE y \in ToSet(front \o back)
  <2>1. PICK i \in 1 .. n : y = s[i] BY <1>0, DOMAIN s = 1 .. n DEF ToSet
  <2>2. PICK j \in 1 .. n - 1 : (front \o back)[j] = s[i] BY <2>1, <1>6, <1>7
  <2> QED BY <2>1, <2>2, <1>5 DEF ToSet
<1> QED BY <1>3, <1>4, <1>7
-----------------------------------------------------------------------------
(* The calls: what is taken only grows, and a call starts, waits or ends.  *)
LEMMA CallStarts ==
  ASSUME IInv, NEW c \in Calls, call[c] = "idle",
         call' = [call EXCEPT ![c] = "queued"], queue' = Append(queue, c), UNCHANGED <<held, taken>>
  PROVE  CallsInv'
<1>1. /\ queue' \in Seq(Calls)
      /\ Len(queue') = Len(queue) + 1
      /\ queue'[Len(queue) + 1] = c
      /\ \A i \in 1 .. Len(queue) : queue'[i] = queue[i]
      /\ Len(queue) \in Nat
  BY DEF IInv, CallsInv
<1>2. \A i \in 1 .. Len(queue) : queue[i] # c
  BY DEF IInv, CallsInv, QueueInv
<1>3. \A d \in Calls : call'[d] = IF d = c THEN "queued" ELSE call[d]
  BY DEF IInv, CallsInv
<1>4. QueueInv'
  <2>1. \A i, j \in 1 .. Len(queue') : queue'[i] = queue'[j] => i = j
    BY <1>1, <1>2 DEF IInv, CallsInv, QueueInv
  <2>2. ASSUME NEW d \in Calls
        PROVE  call'[d] # "idle" <=> \E i \in 1 .. Len(queue') : queue'[i] = d
    <3>1. CASE d = c BY <3>1, <1>1, <1>3
    <3>2. CASE d # c BY <3>2, <1>1, <1>3 DEF IInv, CallsInv, QueueInv
    <3> QED BY <3>1, <3>2
  <2>3. ASSUME NEW d \in Calls, call'[d] \in Active
        PROVE  queue'[1] = d
    <3>1. d # c /\ call[d] \in Active BY <2>3, <1>3 DEF Active
    <3>2. queue[1] = d /\ call[d] # "idle" BY <3>1 DEF IInv, CallsInv, QueueInv, Active
    <3>3. PICK i \in 1 .. Len(queue) : queue[i] = d BY <3>2 DEF IInv, CallsInv, QueueInv
    <3>4. 1 \in 1 .. Len(queue) BY <1>1, <3>3
    <3> QED BY <3>2, <3>4, <1>1
  <2> QED BY <2>1, <2>2, <2>3 DEF QueueInv
<1>5. HeldInv'
  BY <1>3 DEF IInv, CallsInv, HeldInv
<1> QED BY <1>1, <1>4, <1>5 DEF IInv, CallsInv

LEMMA CallWaits ==
  ASSUME IInv, NEW c \in Calls, queue[1] = c, call[c] # "idle",
         taken' \in Nat, taken <= taken', NEW at \in Active, NEW event \in 0 .. taken',
         event # 0 <=> at = "releasing", Waits(c, at, event)
  PROVE  /\ CallsInv'
         /\ \A d \in Calls : held'[d] = IF d = c THEN event ELSE held[d]
<1>0. taken \in Nat
  BY WireIsEvents DEF IInv
<1>1. \A d \in Calls : call'[d] = IF d = c THEN at ELSE call[d]
  BY DEF IInv, CallsInv, Waits
<1>2. \A d \in Calls : held'[d] = IF d = c THEN event ELSE held[d]
  BY DEF IInv, CallsInv, Waits
<1>3. QueueInv'
  BY <1>1 DEF IInv, CallsInv, QueueInv, Active, Waits
<1>4. HeldInv'
  BY <1>1, <1>2 DEF IInv, CallsInv, HeldInv
<1>5. held' \in [Calls -> 0 .. taken']
  BY <1>0 DEF IInv, CallsInv, Waits
<1>6. call' \in [Calls -> {"idle", "queued", "polling", "releasing"}] /\ queue' \in Seq(Calls)
  BY DEF IInv, CallsInv, Waits, Active
<1> QED BY <1>2, <1>3, <1>4, <1>5, <1>6 DEF CallsInv

(* The head of the queue leaves it.                                        *)
LEMMA CallEnds ==
  ASSUME IInv, NEW c \in Calls, queue[1] = c, call[c] # "idle",
         taken' \in Nat, taken <= taken', Ends(c)
  PROVE  /\ CallsInv'
         /\ \A d \in Calls : held'[d] = IF d = c THEN 0 ELSE held[d]
<1>0. taken \in Nat
  BY WireIsEvents DEF IInv
<1>1. \A d \in Calls : call'[d] = IF d = c THEN "idle" ELSE call[d]
  BY DEF IInv, CallsInv, Ends
<1>2. \A d \in Calls : held'[d] = IF d = c THEN 0 ELSE held[d]
  BY DEF IInv, CallsInv, Ends
<1>3. /\ queue \in Seq(Calls) /\ queue # <<>>
      /\ Len(queue) \in Nat
  BY DEF IInv, CallsInv, QueueInv
<1>4. /\ queue' \in Seq(Calls)
      /\ Len(queue') = Len(queue) - 1
      /\ \A i \in 1 .. Len(queue) - 1 : queue'[i] = queue[i + 1]
  BY <1>3 DEF Ends
<1>5. QueueInv'
  <2>1. \A i, j \in 1 .. Len(queue') : queue'[i] = queue'[j] => i = j
    <3> SUFFICES ASSUME NEW i \in 1 .. Len(queue'), NEW j \in 1 .. Len(queue'), queue'[i] = queue'[j]
                 PROVE  i = j
      OBVIOUS
    <3>1. i + 1 \in 1 .. Len(queue) /\ j + 1 \in 1 .. Len(queue) BY <1>3, <1>4
    <3>2. queue[i + 1] = queue[j + 1] BY <1>4
    <3>3. i + 1 = j + 1 BY <3>1, <3>2 DEF IInv, CallsInv, QueueInv
    <3> QED BY <3>3, <1>4
  <2>2. ASSUME NEW i \in 1 .. Len(queue')
        PROVE  queue'[i] # c /\ i + 1 \in 1 .. Len(queue) /\ queue'[i] = queue[i + 1]
    <3>1. i + 1 \in 1 .. Len(queue) /\ 1 \in 1 .. Len(queue) /\ i + 1 # 1 BY <1>3, <1>4
    <3> QED BY <3>1, <1>4 DEF IInv, CallsInv, QueueInv
  <2>3. ASSUME NEW d \in Calls
        PROVE  call'[d] # "idle" <=> \E i \in 1 .. Len(queue') : queue'[i] = d
    <3>1. CASE d = c BY <3>1, <1>1, <2>2
    <3>2. CASE d # c
      <4>1. ASSUME NEW i \in 1 .. Len(queue), queue[i] = d
            PROVE  \E j \in 1 .. Len(queue') : queue'[j] = d
        <5>1. i # 1 BY <4>1, <3>2
        <5>2. i - 1 \in 1 .. Len(queue) - 1 /\ (i - 1) + 1 = i BY <5>1, <1>3
        <5> QED BY <5>2, <4>1, <1>4
      <4>2. ASSUME NEW i \in 1 .. Len(queue'), queue'[i] = d
            PROVE  \E j \in 1 .. Len(queue) : queue[j] = d
        BY <4>2, <2>2
      <4>3. call[d] # "idle" <=> \E i \in 1 .. Len(queue) : queue[i] = d
        BY DEF IInv, CallsInv, QueueInv
      <4>4. call'[d] = call[d] BY <3>2, <1>1
      <4> QED BY <4>1, <4>2, <4>3, <4>4
    <3> QED BY <3>1, <3>2
  <2>4. \A d \in Calls : call'[d] \notin Active
    BY <1>1 DEF IInv, CallsInv, QueueInv, Active
  <2> QED BY <2>1, <2>3, <2>4 DEF QueueInv
<1>6. HeldInv'
  BY <1>1, <1>2 DEF IInv, CallsInv, HeldInv
<1>7. held' \in [Calls -> 0 .. taken']
  BY <1>0 DEF IInv, CallsInv, Ends
<1>8. call' \in [Calls -> {"idle", "queued", "polling", "releasing"}]
  BY DEF IInv, CallsInv, Ends
<1> QED BY <1>2, <1>4, <1>5, <1>6, <1>7, <1>8 DEF CallsInv
-----------------------------------------------------------------------------
(* The events: what was accounted for stays so when the collections grow   *)
(* and the call that moves on held nothing but the event it hands over.    *)
LEMMA StillAccounted ==
  ASSUME IInv, NEW c \in Calls, NEW i,
         Given \subseteq Given', Parked \subseteq Parked', refused \subseteq refused',
         \A d \in Calls \ {c} : held'[d] = held[d], held[c] \in {0, i},
         \A j \in 1 .. taken' : j \in 1 .. taken \/ j = i,
         i \in Nat /\ i # 0 => Accounted(i)',
         UNCHANGED <<faults, closed>>
  PROVE  NoEventLost'
<1> SUFFICES ASSUME ~closed', "abort" \notin faults', NEW j \in 1 .. taken'
             PROVE  Accounted(j)'
  BY DEF NoEventLost
<1>1. CASE j = i
  BY <1>1
<1>2. CASE j # i
  <2>1. j \in 1 .. taken BY <1>2
  <2>2. Accounted(j) BY <2>1 DEF IInv, NoEventLost
  <2>3. CASE j \in Given \cup Parked \cup refused BY <2>3 DEF Accounted
  <2>4. CASE j \in {held[d] : d \in Calls}
    <3>1. PICK d \in Calls : j = held[d] BY <2>4
    <3>2. d # c BY <3>1, <1>2, <2>1
    <3>3. held'[d] = j BY <3>1, <3>2
    <3> QED BY <3>3 DEF Accounted
  <2> QED BY <2>2, <2>3, <2>4 DEF Accounted
<1> QED BY <1>1, <1>2

LEMMA EventDelivered ==
  ASSUME IInv, NEW c \in Calls, queue[1] = c, call[c] \in Active,
         taken' \in Nat, taken <= taken', taken' <= Len(wire),
         NEW i \in 1 .. taken', held[c] \in {0, i},
         \A j \in 1 .. taken' : j \in 1 .. taken \/ j = i,
         Delivers(c, i), UNCHANGED <<faults, wire, closed>>
  PROVE  CallsInv' /\ EventsInv' /\ NoEventLost'
<1>0. /\ taken \in Nat /\ call[c] # "idle" /\ i # 0 /\ i \in Nat
      /\ wire[i] \in Event
  BY WireIsEvents DEF IInv, Active
<1>1. /\ pendingEvents \in Seq(1 .. taken') /\ given \in Seq(1 .. taken')
      /\ refused \subseteq 1 .. taken'
  BY <1>0, TakingMore DEF IInv, EventsInv
<1>2. /\ ToSet(Append(given, i)) = Given \cup {i}
      /\ ToSet(Append(pendingEvents, i)) = Parked \cup {i}
  <2>1. ToSet(Append(given, i)) = ToSet(given) \cup {i}
    BY <1>1, AppendedSet
  <2>2. ToSet(Append(pendingEvents, i)) = ToSet(pendingEvents) \cup {i}
    BY <1>1, AppendedSet
  <2> QED BY <2>1, <2>2 DEF Given, Parked
<1>3. \A d \in Calls \ {c} : held'[d] = held[d]
  BY DEF IInv, CallsInv, Delivers, Ends, Waits
<1>4. CallsInv'
  <2>1. CASE Ends(c) BY <2>1, <1>0, CallEnds
  <2>2. CASE Waits(c, "polling", 0) BY <2>2, <1>0, CallWaits DEF Active
  <2> QED BY <2>1, <2>2 DEF Delivers
<1>5. CASE wire[i].kind = "submit" /\ Bindable(i)
  <2>1. /\ given' = Append(given, i) /\ UNCHANGED <<pendingEvents, refused>>
        /\ operationFrames' = [operationFrames EXCEPT ![wire[i].op] = wire[i].frame]
    BY <1>5 DEF Delivers
  <2>2. EventsInv' BY <2>1, <1>0, <1>1 DEF IInv, EventsInv, Event
  <2>3. Given' = Given \cup {i} /\ Parked' = Parked BY <2>1, <1>2 DEF Given, Parked
  <2>4. NoEventLost' BY <2>1, <2>3, <1>3, StillAccounted DEF Accounted
  <2> QED BY <2>2, <2>4, <1>4
<1>6. CASE wire[i].kind = "submit" /\ ~Bindable(i)
  <2>1. /\ refused' = refused \cup {i} /\ UNCHANGED <<pendingEvents, given, operationFrames>>
    BY <1>6 DEF Delivers
  <2>2. EventsInv' BY <2>1, <1>0, <1>1 DEF IInv, EventsInv
  <2>3. Given' = Given /\ Parked' = Parked BY <2>1 DEF Given, Parked
  <2>4. NoEventLost' BY <2>1, <2>3, <1>3, StillAccounted DEF Accounted
  <2> QED BY <2>2, <2>4, <1>4
<1>7. CASE wire[i].kind # "submit" /\ given' = Append(given, i) /\ UNCHANGED pendingEvents
  <2>1. UNCHANGED <<refused, operationFrames>>
    BY <1>7 DEF Delivers
  <2>2. EventsInv' BY <2>1, <1>7, <1>0, <1>1 DEF IInv, EventsInv
  <2>3. Given' = Given \cup {i} /\ Parked' = Parked BY <1>7, <1>2 DEF Given, Parked
  <2>4. NoEventLost' BY <2>1, <2>3, <1>3, StillAccounted DEF Accounted
  <2> QED BY <2>2, <2>4, <1>4
<1>8. CASE wire[i].kind # "submit" /\ pendingEvents' = Append(pendingEvents, i) /\ UNCHANGED given
  <2>1. UNCHANGED <<refused, operationFrames>>
    BY <1>8 DEF Delivers
  <2>2. EventsInv' BY <2>1, <1>8, <1>0, <1>1 DEF IInv, EventsInv
  <2>3. Given' = Given /\ Parked' = Parked \cup {i} BY <1>8, <1>2 DEF Given, Parked
  <2>4. NoEventLost' BY <2>1, <2>3, <1>3, StillAccounted DEF Accounted
  <2> QED BY <2>2, <2>4, <1>4
<1> QED BY <1>5, <1>6, <1>7, <1>8 DEF Delivers, Park

(* A call that changes no collection and held nothing.                     *)
LEMMA NothingDelivered ==
  ASSUME IInv, NEW c \in Calls, held[c] = 0, \A d \in Calls \ {c} : held'[d] = held[d],
         taken' = taken, UNCHANGED <<faults, eventVars>>
  PROVE  EventsInv' /\ NoEventLost'
<1>1. Given' = Given /\ Parked' = Parked /\ closed' = closed /\ refused' = refused
  BY DEF eventVars, Given, Parked
<1>2. EventsInv'
  BY DEF IInv, EventsInv, eventVars
<1>3. \A j \in 1 .. taken' : j \in 1 .. taken \/ j = 0
  OBVIOUS
<1>4. NoEventLost'
  BY <1>1, <1>3, StillAccounted
<1> QED BY <1>2, <1>4
-----------------------------------------------------------------------------
(* Every step of a receiving call.                                         *)
Receiving(c) ==
  \/ \E m \in {"event", "submit"}, t \in BOOLEAN : Receive(c, m, t)
  \/ Runnable(c) \/ ReleaseFails(c) \/ Interrupted(c)

LEMMA WantedIsQueued ==
  ASSUME IInv, NEW c \in Calls
  PROVE  Wanted(c) \in 0 .. Len(pendingEvents)
<1>0. Len(pendingEvents) \in Nat /\ pendingEvents \in Seq(1 .. taken)
  BY DEF IInv, EventsInv
<1>1. CASE mode[c] = "event"
  <2>1. pendingEvents # <<>> => Len(pendingEvents) >= 1 BY <1>0
  <2> QED BY <1>0, <1>1, <2>1 DEF Wanted
<1>2. CASE mode[c] # "event"
  <2> DEFINE I == {k \in 1 .. Len(pendingEvents) : wire[pendingEvents[k]].kind = "submit"}
  <2>1. Wanted(c) = IF I # {} THEN Min(I) ELSE 0
    BY <1>2 DEF Wanted, SelectInSeq
  <2>2. ASSUME I # {} PROVE Min(I) \in I
    <3>1. I \in SUBSET Nat /\ I # {} BY <2>2, <1>0
    <3> HIDE DEF I
    <3>2. \E x \in I : \A y \in I : x <= y
      BY <3>1, MinOfNats
    <3> QED BY <3>2 DEF Min
  <2> QED BY <2>1, <2>2, <1>0
<1> QED BY <1>1, <1>2

LEMMA ReceivingKeepsIInv ==
  ASSUME IInv, NEW c \in Calls, Receiving(c), UNCHANGED faults
  PROVE  NativeInv' /\ CallsInv' /\ EventsInv' /\ NoEventLost'
<1>0. /\ taken \in Nat /\ Len(wire) \in Nat /\ wire \in Seq(Event) /\ MaxOrphans \in Nat
      /\ \A i \in 1 .. Len(wire) : wire[i] \in Event
  BY WireIsEvents, OrphanAssumption DEF IInv
<1>1. ASSUME NEW m \in {"event", "submit"}, NEW t \in BOOLEAN, Receive(c, m, t)
      PROVE  NativeInv' /\ CallsInv' /\ EventsInv' /\ NoEventLost'
  <2>1. NativeInv' BY <1>1 DEF IInv, NativeInv, Receive, nativeVars
  <2>2. CallsInv' BY <1>1, CallStarts DEF Receive, nativeVars
  <2>3. EventsInv' BY <1>1 DEF IInv, EventsInv, Receive, eventVars, nativeVars
  <2>4. NoEventLost' BY <1>1 DEF IInv, NoEventLost, Accounted, Given, Parked, Receive, eventVars, nativeVars
  <2> QED BY <2>1, <2>2, <2>3, <2>4
<1>2. CASE Start(c) /\ TakesQueued(c)
  <2> DEFINE w == Wanted(c)
  <2>1. /\ w \in 1 .. Len(pendingEvents) /\ pendingEvents \in Seq(1 .. taken)
        /\ pendingEvents' = RemoveAt(pendingEvents, w) /\ Ends(c)
    BY <1>2, WantedIsQueued DEF TakesQueued, IInv, EventsInv
  <2>2. call[c] = "queued" /\ queue[1] = c /\ held[c] = 0
    BY <1>2 DEF Start, Runs, IInv, CallsInv, HeldInv
  <2>3. UNCHANGED <<nativeVars, refused, operationFrames, closed, mode, timed>>
    BY <1>2 DEF TakesQueued, Ends
  <2>4. CallsInv' /\ \A d \in Calls : held'[d] = IF d = c THEN 0 ELSE held[d]
    BY <2>1, <2>2, <2>3, <1>0, CallEnds DEF nativeVars
  <2>5. NativeInv' BY <2>3 DEF IInv, NativeInv, nativeVars
  <2> PICK e \in 1 .. taken : e = pendingEvents[w]
    BY <2>1, SequenceFacts
  <2>6. pendingEvents' \in Seq(1 .. taken) /\ Parked \subseteq Parked' \cup {e}
    BY <2>1, RemovedSet DEF Parked
  <2>7. given \in Seq(1 .. taken) /\ Append(given, e) \in Seq(1 .. taken)
    BY SequenceFacts DEF IInv, EventsInv
  <2>8. EventsInv'
    <3>1. given' = Append(given, e) \/ given' = given BY <1>2 DEF TakesQueued
    <3>2. given' \in Seq(1 .. taken) BY <3>1, <2>7
    <3> QED BY <3>2, <2>3, <2>6 DEF IInv, EventsInv, nativeVars
  <2>9. ASSUME "abort" \notin faults PROVE NoEventLost'
    <3>1. given' = Append(given, e) BY <1>2, <2>9 DEF TakesQueued
    <3>2. Given' = Given \cup {e}
      <4> DEFINE S == 1 .. taken
      <4>1. given \in Seq(S) /\ e \in S BY <2>7
      <4> HIDE DEF S
      <4>2. ToSet(Append(given, e)) = ToSet(given) \cup {e} BY <4>1, AppendedSet
      <4> QED BY <3>1, <4>2 DEF Given
    <3> SUFFICES ASSUME ~closed', NEW j \in 1 .. taken' PROVE Accounted(j)'
      BY DEF NoEventLost
    <3>3. Accounted(j) BY <2>3, <2>9 DEF IInv, NoEventLost, nativeVars
    <3>4. CASE j \in Given \cup Parked \cup refused
      BY <3>4, <3>2, <2>6, <2>3 DEF Accounted
    <3>5. CASE j \in {held[d] : d \in Calls}
      <4>1. PICK d \in Calls : held[d] = j BY <3>5
      <4>2. j # 0 BY <1>0, <2>3 DEF nativeVars
      <4>3. held'[d] = j BY <4>1, <4>2, <2>2, <2>4
      <4> QED BY <4>3 DEF Accounted
    <3> QED BY <3>3, <3>4, <3>5 DEF Accounted
  <2> QED BY <2>4, <2>5, <2>8, <2>9 DEF NoEventLost
<1>3. CASE Start(c) /\ StartsPoll(c)
  <2>1. call[c] = "queued" /\ queue[1] = c /\ held[c] = 0
    BY <1>3 DEF Start, Runs, IInv, CallsInv, HeldInv
  <2>2. UNCHANGED <<wire, taken, eventVars, mode, timed>>
    BY <1>3 DEF StartsPoll, Ends, Waits
  <2>3. \/ orphans' = orphans
        \/ "abort" \in faults /\ orphans < MaxOrphans /\ orphans' = orphans + 1
    BY <1>3 DEF StartsPoll
  <2>4. NativeInv' BY <2>2, <2>3, <1>0 DEF IInv, NativeInv
  <2>5. CASE Waits(c, "polling", 0)
    <3>1. CallsInv' /\ \A d \in Calls : held'[d] = IF d = c THEN 0 ELSE held[d]
      BY <2>1, <2>2, <2>5, <1>0, CallWaits DEF Active
    <3> QED BY <3>1, <2>1, <2>2, <2>4, NothingDelivered
  <2>6. CASE Ends(c)
    <3>1. CallsInv' /\ \A d \in Calls : held'[d] = IF d = c THEN 0 ELSE held[d]
      BY <2>1, <2>2, <2>6, <1>0, CallEnds
    <3> QED BY <3>1, <2>1, <2>2, <2>4, NothingDelivered
  <2> QED BY <1>3, <2>5, <2>6 DEF StartsPoll
<1>4. CASE PollReturns(c)
  <2>1. call[c] = "polling" /\ queue[1] = c /\ held[c] = 0
    BY <1>4 DEF PollReturns, IInv, CallsInv, HeldInv, QueueInv, Active
  <2>2. taken < Len(wire) /\ taken' = taken + 1 /\ UNCHANGED <<wire, orphans>>
    BY <1>4 DEF PollReturns
  <2>3. NativeInv'
    <3>1. UNCHANGED <<mode, timed>> BY <1>4 DEF PollReturns, Delivers, Ends, Waits
    <3> QED BY <2>2, <3>1, <1>0 DEF IInv, NativeInv
  <2> PICK n \in Nat : n = taken + 1
    BY <1>0
  <2>4. /\ \A j \in 1 .. taken' : j \in 1 .. taken \/ j = n
        /\ n \in 1 .. taken' /\ taken' \in Nat /\ taken <= taken' /\ taken' <= Len(wire)
    BY <2>2, <1>0
  <2>5. CASE wire[n].kind = "cancel"
    <3>1. Waits(c, "releasing", n) /\ UNCHANGED eventVars
      BY <1>4, <2>5 DEF PollReturns
    <3>2. n \in 0 .. taken' /\ n # 0 BY <2>4
    <3>3. CallsInv' /\ \A d \in Calls : held'[d] = IF d = c THEN n ELSE held[d]
      BY <2>1, <2>4, <3>1, <3>2, CallWaits DEF Active
    <3>4. EventsInv'
      <4>1. pendingEvents \in Seq(1 .. taken') /\ given \in Seq(1 .. taken') /\ refused \subseteq 1 .. taken'
        BY <2>4, <1>0, TakingMore DEF IInv, EventsInv
      <4> QED BY <4>1, <3>1 DEF IInv, EventsInv, eventVars
    <3>5. Accounted(n)'
      BY <3>3 DEF Accounted
    <3>6. Given' = Given /\ Parked' = Parked /\ closed' = closed /\ refused' = refused
      BY <3>1 DEF eventVars, Given, Parked
    <3>7. held[c] \in {0, n} /\ \A d \in Calls \ {c} : held'[d] = held[d]
      BY <3>3, <2>1
    <3>8. NoEventLost'
      BY <3>5, <3>6, <3>7, <2>4, StillAccounted
    <3> QED BY <3>3, <3>4, <3>8, <2>3
  <2>6. CASE wire[n].kind # "cancel"
    <3>1. Delivers(c, n) /\ UNCHANGED closed
      BY <1>4, <2>6 DEF PollReturns
    <3> QED BY <3>1, <2>1, <2>2, <2>3, <2>4, EventDelivered DEF Active
  <2> QED BY <2>5, <2>6
<1>5. CASE Released(c)
  <2>1. call[c] = "releasing" /\ queue[1] = c /\ held[c] # 0 /\ held[c] \in 0 .. taken
    BY <1>5 DEF Released, IInv, CallsInv, HeldInv, QueueInv, Active
  <2>2. Delivers(c, held[c]) /\ UNCHANGED <<wire, taken, orphans, closed>>
    BY <1>5 DEF Released, nativeVars
  <2>3. NativeInv'
    <3>1. UNCHANGED <<mode, timed>> BY <2>2 DEF Delivers, Ends, Waits
    <3> QED BY <2>2, <3>1 DEF IInv, NativeInv
  <2>4. held[c] \in 1 .. taken' /\ taken' \in Nat /\ taken <= taken' /\ taken' <= Len(wire)
    BY <2>1, <2>2, <1>0 DEF IInv, NativeInv
  <2> QED BY <2>1, <2>2, <2>3, <2>4, EventDelivered DEF Active
<1>6. CASE ReleaseFails(c)
  <2>1. call[c] = "releasing" /\ queue[1] = c /\ held[c] # 0 /\ held[c] \in 0 .. taken
    BY <1>6 DEF ReleaseFails, IInv, CallsInv, HeldInv, QueueInv, Active
  <2>2. /\ Ends(c) /\ refused' = refused \cup {held[c]}
        /\ UNCHANGED <<wire, taken, orphans, pendingEvents, given, operationFrames, closed, mode, timed>>
    BY <1>6 DEF ReleaseFails, nativeVars, Ends
  <2>3. NativeInv' BY <2>2 DEF IInv, NativeInv
  <2>4. CallsInv' /\ \A d \in Calls : held'[d] = IF d = c THEN 0 ELSE held[d]
    BY <2>1, <2>2, <1>0, CallEnds
  <2>5. EventsInv'
    <3>1. held[c] \in 1 .. taken BY <2>1, <1>0
    <3> QED BY <3>1, <2>2 DEF IInv, EventsInv
  <2>7. Given' = Given /\ Parked' = Parked BY <2>2 DEF Given, Parked
  <2>8. ASSUME ~closed', "abort" \notin faults', NEW j \in 1 .. taken' PROVE Accounted(j)'
    <3>1. Accounted(j) BY <2>2, <2>8 DEF IInv, NoEventLost
    <3>2. CASE j \in Given \cup Parked \cup refused BY <3>2, <2>2, <2>7 DEF Accounted
    <3>3. CASE j \in {held[d] : d \in Calls}
      <4>1. PICK d \in Calls : held[d] = j BY <3>3
      <4>2. CASE d = c BY <4>1, <4>2, <2>2 DEF Accounted
      <4>3. CASE d # c
        <5>1. held'[d] = j BY <4>1, <4>3, <2>4
        <5> QED BY <5>1 DEF Accounted
      <4> QED BY <4>2, <4>3
    <3> QED BY <3>1, <3>2, <3>3 DEF Accounted
  <2>9. NoEventLost' BY <2>8 DEF NoEventLost
  <2> QED BY <2>3, <2>4, <2>5, <2>9
<1>7. CASE PollEnds(c) \/ Interrupted(c)
  <2>1. call[c] = "polling" /\ queue[1] = c /\ held[c] = 0
    BY <1>7 DEF PollEnds, Interrupted, IInv, CallsInv, HeldInv, QueueInv, Active
  <2>2. Ends(c) /\ UNCHANGED <<wire, taken, eventVars, mode, timed>>
    BY <1>7 DEF PollEnds, Interrupted, nativeVars, Ends
  <2>3. \/ orphans' = orphans
        \/ "abort" \in faults /\ orphans < MaxOrphans /\ orphans' = orphans + 1
    BY <1>7 DEF PollEnds, Interrupted, nativeVars
  <2>4. NativeInv' BY <2>2, <2>3, <1>0 DEF IInv, NativeInv
  <2>5. CallsInv' /\ \A d \in Calls : held'[d] = IF d = c THEN 0 ELSE held[d]
    BY <2>1, <2>2, <1>0, CallEnds
  <2> QED BY <2>1, <2>2, <2>4, <2>5, NothingDelivered
<1> QED BY <1>1, <1>2, <1>3, <1>4, <1>5, <1>6, <1>7 DEF Receiving, Runnable, Start
-----------------------------------------------------------------------------
(* The replies.                                                            *)
LEMMA ReplyKeepsIInv ==
  ASSUME IInv, NEW i \in Index, Reply(i), UNCHANGED faults
  PROVE  RepliesInv'
<1>1. Index' = Index /\ i \notin terminal /\ terminal' = terminal \cup {i} /\ answered' = answered
  BY DEF Reply, Flagged, Index, nativeVars
<1>2. answered[i] = 0 /\ replying[i] = 0
  BY <1>1 DEF IInv, RepliesInv
<1>3. CASE replying' = [replying EXCEPT ![i] = @ + 1]
  BY <1>1, <1>2, <1>3 DEF IInv, RepliesInv, OneTerminalReply
<1>4. CASE "encode" \in faults /\ UNCHANGED replying
  BY <1>1, <1>2, <1>4 DEF IInv, RepliesInv, OneTerminalReply
<1> QED BY <1>3, <1>4 DEF Reply

LEMMA ReplyEndsKeepIInv ==
  ASSUME IInv, NEW i \in Index, ReplySent(i) \/ ReplyFails(i), UNCHANGED faults
  PROVE  RepliesInv'
<1>1. Index' = Index /\ replying[i] > 0 /\ replying' = [replying EXCEPT ![i] = @ - 1]
  BY DEF ReplySent, ReplyFails, Index, nativeVars
<1>2. i \in terminal /\ answered[i] = 0 /\ replying[i] = 1
  BY <1>1 DEF IInv, RepliesInv, OneTerminalReply
<1>3. CASE ReplySent(i)
  <2>1. terminal' = terminal /\ answered' = [answered EXCEPT ![i] = @ + 1] BY <1>3 DEF ReplySent
  <2> QED BY <1>1, <1>2, <2>1 DEF IInv, RepliesInv, OneTerminalReply
<1>4. CASE ReplyFails(i)
  <2>1. terminal' = terminal \ {i} /\ answered' = answered BY <1>4 DEF ReplyFails
  <2> QED BY <1>1, <1>2, <2>1 DEF IInv, RepliesInv, OneTerminalReply
<1> QED BY <1>3, <1>4

(* What neither calls nor replies change.                                  *)
LEMMA OthersStay ==
  ASSUME IInv
  PROVE  /\ UNCHANGED <<faults, nativeVars, callVars>> => NativeInv' /\ CallsInv'
         /\ UNCHANGED <<faults, wire, replyVars>> => RepliesInv'
         /\ UNCHANGED <<faults, taken, held, pendingEvents, given, refused, closed>> => NoEventLost'
<1>1. UNCHANGED <<faults, nativeVars, callVars>> => NativeInv' /\ CallsInv'
  BY DEF IInv, NativeInv, CallsInv, QueueInv, HeldInv, nativeVars, callVars
<1>2. UNCHANGED <<faults, wire, replyVars>> => RepliesInv'
  BY DEF IInv, RepliesInv, OneTerminalReply, Index, replyVars
<1>3. UNCHANGED <<faults, taken, held, pendingEvents, given, refused, closed>> => NoEventLost'
  BY DEF IInv, NoEventLost, Accounted, Given, Parked
<1> QED BY <1>1, <1>2, <1>3

LEMMA InitIInv == Init => IInv
<1> SUFFICES ASSUME Init PROVE IInv
  OBVIOUS
<1>1. Len(wire) \in Nat /\ MaxOrphans \in Nat
  BY TrafficAssumption, OrphanAssumption DEF Init
<1>2. NativeInv
  BY <1>1 DEF Init, NativeInv
<1>3. queue = <<>> /\ Len(queue) = 0
  BY DEF Init
<1>4. QueueInv /\ HeldInv
  BY <1>3 DEF Init, QueueInv, HeldInv, Active
<1>5. CallsInv
  BY <1>4 DEF Init, CallsInv
<1>6. EventsInv
  <2>1. pendingEvents = <<>> /\ given = <<>> /\ refused = {} BY DEF Init
  <2>2. pendingEvents \in Seq(1 .. taken) /\ given \in Seq(1 .. taken) BY <2>1
  <2>3. operationFrames \in [Ops -> Frames \cup {None}] BY DEF Init
  <2>4. closed \in BOOLEAN BY DEF Init
  <2> QED BY <2>1, <2>2, <2>3, <2>4 DEF EventsInv
<1>7. NoEventLost
  BY DEF Init, NoEventLost
<1>8. RepliesInv
  BY DEF Init, RepliesInv, OneTerminalReply, Index
<1> QED BY <1>2, <1>5, <1>6, <1>7, <1>8 DEF IInv

LEMMA NextKeepsIInv == IInv /\ [Next]_vars => IInv'
<1> SUFFICES ASSUME IInv, [Next]_vars PROVE IInv'
  OBVIOUS
<1>1. ASSUME NEW c \in Calls, Receiving(c), UNCHANGED faults
      PROVE  IInv'
  <2>1. UNCHANGED <<wire, replyVars>>
    BY <1>1 DEF Receiving, Receive, Runnable, Start, TakesQueued, StartsPoll, Released, PollReturns,
                PollEnds, ReleaseFails, Interrupted, nativeVars
  <2>2. RepliesInv' BY <1>1, <2>1, OthersStay
  <2> QED BY <1>1, <2>2, ReceivingKeepsIInv DEF IInv
<1>2. ASSUME OrphanReturns, UNCHANGED faults
      PROVE  IInv'
  <2>0. taken \in Nat /\ Len(wire) \in Nat BY WireIsEvents DEF IInv
  <2>1. /\ orphans > 0 /\ orphans' = orphans - 1 /\ UNCHANGED <<wire, callVars, eventVars, replyVars>>
        /\ taken' \in Nat /\ taken <= taken' /\ taken' <= Len(wire)
    BY <1>2, <2>0 DEF OrphanReturns, IInv, NativeInv
  <2>2. "abort" \in faults
    BY <2>1 DEF IInv, NativeInv
  <2>3. NativeInv'
    BY <1>2, <2>0, <2>1, OrphanAssumption DEF IInv, NativeInv, callVars
  <2>4. CallsInv'
    <3>1. held' \in [Calls -> 0 .. taken'] BY <2>0, <2>1 DEF IInv, CallsInv, callVars
    <3> QED BY <3>1, <2>1 DEF IInv, CallsInv, QueueInv, HeldInv, callVars
  <2>5. EventsInv'
    <3>1. pendingEvents \in Seq(1 .. taken') /\ given \in Seq(1 .. taken') /\ refused \subseteq 1 .. taken'
      BY <2>0, <2>1, TakingMore DEF IInv, EventsInv
    <3> QED BY <3>1, <2>1 DEF IInv, EventsInv, eventVars
  <2>6. NoEventLost' BY <1>2, <2>2 DEF NoEventLost
  <2>7. RepliesInv' BY <1>2, <2>1, OthersStay
  <2> QED BY <2>3, <2>4, <2>5, <2>6, <2>7 DEF IInv
<1>3. ASSUME NEW i \in Index, Reply(i), UNCHANGED faults
      PROVE  IInv'
  <2>1. UNCHANGED <<nativeVars, callVars, eventVars>> BY <1>3 DEF Reply
  <2>2. NativeInv' /\ CallsInv' BY <1>3, <2>1, OthersStay
  <2>3. EventsInv' BY <2>1 DEF IInv, EventsInv, eventVars, nativeVars
  <2>4. NoEventLost' BY <1>3, <2>1, OthersStay DEF eventVars, nativeVars, callVars
  <2> QED BY <1>3, <2>2, <2>3, <2>4, ReplyKeepsIInv DEF IInv
<1>4. ASSUME NEW i \in Index, ReplySent(i) \/ ReplyFails(i), UNCHANGED faults
      PROVE  IInv'
  <2>1. /\ UNCHANGED <<nativeVars, callVars, pendingEvents, given, refused, closed>>
        /\ operationFrames' \in {operationFrames, ForgetsAnswered(i)}
    BY <1>4 DEF ReplySent, ReplyFails, eventVars
  <2>2. NativeInv' /\ CallsInv' BY <1>4, <2>1, OthersStay
  <2>3. operationFrames' \in [Ops -> Frames \cup {None}]
    BY <2>1 DEF ForgetsAnswered, IInv, EventsInv
  <2>4. EventsInv' BY <2>1, <2>3 DEF IInv, EventsInv, nativeVars
  <2>5. NoEventLost' BY <1>4, <2>1, OthersStay DEF nativeVars, callVars
  <2> QED BY <1>4, <2>2, <2>4, <2>5, ReplyEndsKeepIInv DEF IInv
<1>5. ASSUME Close, UNCHANGED faults
      PROVE  IInv'
  <2>1. closed' = TRUE /\ pendingEvents' = <<>> /\ UNCHANGED <<nativeVars, callVars, given, refused, replyVars>>
    BY <1>5 DEF Close
  <2>2. operationFrames' \in [Ops -> Frames \cup {None}] BY <1>5 DEF Close
  <2>3. NativeInv' /\ CallsInv' BY <1>5, <2>1, OthersStay
  <2>4. EventsInv' BY <2>1, <2>2 DEF IInv, EventsInv, nativeVars
  <2>5. NoEventLost' BY <2>1 DEF NoEventLost
  <2>6. RepliesInv' BY <1>5, <2>1, OthersStay DEF nativeVars
  <2> QED BY <2>3, <2>4, <2>5, <2>6 DEF IInv
<1>6. CASE UNCHANGED vars
  <2>1. NativeInv' /\ CallsInv' /\ RepliesInv' /\ NoEventLost'
    BY <1>6, OthersStay DEF vars, nativeVars, callVars, eventVars
  <2>2. EventsInv' BY <1>6 DEF vars, nativeVars, eventVars, IInv, EventsInv
  <2> QED BY <2>1, <2>2 DEF IInv
<1>7. CASE Next
  BY <1>7, <1>1, <1>2, <1>3, <1>4, <1>5 DEF Next, Receiving
<1> QED BY <1>6, <1>7

THEOREM SessionInvariance == Spec => []IInv
BY InitIInv, NextKeepsIInv, PTL DEF Spec

(* All variables keep their types; receiving calls queue behind each other *)
(* (#serializeReceive), and only the first of them is running.             *)
THEOREM SessionTypeOK == Spec => []TypeOK
<1>1. IInv => TypeOK
  BY DEF IInv, NativeInv, CallsInv, EventsInv, RepliesInv, TypeOK
<1> QED BY <1>1, SessionInvariance, PTL

(* receiveSubmit() and nextEvent() lose no event of an open session, for   *)
(* any number of calls and any traffic, unless a call is aborted.          *)
THEOREM NoEventLostTheorem == Spec => []NoEventLost
BY SessionInvariance, PTL DEF IInv

(* No operation is answered twice, however many replies race and fail, and *)
(* as long as no encoder throws a terminal flag stands for a reply.        *)
THEOREM OneTerminalReplyTheorem == Spec => []OneTerminalReply
<1>1. IInv => OneTerminalReply
  BY DEF IInv, RepliesInv
<1> QED BY <1>1, SessionInvariance, PTL
-----------------------------------------------------------------------------
(***************************************************************************)
(* The order of the events, and the frames of the operations.              *)
(***************************************************************************)
Before(i) ==
  /\ \A k \in 1 .. Len(given) : given[k] < i
  /\ \A k \in 1 .. Len(pendingEvents) : pendingEvents[k] < i

(* Only what is not a submit is parked; it is in order, and later than     *)
(* every such event that was returned.                                     *)
SeqOrder ==
  /\ \A k \in 1 .. Len(pendingEvents) : wire[pendingEvents[k]].kind # "submit"
  /\ \A k, l \in 1 .. Len(pendingEvents) : k < l => pendingEvents[k] < pendingEvents[l]
  /\ \A k \in 1 .. Len(given), l \in 1 .. Len(pendingEvents) :
       wire[given[k]].kind # "submit" => given[k] < pendingEvents[l]
  /\ \A k, l \in 1 .. Len(given) :
       k < l /\ (wire[given[k]].kind = "submit" <=> wire[given[l]].kind = "submit")
         => given[k] < given[l]

(* The event a call holds is the latest; a nextEvent() that polls has      *)
(* found nothing parked.                                                   *)
CallOrder ==
  /\ \A c \in Calls : held[c] # 0 => Before(held[c])
  /\ \A c \in Calls : call[c] \in Active /\ mode[c] = "event" => pendingEvents = <<>>

(* Only what the application has is answered.                              *)
FramesInv ==
  /\ terminal \subseteq Opened
  /\ BoundHasSubmit
  /\ UnansweredIsBound

OInv == IInv /\ SeqOrder /\ CallOrder /\ FramesInv

(* Sequences of naturals that get one element more, or lose the first.     *)
LEMMA AppendedSeq ==
  ASSUME NEW S, NEW s \in Seq(S), NEW x \in S
  PROVE  /\ Len(s) \in Nat /\ Len(Append(s, x)) = Len(s) + 1
         /\ \A k \in 1 .. Len(s) : Append(s, x)[k] = s[k]
         /\ Append(s, x)[Len(s) + 1] = x
         /\ \A k \in 1 .. Len(s) + 1 : k \in 1 .. Len(s) \/ k = Len(s) + 1
  OBVIOUS

LEMMA FirstRemoved ==
  ASSUME NEW S, NEW s \in Seq(S), s # <<>>
  PROVE  /\ Len(s) \in Nat /\ 1 \in 1 .. Len(s)
         /\ Len(RemoveAt(s, 1)) = Len(s) - 1
         /\ \A k \in 1 .. Len(s) - 1 : RemoveAt(s, 1)[k] = s[k + 1] /\ k + 1 \in 1 .. Len(s) /\ 1 < k + 1
<1> DEFINE n == Len(s)
           front == SubSeq(s, 1, 1 - 1)
           back == SubSeq(s, 1 + 1, n)
<1>1. n \in Nat /\ n >= 1
  OBVIOUS
<1>2. front = <<>>
  OBVIOUS
<1>3. back \in Seq(S) /\ Len(back) = n - 1 /\ \A k \in 1 .. n - 1 : back[k] = s[k + 1]
  <2>1. ASSUME NEW j \in 1 .. n
        PROVE  /\ SubSeq(s, j + 1, n) \in Seq(S) /\ Len(SubSeq(s, j + 1, n)) = n - j
               /\ \A k \in 1 .. n - j : SubSeq(s, j + 1, n)[k] = s[k + j]
    BY <1>1
  <2>2. 1 \in 1 .. n
    BY <1>1
  <2> QED BY <2>1, <2>2
<1>4. RemoveAt(s, 1) = front \o back
  BY DEF RemoveAt
<1> HIDE DEF front, back
<1>5. RemoveAt(s, 1) = back
  BY <1>2, <1>3, <1>4
<1> QED BY <1>1, <1>3, <1>5

(* The sequences as numbers, and the kinds of their events.                *)
LEMMA EventNumbers ==
  ASSUME IInv
  PROVE  /\ taken \in Nat /\ Len(wire) \in Nat /\ taken <= Len(wire)
         /\ given \in Seq(Nat) /\ pendingEvents \in Seq(Nat)
         /\ \A k \in 1 .. Len(given) : given[k] \in Nat /\ given[k] <= taken
         /\ \A k \in 1 .. Len(pendingEvents) : pendingEvents[k] \in Nat /\ pendingEvents[k] <= taken
         /\ DOMAIN given = 1 .. Len(given) /\ Given \subseteq Index
<1> DEFINE T == 1 .. taken
<1>1. taken \in Nat /\ Len(wire) \in Nat /\ taken <= Len(wire)
  BY WireIsEvents DEF IInv, NativeInv
<1>2. given \in Seq(T) /\ pendingEvents \in Seq(T)
  BY DEF IInv, EventsInv
<1>3. \A x \in T : x \in Nat /\ x <= taken
  BY <1>1
<1> HIDE DEF T
<1>4. /\ \A k \in 1 .. Len(given) : given[k] \in T
      /\ \A k \in 1 .. Len(pendingEvents) : pendingEvents[k] \in T
      /\ given \in Seq(Nat) /\ pendingEvents \in Seq(Nat) /\ DOMAIN given = 1 .. Len(given)
  BY <1>2, <1>3
<1>5. T \subseteq Index
  BY <1>1 DEF T, Index
<1>6. Given \subseteq T
  BY <1>4 DEF Given, ToSet
<1> QED BY <1>1, <1>3, <1>4, <1>5, <1>6

(* An event later than all others is returned, and passes over nothing.    *)
LEMMA ReturnsLatest ==
  ASSUME IInv, SeqOrder, NEW i \in Nat, Before(i),
         given' = Append(given, i), UNCHANGED <<wire, pendingEvents>>,
         wire[i].kind = "submit" \/ pendingEvents = <<>>
  PROVE  SeqOrder'
<1> DEFINE n == Len(given)
<1>1. /\ n \in Nat /\ Len(given') = n + 1 /\ given'[n + 1] = i
      /\ \A k \in 1 .. n : given'[k] = given[k]
      /\ \A k \in 1 .. n + 1 : k \in 1 .. n \/ k = n + 1
  BY EventNumbers, AppendedSeq
<1>2. pendingEvents = <<>> => 1 .. Len(pendingEvents) = {}
  OBVIOUS
<1>3. \A k \in 1 .. n + 1, l \in 1 .. Len(pendingEvents) :
        wire[given'[k]].kind # "submit" => given'[k] < pendingEvents[l]
  BY <1>1, <1>2 DEF SeqOrder
<1>4. ASSUME NEW k \in 1 .. n + 1, NEW l \in 1 .. n + 1, k < l,
             wire[given'[k]].kind = "submit" <=> wire[given'[l]].kind = "submit"
      PROVE  given'[k] < given'[l]
  <2>1. k \in 1 .. n BY <1>1, <1>4
  <2>2. CASE l \in 1 .. n BY <1>1, <1>4, <2>1, <2>2 DEF SeqOrder
  <2>3. CASE l = n + 1 BY <1>1, <2>1, <2>3 DEF Before
  <2> QED BY <1>1, <2>2, <2>3
<1> QED BY <1>1, <1>3, <1>4 DEF SeqOrder

(* Or it is parked.                                                        *)
LEMMA ParksLatest ==
  ASSUME IInv, SeqOrder, NEW i \in Nat, Before(i), wire[i].kind # "submit",
         pendingEvents' = Append(pendingEvents, i), UNCHANGED <<wire, given>>
  PROVE  SeqOrder'
<1> DEFINE n == Len(pendingEvents)
<1>1. /\ n \in Nat /\ Len(pendingEvents') = n + 1 /\ pendingEvents'[n + 1] = i
      /\ \A k \in 1 .. n : pendingEvents'[k] = pendingEvents[k]
      /\ \A k \in 1 .. n + 1 : k \in 1 .. n \/ k = n + 1
  BY EventNumbers, AppendedSeq
<1>2. \A k \in 1 .. n + 1 : wire[pendingEvents'[k]].kind # "submit"
  BY <1>1 DEF SeqOrder
<1>3. ASSUME NEW k \in 1 .. n + 1, NEW l \in 1 .. n + 1, k < l
      PROVE  pendingEvents'[k] < pendingEvents'[l]
  <2>1. k \in 1 .. n BY <1>1, <1>3
  <2>2. CASE l \in 1 .. n BY <1>1, <1>3, <2>1, <2>2 DEF SeqOrder
  <2>3. CASE l = n + 1 BY <1>1, <2>1, <2>3 DEF Before
  <2> QED BY <1>1, <2>2, <2>3
<1>4. \A k \in 1 .. Len(given), l \in 1 .. n + 1 :
        wire[given[k]].kind # "submit" => given[k] < pendingEvents'[l]
  BY <1>1 DEF SeqOrder, Before
<1> QED BY <1>1, <1>2, <1>3, <1>4 DEF SeqOrder

(* The first parked event is taken out, and returned or dropped.           *)
LEMMA TakesFirst ==
  ASSUME IInv, SeqOrder, pendingEvents # <<>>,
         pendingEvents' = RemoveAt(pendingEvents, 1), UNCHANGED wire,
         given' = Append(given, pendingEvents[1]) \/ UNCHANGED given
  PROVE  SeqOrder'
<1> DEFINE n == Len(given)
           m == Len(pendingEvents)
           e == pendingEvents[1]
<1>1. /\ m \in Nat /\ 1 \in 1 .. m /\ Len(pendingEvents') = m - 1
      /\ \A k \in 1 .. m - 1 : pendingEvents'[k] = pendingEvents[k + 1] /\ k + 1 \in 1 .. m /\ 1 < k + 1
  BY EventNumbers, FirstRemoved
<1>2. e \in Nat
  BY <1>1, EventNumbers
<1>3. /\ \A k \in 1 .. m - 1 : wire[pendingEvents'[k]].kind # "submit" /\ e < pendingEvents'[k]
      /\ wire[e].kind # "submit"
  BY <1>1 DEF SeqOrder
<1>4. \A k, l \in 1 .. m - 1 : k < l => pendingEvents'[k] < pendingEvents'[l]
  <2>1. \A k, l \in 1 .. m - 1 : k < l => k + 1 < l + 1 BY <1>1
  <2> QED BY <1>1, <2>1 DEF SeqOrder
<1>5. \A k \in 1 .. n, l \in 1 .. m - 1 :
        wire[given[k]].kind # "submit" => given[k] < pendingEvents'[l]
  BY <1>1 DEF SeqOrder
<1>6. CASE UNCHANGED given
  BY <1>1, <1>3, <1>4, <1>5, <1>6 DEF SeqOrder
<1>7. CASE given' = Append(given, e)
  <2>1. /\ n \in Nat /\ Len(given') = n + 1 /\ given'[n + 1] = e
        /\ \A k \in 1 .. n : given'[k] = given[k]
        /\ \A k \in 1 .. n + 1 : k \in 1 .. n \/ k = n + 1
    BY <1>2, <1>7, EventNumbers, AppendedSeq
  <2>2. \A k \in 1 .. n + 1, l \in 1 .. m - 1 :
          wire[given'[k]].kind # "submit" => given'[k] < pendingEvents'[l]
    BY <2>1, <1>3, <1>5
  <2>3. ASSUME NEW k \in 1 .. n + 1, NEW l \in 1 .. n + 1, k < l,
               wire[given'[k]].kind = "submit" <=> wire[given'[l]].kind = "submit"
        PROVE  given'[k] < given'[l]
    <3>1. k \in 1 .. n BY <2>1, <2>3
    <3>2. CASE l \in 1 .. n BY <2>1, <2>3, <3>1, <3>2 DEF SeqOrder
    <3>3. CASE l = n + 1 BY <1>1, <1>3, <2>1, <2>3, <3>1, <3>3 DEF SeqOrder
    <3> QED BY <2>1, <3>2, <3>3
  <2> QED BY <1>1, <1>3, <1>4, <2>1, <2>2, <2>3 DEF SeqOrder
<1> QED BY <1>6, <1>7

(* Only the head of the queue moves, and no other call holds an event.     *)
LEMMA HeadMoves ==
  ASSUME IInv, CallOrder, NEW c \in Calls, queue[1] = c,
         \A d \in Calls \ {c} : call'[d] = call[d] /\ held'[d] = held[d],
         held'[c] # 0 => Before(held[c])',
         call'[c] \in Active /\ mode'[c] = "event" => pendingEvents' = <<>>
  PROVE  CallOrder'
<1>1. \A d \in Calls \ {c} : call[d] \notin Active /\ held[d] = 0
  BY DEF IInv, CallsInv, QueueInv, HeldInv, Active
<1> QED BY <1>1 DEF CallOrder

(* What Ends and Waits do to the calls.                                    *)
LEMMA CallMoves ==
  ASSUME IInv, NEW c \in Calls
  PROVE  /\ Ends(c) => /\ \A d \in Calls \ {c} : call'[d] = call[d] /\ held'[d] = held[d]
                       /\ call'[c] = "idle" /\ held'[c] = 0 /\ mode' = mode
         /\ \A at, event : Waits(c, at, event) =>
              /\ \A d \in Calls \ {c} : call'[d] = call[d] /\ held'[d] = held[d]
              /\ call'[c] = at /\ held'[c] = event /\ mode' = mode
BY DEF Ends, Waits, IInv, CallsInv

LEMMA DeliversInOrder ==
  ASSUME IInv, SeqOrder, CallOrder, NEW c \in Calls, queue[1] = c, call[c] \in Active,
         NEW i \in Nat, Before(i), Delivers(c, i), UNCHANGED wire
  PROVE  SeqOrder' /\ CallOrder'
<1>1. CASE wire[i].kind = "submit"
  <2>1. /\ Ends(c) /\ UNCHANGED pendingEvents
        /\ given' = Append(given, i) \/ UNCHANGED given
    BY <1>1 DEF Delivers
  <2>2. CallOrder' BY <2>1, CallMoves, HeadMoves DEF Active
  <2>3. CASE given' = Append(given, i) BY <1>1, <2>1, <2>2, <2>3, ReturnsLatest
  <2>4. CASE UNCHANGED given BY <2>1, <2>2, <2>4 DEF SeqOrder
  <2> QED BY <2>1, <2>2, <2>3, <2>4
<1>2. CASE wire[i].kind # "submit" /\ mode[c] = "event"
  <2>1. Ends(c) /\ given' = Append(given, i) /\ UNCHANGED pendingEvents
    BY <1>2 DEF Delivers
  <2>2. CallOrder' BY <2>1, CallMoves, HeadMoves DEF Active
  <2>3. pendingEvents = <<>> BY <1>2 DEF CallOrder
  <2> QED BY <2>1, <2>2, <2>3, ReturnsLatest
<1>3. CASE wire[i].kind # "submit" /\ mode[c] = "submit"
  <2>1. /\ Ends(c) \/ Waits(c, "polling", 0)
        /\ pendingEvents' = Append(pendingEvents, i) /\ UNCHANGED given
    BY <1>3 DEF Delivers, Park
  <2>2. /\ \A d \in Calls \ {c} : call'[d] = call[d] /\ held'[d] = held[d]
        /\ held'[c] = 0 /\ mode'[c] # "event"
    BY <1>3, <2>1, CallMoves
  <2>3. CallOrder' BY <2>2, HeadMoves
  <2> QED BY <1>3, <2>1, <2>3, ParksLatest
<1> QED BY <1>1, <1>2, <1>3 DEF Delivers

(* receiveSubmit() never finds a submit parked.                            *)
LEMMA WantedIsFirst ==
  ASSUME IInv, SeqOrder, NEW c \in Calls
  PROVE  /\ Wanted(c) > 0 => Wanted(c) = 1 /\ mode[c] = "event" /\ pendingEvents # <<>>
         /\ Wanted(c) = 0 /\ mode[c] = "event" => pendingEvents = <<>>
<1>1. CASE mode[c] = "event"
  BY <1>1 DEF Wanted
<1>2. CASE mode[c] # "event"
  <2>1. {k \in 1 .. Len(pendingEvents) : wire[pendingEvents[k]].kind = "submit"} = {}
    BY DEF SeqOrder
  <2>2. Wanted(c) = 0 BY <1>2, <2>1 DEF Wanted, SelectInSeq
  <2> QED BY <1>2, <2>2
<1> QED BY <1>1, <1>2

LEMMA ReceivingKeepsOrder ==
  ASSUME IInv, SeqOrder, CallOrder, NEW c \in Calls, Receiving(c)
  PROVE  SeqOrder' /\ CallOrder'
<1>0. wire' = wire
  BY DEF Receiving, Receive, Runnable, Start, TakesQueued, StartsPoll, Released, PollReturns,
         PollEnds, ReleaseFails, Interrupted, nativeVars
<1>1. ASSUME NEW m \in {"event", "submit"}, NEW t \in BOOLEAN, Receive(c, m, t)
      PROVE  SeqOrder' /\ CallOrder'
  <2>1. SeqOrder' BY <1>0, <1>1 DEF SeqOrder, Receive, eventVars
  <2>2. /\ call[c] = "idle" /\ call' = [call EXCEPT ![c] = "queued"] /\ mode' = [mode EXCEPT ![c] = m]
        /\ UNCHANGED <<held, given, pendingEvents>>
    BY <1>1 DEF Receive, eventVars
  <2>3. \A d \in Calls : call'[d] \in Active => call[d] \in Active /\ mode'[d] = mode[d]
    BY <2>2 DEF IInv, CallsInv, NativeInv, Active
  <2>4. CallOrder' BY <2>2, <2>3 DEF CallOrder, Before
  <2> QED BY <2>1, <2>4
<1>2. CASE Start(c) /\ TakesQueued(c)
  <2>1. /\ queue[1] = c /\ Wanted(c) > 0 /\ pendingEvents' = RemoveAt(pendingEvents, Wanted(c)) /\ Ends(c)
        /\ given' = Append(given, pendingEvents[Wanted(c)]) \/ UNCHANGED given
    BY <1>2 DEF Start, Runs, TakesQueued, IInv, CallsInv
  <2>2. Wanted(c) = 1 /\ pendingEvents # <<>> BY <2>1, WantedIsFirst
  <2>3. SeqOrder' BY <1>0, <2>1, <2>2, TakesFirst
  <2>4. CallOrder' BY <2>1, CallMoves, HeadMoves DEF Active
  <2> QED BY <2>3, <2>4
<1>3. CASE Start(c) /\ StartsPoll(c)
  <2>1. /\ queue[1] = c /\ Wanted(c) = 0 /\ UNCHANGED <<given, pendingEvents>>
        /\ Ends(c) \/ Waits(c, "polling", 0)
    BY <1>3 DEF Start, Runs, StartsPoll, eventVars, IInv, CallsInv
  <2>2. mode[c] = "event" => pendingEvents' = <<>> BY <2>1, WantedIsFirst
  <2>3. SeqOrder' BY <1>0, <2>1 DEF SeqOrder
  <2>4. CallOrder' BY <2>1, <2>2, CallMoves, HeadMoves DEF Active
  <2> QED BY <2>3, <2>4
<1>4. CASE PollReturns(c)
  <2>1. call[c] = "polling" /\ queue[1] = c
    BY <1>4 DEF PollReturns, IInv, CallsInv, QueueInv, Active
  <2>2. taken + 1 \in Nat /\ Before(taken + 1)
    BY EventNumbers DEF Before
  <2>3. CASE wire[taken + 1].kind = "cancel"
    <3>1. Waits(c, "releasing", taken + 1) /\ UNCHANGED <<given, pendingEvents>>
      BY <1>4, <2>3 DEF PollReturns, eventVars
    <3>2. mode[c] = "event" => pendingEvents = <<>> BY <2>1 DEF CallOrder, Active
    <3>3. SeqOrder' BY <1>0, <3>1 DEF SeqOrder
    <3>4. held'[c] = taken + 1 /\ mode' = mode
          /\ \A d \in Calls \ {c} : call'[d] = call[d] /\ held'[d] = held[d]
      BY <3>1, CallMoves
    <3>5. Before(held[c])'
      BY <2>2, <3>1, <3>4 DEF Before
    <3>6. CallOrder' BY <2>1, <3>1, <3>2, <3>4, <3>5, HeadMoves
    <3> QED BY <3>3, <3>6
  <2>4. CASE wire[taken + 1].kind # "cancel"
    <3>1. Delivers(c, taken + 1) BY <1>4, <2>4 DEF PollReturns
    <3> QED BY <1>0, <2>1, <2>2, <3>1, DeliversInOrder DEF Active
  <2> QED BY <2>3, <2>4
<1>5. CASE Released(c)
  <2>1. call[c] = "releasing" /\ queue[1] = c /\ held[c] # 0 /\ held[c] \in 0 .. taken /\ Delivers(c, held[c])
    BY <1>5 DEF Released, IInv, CallsInv, HeldInv, QueueInv, Active
  <2>2. held[c] \in Nat BY <2>1, EventNumbers
  <2>3. Before(held[c]) BY <2>1 DEF CallOrder
  <2> QED BY <1>0, <2>1, <2>2, <2>3, DeliversInOrder DEF Active
<1>6. CASE ReleaseFails(c) \/ PollEnds(c) \/ Interrupted(c)
  <2>1. queue[1] = c /\ Ends(c) /\ UNCHANGED <<given, pendingEvents>>
    BY <1>6 DEF ReleaseFails, PollEnds, Interrupted, IInv, CallsInv, QueueInv, Active, eventVars
  <2>2. SeqOrder' BY <1>0, <2>1 DEF SeqOrder
  <2>3. CallOrder' BY <2>1, CallMoves, HeadMoves DEF Active
  <2> QED BY <2>2, <2>3
<1> QED BY <1>1, <1>2, <1>3, <1>4, <1>5, <1>6 DEF Receiving, Runnable, Start
-----------------------------------------------------------------------------
(* The submits the application has: another event leaves them alone.       *)
LEMMA OpenedGrows ==
  ASSUME IInv, NEW i \in Nat, given' = Append(given, i), UNCHANGED wire
  PROVE  Opened' = IF wire[i].kind = "submit" THEN Opened \cup {i} ELSE Opened
<1>1. given \in Seq(Nat)
  BY EventNumbers
<1>2. ToSet(given') = ToSet(given) \cup {i}
  BY <1>1, AppendedSet
<1> QED BY <1>2 DEF Opened, Given

LEMMA FramesStay ==
  ASSUME FramesInv, Opened' = Opened, terminal' \subseteq Opened,
         UNCHANGED <<wire, operationFrames, answered>>, closed' \/ closed' = closed
  PROVE  FramesInv'
<1>1. \A o \in Ops : FrameOf(o)' = FrameOf(o)
  BY DEF FrameOf
<1>2. BoundHasSubmit'
  BY <1>1 DEF FramesInv, BoundHasSubmit, FrameOf
<1>3. UnansweredIsBound'
  BY DEF FramesInv, UnansweredIsBound, FrameOf, SameBinding
<1> QED BY <1>2, <1>3 DEF FramesInv

(* A submit that is returned is new, so it is unanswered; its frame can    *)
(* take the place of no other one.                                         *)
LEMMA DeliversFrame ==
  ASSUME IInv, FramesInv, NEW c \in Calls, NEW i \in 1 .. Len(wire), Before(i), Delivers(c, i),
         UNCHANGED <<wire, terminal, answered, closed>>
  PROVE  FramesInv'
<1>0. /\ i \in Nat /\ wire[i].op \in Ops /\ wire[i].frame \in Frames /\ wire[i].frame # None
      /\ operationFrames \in [Ops -> Frames \cup {None}]
  BY WireIsEvents, FrameAssumption DEF IInv, EventsInv, Event
<1>1. CASE wire[i].kind = "submit" /\ Bindable(i)
  <2>1. /\ operationFrames' = [operationFrames EXCEPT ![wire[i].op] = wire[i].frame]
        /\ given' = Append(given, i) /\ FrameOf(wire[i].op) \in {None, wire[i].frame}
    BY <1>1 DEF Delivers, Bindable
  <2>2. Opened' = Opened \cup {i}
    BY <1>0, <1>1, <2>1, OpenedGrows
  <2>3. i \notin Given
    <3>1. \A k \in 1 .. Len(given) : given[k] \in Nat /\ given[k] < i
      BY EventNumbers DEF Before
    <3> QED BY <1>0, <3>1, EventNumbers DEF Given, ToSet
  <2>4. answered[i] = 0
    <3>1. i \in Index \ terminal BY <2>3 DEF FramesInv, Opened, Index
    <3> QED BY <3>1 DEF IInv, RepliesInv
  <2>5. \A o \in Ops : FrameOf(o)' = IF o = wire[i].op THEN wire[i].frame ELSE FrameOf(o)
    BY <1>0, <2>1 DEF FrameOf
  <2>6. ASSUME NEW o \in Ops, FrameOf(o)' # None
        PROVE  \E j \in Opened' : wire[j].op = o /\ wire[j].frame = FrameOf(o)' /\ answered[j] = 0
    <3>1. CASE o = wire[i].op BY <2>2, <2>4, <2>5, <3>1
    <3>2. CASE o # wire[i].op
      BY <2>2, <2>5, <2>6, <3>2 DEF FramesInv, BoundHasSubmit
    <3> QED BY <3>1, <3>2
  <2>7. ASSUME ~closed, NEW j \in Opened', answered[j] = 0
        PROVE  \/ FrameOf(wire[j].op)' = wire[j].frame
               \/ \E k \in Opened' : SameBinding(j, k) /\ answered[k] > 0
    <3>1. CASE j = i BY <1>0, <2>5, <3>1
    <3>2. CASE j \in Opened
      <4>1. wire[j].op \in Ops /\ wire[j].frame # None
        <5>1. j \in 1 .. Len(wire)
          BY <3>2, EventNumbers DEF Opened, Index
        <5> QED BY <5>1, WireIsEvents, FrameAssumption DEF IInv, Event
      <4>2. CASE FrameOf(wire[j].op) = wire[j].frame
        BY <1>0, <2>1, <2>5, <4>1, <4>2
      <4>3. CASE \E k \in Opened : SameBinding(j, k) /\ answered[k] > 0
        BY <2>2, <4>3
      <4>4. ~(answered[j] > 0) BY <2>7
      <4> QED BY <2>7, <3>2, <4>2, <4>3, <4>4 DEF FramesInv, UnansweredIsBound
    <3> QED BY <2>2, <3>1, <3>2
  <2>8. UnansweredIsBound'
    <3>1. \A j \in Opened' : answered[j] = 0 \/ answered[j] > 0
      <4>1. Opened' \subseteq Index
        BY <2>2, EventNumbers DEF Opened, Index
      <4> QED BY <4>1 DEF IInv, RepliesInv
    <3> QED BY <2>7, <3>1 DEF UnansweredIsBound, SameBinding
  <2>9. BoundHasSubmit' BY <2>6 DEF BoundHasSubmit
  <2> QED BY <2>2, <2>8, <2>9 DEF FramesInv
<1>2. CASE ~(wire[i].kind = "submit" /\ Bindable(i))
  <2>1. /\ UNCHANGED operationFrames
        /\ UNCHANGED given \/ (wire[i].kind # "submit" /\ given' = Append(given, i))
    BY <1>2 DEF Delivers
  <2>2. Opened' = Opened
    BY <1>0, <2>1, OpenedGrows DEF Opened, Given
  <2> QED BY <2>1, <2>2, FramesStay DEF FramesInv
<1> QED BY <1>1, <1>2

LEMMA ReceivingKeepsFrames ==
  ASSUME IInv, SeqOrder, CallOrder, FramesInv, NEW c \in Calls, Receiving(c)
  PROVE  FramesInv'
<1>0. wire' = wire /\ UNCHANGED <<terminal, answered, closed>>
  BY DEF Receiving, Receive, Runnable, Start, TakesQueued, StartsPoll, Released, PollReturns,
         PollEnds, ReleaseFails, Interrupted, nativeVars, replyVars, eventVars
<1>1. CASE UNCHANGED <<given, operationFrames>>
  <2>1. Opened' = Opened BY <1>0, <1>1 DEF Opened, Given
  <2> QED BY <1>0, <1>1, <2>1, FramesStay DEF FramesInv
<1>2. CASE Start(c) /\ TakesQueued(c)
  <2>1. Wanted(c) = 1 /\ pendingEvents # <<>>
    BY <1>2, WantedIsFirst DEF TakesQueued
  <2>2. /\ given' = Append(given, pendingEvents[1]) \/ UNCHANGED given
        /\ UNCHANGED operationFrames
    BY <1>2, <2>1 DEF TakesQueued
  <2>3. 1 \in 1 .. Len(pendingEvents)
    BY <2>1, EventNumbers, FirstRemoved
  <2>4. pendingEvents[1] \in Nat /\ wire[pendingEvents[1]].kind # "submit"
    BY <2>3, EventNumbers DEF SeqOrder
  <2>5. Opened' = Opened
    BY <1>0, <2>2, <2>4, OpenedGrows DEF Opened, Given
  <2> QED BY <1>0, <2>2, <2>5, FramesStay DEF FramesInv
<1>3. CASE PollReturns(c) /\ Delivers(c, taken + 1)
  <2>1. taken + 1 \in 1 .. Len(wire) /\ Before(taken + 1)
    BY <1>3, EventNumbers DEF Before, PollReturns
  <2> QED BY <1>0, <1>3, <2>1, DeliversFrame
<1>4. CASE Released(c)
  <2>1. held[c] # 0 /\ held[c] \in 0 .. taken /\ Delivers(c, held[c])
    BY <1>4 DEF Released, IInv, CallsInv, HeldInv
  <2>2. held[c] \in 1 .. Len(wire) BY <2>1, EventNumbers
  <2>3. Before(held[c]) BY <2>1 DEF CallOrder
  <2> QED BY <1>0, <2>1, <2>2, <2>3, DeliversFrame
<1>5. \/ UNCHANGED <<given, operationFrames>>
      \/ Start(c) /\ TakesQueued(c)
      \/ PollReturns(c) /\ Delivers(c, taken + 1)
      \/ Released(c)
  BY DEF Receiving, Receive, Runnable, Start, StartsPoll, PollReturns,
         PollEnds, ReleaseFails, Interrupted, eventVars
<1> QED BY <1>1, <1>2, <1>3, <1>4, <1>5

(* A reply that was sent unbinds its operation, unless that has been bound *)
(* at another frame.                                                       *)
LEMMA ReplySentKeepsFrames ==
  ASSUME IInv, FramesInv, NEW i \in Index, ReplySent(i)
  PROVE  FramesInv'
<1>1. /\ replying[i] > 0 /\ answered' = [answered EXCEPT ![i] = @ + 1]
      /\ operationFrames' = ForgetsAnswered(i)
      /\ UNCHANGED <<terminal, wire, given, closed>>
  BY DEF ReplySent, nativeVars
<1>2. /\ answered \in [Index -> Nat] /\ operationFrames \in [Ops -> Frames \cup {None}]
      /\ wire[i].op \in Ops
      /\ Opened' = Opened /\ Opened \subseteq Index
  <2>3. Opened \subseteq Index
    BY EventNumbers DEF Opened
  <2>4. wire[i].op \in Ops
    BY WireIsEvents DEF IInv, Index, Event
  <2> QED BY <1>1, <2>3, <2>4 DEF IInv, RepliesInv, EventsInv, Opened, Given
<1>3. i \in Opened
  BY <1>1 DEF IInv, RepliesInv, FramesInv
<1>4. /\ answered'[i] > 0
      /\ \A j \in Index \ {i} : answered'[j] = answered[j]
  BY <1>1, <1>2
<1>5. \A o \in Ops : FrameOf(o)' = IF o = wire[i].op /\ FrameOf(o) = wire[i].frame THEN None ELSE FrameOf(o)
  BY <1>1, <1>2 DEF FrameOf, ForgetsAnswered
<1>6. ASSUME NEW o \in Ops, FrameOf(o)' # None
      PROVE  \E j \in Opened : wire[j].op = o /\ wire[j].frame = FrameOf(o)' /\ answered'[j] = 0
  <2>1. FrameOf(o)' = FrameOf(o) /\ ~(o = wire[i].op /\ FrameOf(o) = wire[i].frame)
    BY <1>5, <1>6
  <2>2. PICK j \in Opened : wire[j].op = o /\ wire[j].frame = FrameOf(o) /\ answered[j] = 0
    BY <1>6, <2>1 DEF FramesInv, BoundHasSubmit
  <2> QED BY <1>2, <1>4, <2>1, <2>2
<1>7. ASSUME ~closed, NEW j \in Opened, ~(answered'[j] > 0)
      PROVE  \/ FrameOf(wire[j].op)' = wire[j].frame
             \/ \E k \in Opened : SameBinding(j, k) /\ answered'[k] > 0
  <2>1. j # i /\ j \in Index /\ answered'[j] = answered[j]
    BY <1>2, <1>4, <1>7
  <2>2. wire[j].op \in Ops
    BY <2>1, WireIsEvents DEF IInv, Index, Event
  <2>3. CASE FrameOf(wire[j].op) = wire[j].frame
    <3>1. CASE SameBinding(j, i) BY <1>3, <1>4, <3>1
    <3>2. CASE ~SameBinding(j, i) BY <1>1, <1>5, <2>2, <2>3, <3>2 DEF SameBinding
    <3> QED BY <3>1, <3>2
  <2>4. CASE \E k \in Opened : SameBinding(j, k) /\ answered[k] > 0
    BY <1>2, <1>4, <2>4
  <2> QED BY <1>7, <2>1, <2>3, <2>4 DEF FramesInv, UnansweredIsBound
<1>8. BoundHasSubmit'
  BY <1>1, <1>2, <1>6 DEF BoundHasSubmit
<1>9. UnansweredIsBound'
  BY <1>1, <1>2, <1>7 DEF UnansweredIsBound, SameBinding
<1> QED BY <1>1, <1>2, <1>8, <1>9 DEF FramesInv

LEMMA InitOInv == Init => OInv
<1> SUFFICES ASSUME Init PROVE OInv
  OBVIOUS
<1>1. given = <<>> /\ pendingEvents = <<>> /\ 1 .. Len(given) = {} /\ 1 .. Len(pendingEvents) = {}
  BY DEF Init
<1>2. SeqOrder BY <1>1 DEF SeqOrder
<1>3. CallOrder BY <1>1 DEF Init, CallOrder, Active
<1>4. Opened = {} BY <1>1 DEF Opened, Given, ToSet
<1>5. FramesInv BY <1>4 DEF Init, FramesInv, BoundHasSubmit, UnansweredIsBound, FrameOf
<1> QED BY <1>2, <1>3, <1>5, InitIInv DEF OInv

LEMMA NextKeepsOInv == OInv /\ [Next]_vars => OInv'
<1> SUFFICES ASSUME OInv, [Next]_vars PROVE OInv'
  OBVIOUS
<1>0. IInv /\ SeqOrder /\ CallOrder /\ FramesInv /\ IInv'
  BY NextKeepsIInv DEF OInv
<1>1. ASSUME NEW c \in Calls, Receiving(c) PROVE OInv'
  BY <1>0, <1>1, ReceivingKeepsOrder, ReceivingKeepsFrames DEF OInv
<1>2. ASSUME UNCHANGED <<wire, callVars, given, pendingEvents>>
      PROVE  SeqOrder' /\ CallOrder' /\ Opened' = Opened
  BY <1>0, <1>2 DEF SeqOrder, CallOrder, Before, callVars, Opened, Given
<1>3. CASE OrphanReturns \/ UNCHANGED vars
  <2>1. UNCHANGED <<wire, callVars, given, pendingEvents, terminal, operationFrames, answered, closed>>
    BY <1>3 DEF OrphanReturns, vars, nativeVars, eventVars, replyVars
  <2> QED BY <1>0, <1>2, <2>1, FramesStay DEF OInv, FramesInv
<1>4. ASSUME NEW i \in Index, Reply(i) PROVE OInv'
  <2>1. /\ UNCHANGED <<wire, callVars, given, pendingEvents, operationFrames, answered, closed>>
        /\ terminal' = terminal \cup {i} /\ i \in Opened
    BY <1>4 DEF Reply, Flagged, nativeVars, eventVars
  <2> QED BY <1>0, <1>2, <2>1, FramesStay DEF OInv, FramesInv
<1>5. ASSUME NEW i \in Index, ReplySent(i) PROVE OInv'
  <2>1. UNCHANGED <<wire, callVars, given, pendingEvents>>
    BY <1>5 DEF ReplySent, nativeVars
  <2> QED BY <1>0, <1>2, <1>5, <2>1, ReplySentKeepsFrames DEF OInv
<1>6. ASSUME NEW i \in Index, ReplyFails(i) PROVE OInv'
  <2>1. /\ UNCHANGED <<wire, callVars, given, pendingEvents, operationFrames, answered, closed>>
        /\ terminal' = terminal \ {i}
    BY <1>6 DEF ReplyFails, nativeVars, eventVars
  <2> QED BY <1>0, <1>2, <2>1, FramesStay DEF OInv, FramesInv
<1>7. CASE Close
  <2>1. /\ closed' = TRUE /\ pendingEvents' = <<>> /\ operationFrames' = [o \in Ops |-> None]
        /\ UNCHANGED <<wire, callVars, given, terminal, answered>>
    BY <1>7 DEF Close, nativeVars, replyVars
  <2>2. 1 .. Len(pendingEvents') = {} BY <2>1
  <2>3. SeqOrder' BY <1>0, <2>1, <2>2 DEF SeqOrder
  <2>4. CallOrder' BY <1>0, <2>1, <2>2 DEF CallOrder, Before, callVars
  <2>5. Opened' = Opened BY <2>1 DEF Opened, Given
  <2>6. FramesInv' BY <1>0, <2>1, <2>5 DEF FramesInv, BoundHasSubmit, UnansweredIsBound, FrameOf
  <2> QED BY <1>0, <2>3, <2>4, <2>6 DEF OInv
<1>8. CASE Next
  BY <1>8, <1>1, <1>3, <1>4, <1>5, <1>6, <1>7 DEF Next, Receiving
<1> QED BY <1>3, <1>8

LEMMA OrderInvariance == Spec => []OInv
BY InitOInv, NextKeepsOInv, PTL DEF Spec

(* nextEvent() and receiveSubmit() never reorder what they share, for any  *)
(* number of calls that interleave, abort and time out, and any traffic    *)
(* (#pendingEvents, serialised by #serializeReceive).                      *)
THEOREM ReceivedInOrderTheorem == Spec => []ReceivedInOrder
<1>1. ASSUME OInv PROVE ReceivedInOrder
  <2> DEFINE n == Len(given)
             m == Len(pendingEvents)
             s == given \o pendingEvents
  <2>1. /\ n \in Nat /\ m \in Nat /\ DOMAIN given = 1 .. n /\ DOMAIN s = 1 .. n + m
        /\ \A k \in 1 .. n : s[k] = given[k]
        /\ \A k \in 1 .. n + m : k \notin 1 .. n => s[k] = pendingEvents[k - n] /\ k - n \in 1 .. m
    <3>1. given \in Seq(Nat) /\ pendingEvents \in Seq(Nat)
      BY <1>1, EventNumbers DEF OInv
    <3> QED BY ONLY <3>1
  <2> HIDE DEF s
  <2>2. InOrder(given, LAMBDA e : e.kind = "submit")
    BY <1>1, <2>1 DEF OInv, SeqOrder, InOrder
  <2>3. ASSUME NEW k \in 1 .. n + m, NEW l \in 1 .. n + m, k < l,
               wire[s[k]].kind # "submit", wire[s[l]].kind # "submit"
        PROVE  s[k] < s[l]
    <3>1. CASE l \in 1 .. n
      <4>1. k \in 1 .. n BY <2>1, <2>3, <3>1
      <4> QED BY <1>1, <2>1, <2>3, <3>1, <4>1 DEF OInv, SeqOrder
    <3>2. CASE l \notin 1 .. n /\ k \in 1 .. n
      BY <1>1, <2>1, <2>3, <3>2 DEF OInv, SeqOrder
    <3>3. CASE l \notin 1 .. n /\ k \notin 1 .. n
      <4>1. k - n \in 1 .. m /\ l - n \in 1 .. m /\ k - n < l - n BY <2>1, <2>3, <3>3
      <4> QED BY <1>1, <2>1, <3>3, <4>1 DEF OInv, SeqOrder
    <3> QED BY <3>1, <3>2, <3>3
  <2>4. InOrder(given \o pendingEvents, LAMBDA e : e.kind # "submit")
    BY <2>1, <2>3 DEF InOrder, s
  <2> QED BY <2>2, <2>4 DEF ReceivedInOrder
<1> QED BY <1>1, OrderInvariance, PTL

(* A frame is bound to an operation from its submit until its reply, for   *)
(* any interleaving of submits of one operation id, at the same frame or   *)
(* at others, with replies in flight (#operationFrames).                   *)
THEOREM BoundIsUnansweredTheorem == Spec => []BoundIsUnanswered
<1>1. OInv => BoundIsUnanswered
  BY DEF OInv, FramesInv, BoundIsUnanswered, IInv, NativeInv, CallsInv, EventsInv, RepliesInv, TypeOK
<1> QED BY <1>1, OrderInvariance, PTL
=============================================================================
