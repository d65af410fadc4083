------------------------- MODULE RuntimeObjectsProofs -------------------------
(***************************************************************************)
(* For any objects, operations, versions and runs: what reaches the peer   *)
(* is a behaviour of ObjectHistory, the table of an open session is what   *)
(* the peer has been told, and a releasing run goes on only from an object *)
(* its operation no longer holds.                                          *)
(***************************************************************************)
EXTENDS RuntimeObjects, FiniteSetTheorems, TLAPS

(* What Valid asks of the tracked object, asked of any knowledge of it.    *)
Permitted(object, a) ==
  CASE a.type = "declare" -> ~object.live
    [] a.type = "reference" ->
         object.live /\ a.operation \notin object.releasedBy /\ a.version >= object.version
    [] a.type = "change" -> object.live /\ a.delta > object.delta
    [] a.type = "release" -> object.live /\ a.operation \notin object.releasedBy

Queued(r) == \E i \in 1 .. Len(queue) : queue[i].by = r

(* A run that releases has one announcement in the queue: the release of   *)
(* the first object on its list.                                           *)
RunsInv ==
  /\ \A r \in Runs : run[r] = "releasing" <=> Queued(r)
  /\ \A i, j \in 1 .. Len(queue) : queue[i].by \in Runs /\ queue[i].by = queue[j].by => i = j
  /\ \A i \in 1 .. Len(queue) : queue[i].by \in Runs =>
       /\ todo[queue[i].by] # <<>>
       /\ queue[i].what = [type |-> "release", object |-> Head(todo[queue[i].by]),
                           operation |-> subject[queue[i].by]]
  /\ \A r \in Runs : run[r] = "waiting" => ahead[r] \in 1 .. Len(queue)

(* What the native library is about to send is legal for the peer, also    *)
(* when the session has been closed since it was validated.                *)
SendingInv ==
  /\ sending # "idle" => queue # <<>>
  /\ sending = "native" => Permitted(peer[Entry.what.object], Entry.what)

(* The table of an open session lags behind the peer by what has been sent *)
(* and is not committed yet.                                               *)
TableInv ==
  ~closed =>
    /\ sending \in {"idle", "native"} => tracked = peer
    /\ sending = "sent" =>
         /\ tracked[Entry.what.object].live \/ Entry.what.type = "declare"
         /\ peer = [tracked EXCEPT ![Entry.what.object] = After(@, Entry.what)]

IInv == TypeOK /\ RunsInv /\ SendingInv /\ TableInv
-----------------------------------------------------------------------------
Entries == [what : Announcement, by : Runs \cup {App}]

(* The kinds of announcement, with their fields.                           *)
LEMMA AnnouncementKinds ==
  ASSUME NEW a \in Announcement
  PROVE  /\ a.object \in Objects
         /\ \/ a.type = "declare" /\ a.drop \in BOOLEAN
            \/ a.type = "reference" /\ a.operation \in Scope /\ a.version \in Versions
            \/ a.type = "change" /\ a.delta \in Deltas
            \/ a.type = "release" /\ a.operation \in Scope
BY DEF Announcement

(* An announcement turns knowledge of an object into knowledge of it.      *)
LEMMA AfterIsKnown ==
  ASSUME NEW object \in History!Known, NEW a \in Announcement
  PROVE  After(object, a) \in History!Known
<1>1. \A drop \in BOOLEAN : History!Released(drop) \in History!Known
  BY DEF History!Released, History!Known
<1>2. CASE a.type = "declare" /\ a.drop \in BOOLEAN
  BY <1>2 DEF After, History!Released, History!Known
<1>3. CASE a.type = "reference" /\ a.operation \in Scope /\ a.version \in Versions
  BY <1>3 DEF After, History!Known, Scope
<1>4. CASE a.type = "change" /\ a.delta \in Deltas
  BY <1>4 DEF After, History!Known
<1>5. CASE a.type = "release" /\ a.operation \in Scope
  <2>1. object.drop \in BOOLEAN BY DEF History!Known
  <2>2. CASE a.operation = NoOperation \/ object.drop
    BY <1>1, <1>5, <2>1, <2>2 DEF After
  <2>3. CASE ~(a.operation = NoOperation \/ object.drop)
    BY <1>5, <2>3 DEF After, History!Known, Scope
  <2> QED BY <2>2, <2>3
<1> QED BY <1>2, <1>3, <1>4, <1>5, AnnouncementKinds

LEMMA ValidIsPermitted ==
  ASSUME NEW a \in Announcement, Valid(a)
  PROVE  Permitted(tracked[a.object], a)
BY AnnouncementKinds DEF Valid, Permitted

(* A permitted announcement is a step of ObjectHistory.                    *)
LEMMA PermittedIsLegal ==
  ASSUME peer \in [Objects -> History!Known], NEW a \in Announcement, Permitted(peer[a.object], a),
         peer' = [peer EXCEPT ![a.object] = After(@, a)]
  PROVE  History!Next
<1> DEFINE x == a.object
<1>0. x \in Objects BY AnnouncementKinds
<1>1. CASE a.type = "declare" /\ a.drop \in BOOLEAN
  <2>1. History!Declare(x)
    BY <1>1 DEF History!Declare, History!Tell, Permitted, After
  <2> QED BY <2>1, <1>0 DEF History!Next
<1>2. CASE a.type = "reference" /\ a.operation \in Scope /\ a.version \in Versions
  <2>1. History!Reference(x, a.operation)
    BY <1>2 DEF History!Reference, History!Tell, Permitted, After
  <2> QED BY <2>1, <1>0, <1>2 DEF History!Next, Scope
<1>3. CASE a.type = "change" /\ a.delta \in Deltas
  <2>1. History!Change(x)
    BY <1>3 DEF History!Change, History!Tell, Permitted, After
  <2> QED BY <2>1, <1>0 DEF History!Next
<1>4. CASE a.type = "release" /\ a.operation \in Scope
  <2>1. History!Release(x, a.operation)
    BY <1>4 DEF History!Release, History!Tell, Permitted, After
  <2> QED BY <2>1, <1>0, <1>4 DEF History!Next, Scope
<1> QED BY <1>1, <1>2, <1>3, <1>4, AnnouncementKinds

(* A released object is not held any more by the operation that released   *)
(* it.                                                                     *)
LEMMA ReleasedIsNotOwned ==
  ASSUME NEW object \in History!Known, NEW a \in Announcement, a.type = "release",
         After(object, a).live, After(object, a).drop
  PROVE  a.operation \notin After(object, a).operations
BY DEF After, History!Released, History!Known
-----------------------------------------------------------------------------
(* The queue as a sequence of entries.                                     *)
LEMMA QueueFacts ==
  ASSUME TypeOK
  PROVE  /\ queue \in Seq(Entries) /\ Len(queue) \in Nat
         /\ \A i \in 1 .. Len(queue) : queue[i].what \in Announcement /\ queue[i].by \in Runs \cup {App}
         /\ queue # <<>> => /\ Len(queue) >= 1 /\ Entry = queue[1]
                            /\ Tail(queue) \in Seq(Entries) /\ Len(Tail(queue)) = Len(queue) - 1
                            /\ \A i \in 1 .. Len(queue) - 1 : Tail(queue)[i] = queue[i + 1]
<1>1. queue \in Seq(Entries) BY DEF TypeOK, Entries
<1>2. \A i \in 1 .. Len(queue) : queue[i] \in Entries BY <1>1
<1> HIDE DEF Entries
<1>3. queue # <<>> => /\ Len(queue) >= 1 /\ Entry = queue[1]
                      /\ Tail(queue) \in Seq(Entries) /\ Len(Tail(queue)) = Len(queue) - 1
                      /\ \A i \in 1 .. Len(queue) - 1 : Tail(queue)[i] = queue[i + 1]
  BY <1>1 DEF Entry
<1> QED BY <1>1, <1>2, <1>3 DEF Entries

LEMMA AppendFacts ==
  ASSUME NEW S, NEW s \in Seq(S), NEW x \in S
  PROVE  /\ Append(s, x) \in Seq(S) /\ Len(Append(s, x)) = Len(s) + 1
         /\ \A i \in 1 .. Len(s) : Append(s, x)[i] = s[i]
         /\ Append(s, x)[Len(s) + 1] = x
         /\ s # <<>> => Append(s, x) # <<>> /\ Head(Append(s, x)) = Head(s)
OBVIOUS

(* When the head of the queue settles the runs stay in step with the queue. *)
LEMMA SettlesKeeps ==
  ASSUME TypeOK, RunsInv, queue # <<>>, NEW ok \in BOOLEAN, Settles(ok)
  PROVE  /\ queue' \in Seq(Entries) /\ sending' = "idle" /\ UNCHANGED <<closed, subject>>
         /\ run' \in [Runs -> {"idle", "waiting", "listing", "next", "releasing", "done", "failed"}]
         /\ ahead' \in [Runs -> Nat] /\ todo' \in [Runs -> Seq(Objects)]
         /\ RunsInv'
<1> DEFINE n == Len(queue)
           e == queue[1]
<1>1. /\ n \in Nat /\ n >= 1 /\ Entry = e
      /\ queue' \in Seq(Entries) /\ Len(queue') = n - 1
      /\ \A i \in 1 .. n - 1 : queue'[i] = queue[i + 1]
      /\ sending' = "idle" /\ UNCHANGED <<closed, subject>>
  BY QueueFacts DEF Settles
<1>2. /\ ahead' = [r \in Runs |-> IF run[r] = "waiting" THEN ahead[r] - 1 ELSE ahead[r]]
      /\ run' = [r \in Runs |-> IF r = e.by THEN (IF ok THEN "next" ELSE "failed")
                                ELSE IF run[r] = "waiting" /\ ahead[r] = 1 THEN "listing" ELSE run[r]]
      /\ todo' = [r \in Runs |-> IF r = e.by /\ ok THEN Tail(todo[r]) ELSE todo[r]]
  BY <1>1 DEF Settles, RunsContinue
<1>3. \A r \in Runs : run[r] = "waiting" => ahead[r] \in 1 .. n
  BY DEF RunsInv
<1>4. run' \in [Runs -> {"idle", "waiting", "listing", "next", "releasing", "done", "failed"}]
  BY <1>2 DEF TypeOK
<1>5. ahead' \in [Runs -> Nat]
  BY <1>2, <1>3, <1>1 DEF TypeOK
<1>6. todo' \in [Runs -> Seq(Objects)]
  <2>1. ASSUME NEW r \in Runs, r = e.by PROVE Tail(todo[r]) \in Seq(Objects)
    <3>0. 1 \in 1 .. n /\ queue[1].by \in Runs BY <2>1, <1>1
    <3>1. todo[r] # <<>> BY <2>1, <3>0 DEF RunsInv
    <3>2. todo[r] \in Seq(Objects) BY DEF TypeOK
    <3> QED BY <3>1, <3>2
  <2> QED BY <2>1, <1>2 DEF TypeOK
<1>7. \A i \in 1 .. n - 1 : i + 1 \in 1 .. n
  BY <1>1
<1>8. \A i \in 1 .. n - 1 : queue'[i].by \in Runs => queue'[i].by # e.by
  <2>1. \A i \in 1 .. n - 1 : queue[i + 1].by \in Runs /\ queue[i + 1].by = queue[1].by => i + 1 = 1
    BY <1>7, <1>1 DEF RunsInv
  <2>2. \A i \in 1 .. n - 1 : i + 1 # 1 BY <1>1
  <2> QED BY <2>1, <2>2, <1>1
<1>9. ASSUME NEW r \in Runs PROVE run'[r] = "releasing" <=> Queued(r)'
  <2>1. CASE r = e.by
    <3>1. run'[r] # "releasing" BY <2>1, <1>2
    <3>2. ~Queued(r)' BY <2>1, <1>8, <1>1 DEF Queued
    <3> QED BY <3>1, <3>2
  <2>2. CASE r # e.by
    <3>1. run'[r] = "releasing" <=> run[r] = "releasing" BY <2>2, <1>2
    <3>2. ASSUME Queued(r) PROVE Queued(r)'
      <4>1. PICK i \in 1 .. n : queue[i].by = r BY <3>2 DEF Queued
      <4>2. i - 1 \in 1 .. n - 1 /\ (i - 1) + 1 = i BY <4>1, <2>2, <1>1
      <4>3. queue'[i - 1] = queue[i] BY <4>2, <1>1
      <4> QED BY <4>1, <4>2, <4>3, <1>1 DEF Queued
    <3>3. ASSUME Queued(r)' PROVE Queued(r)
      <4>1. PICK i \in 1 .. n - 1 : queue'[i].by = r BY <3>3, <1>1 DEF Queued
      <4> QED BY <4>1, <1>1, <1>7 DEF Queued
    <3> QED BY <3>1, <3>2, <3>3 DEF RunsInv
  <2> QED BY <2>1, <2>2
<1>10. ASSUME NEW i \in 1 .. n - 1, NEW j \in 1 .. n - 1,
              queue'[i].by \in Runs, queue'[i].by = queue'[j].by
       PROVE  i = j
  <2>1. i + 1 = j + 1 BY <1>10, <1>1, <1>7 DEF RunsInv
  <2> QED BY <2>1
<1>11. ASSUME NEW i \in 1 .. n - 1, queue'[i].by \in Runs
       PROVE  /\ todo'[queue'[i].by] # <<>>
              /\ queue'[i].what = [type |-> "release", object |-> Head(todo'[queue'[i].by]),
                                   operation |-> subject'[queue'[i].by]]
  <2>1. todo'[queue'[i].by] = todo[queue[i + 1].by] BY <1>11, <1>8, <1>1, <1>2
  <2> QED BY <2>1, <1>1, <1>7, <1>11 DEF RunsInv
<1>12. ASSUME NEW r \in Runs, run'[r] = "waiting" PROVE ahead'[r] \in 1 .. n - 1
  <2>1. run[r] = "waiting" /\ ahead[r] # 1 BY <1>12, <1>2
  <2> QED BY <2>1, <1>1, <1>2, <1>3
<1>13. RunsInv'
  BY <1>1, <1>9, <1>10, <1>11, <1>12 DEF RunsInv
<1> QED BY <1>1, <1>4, <1>5, <1>6, <1>13

(* An entry at the end of the queue: from the application, or the release  *)
(* of a run that has none there.                                           *)
LEMMA AppendKeeps ==
  ASSUME TypeOK, RunsInv, NEW e \in Entries, queue' = Append(queue, e),
         UNCHANGED <<subject, ahead, todo>>,
         \/ e.by = App /\ UNCHANGED run
         \/ /\ e.by \in Runs /\ run[e.by] = "next"
            /\ run' = [run EXCEPT ![e.by] = "releasing"]
            /\ todo[e.by] # <<>>
            /\ e.what = [type |-> "release", object |-> Head(todo[e.by]), operation |-> subject[e.by]]
  PROVE  /\ queue' \in Seq(Entries) /\ queue' # <<>> /\ (queue # <<>> => Entry' = Entry)
         /\ run' \in [Runs -> {"idle", "waiting", "listing", "next", "releasing", "done", "failed"}]
         /\ RunsInv'
<1> DEFINE n == Len(queue)
<1>1. queue \in Seq(Entries) /\ n \in Nat
  BY QueueFacts
<1>2. /\ queue' \in Seq(Entries) /\ Len(queue') = n + 1
      /\ \A i \in 1 .. n : queue'[i] = queue[i]
      /\ queue'[n + 1] = e
      /\ queue # <<>> => queue' # <<>> /\ Head(queue') = Head(queue)
  <2> HIDE DEF Entries
  <2>1. e \in Entries /\ queue' = Append(queue, e) OBVIOUS
  <2> QED BY ONLY <2>1, <1>1, AppendFacts
<1>3. run' \in [Runs -> {"idle", "waiting", "listing", "next", "releasing", "done", "failed"}]
  BY DEF TypeOK
<1>4. \A i \in 1 .. n + 1 : i \in 1 .. n \/ i = n + 1
  BY <1>1
<1>5. n + 1 \in 1 .. n + 1 /\ \A i \in 1 .. n : i \in 1 .. n + 1
  BY <1>1
<1>6. \A r \in Runs : Queued(r)' <=> Queued(r) \/ r = e.by
  BY <1>2, <1>4, <1>5 DEF Queued
<1>7. \A r \in Runs : run'[r] = "releasing" <=> Queued(r)'
  BY <1>6, RunAssumption DEF RunsInv, TypeOK
<1>8. e.by \in Runs => \A i \in 1 .. n : queue[i].by # e.by
  <2>1. e.by \in Runs => ~Queued(e.by) BY RunAssumption DEF RunsInv
  <2> QED BY <2>1 DEF Queued
<1>9. \A i, j \in 1 .. n + 1 : queue'[i].by \in Runs /\ queue'[i].by = queue'[j].by => i = j
  BY <1>2, <1>4, <1>8 DEF RunsInv
<1>10. \A i \in 1 .. n + 1 : queue'[i].by \in Runs =>
         /\ todo'[queue'[i].by] # <<>>
         /\ queue'[i].what = [type |-> "release", object |-> Head(todo'[queue'[i].by]),
                              operation |-> subject'[queue'[i].by]]
  BY <1>2, <1>4, RunAssumption DEF RunsInv
<1>11. \A r \in Runs : run'[r] = "waiting" => ahead'[r] \in 1 .. n + 1
  BY <1>1, RunAssumption DEF RunsInv, TypeOK
<1>12. RunsInv'
  BY <1>2, <1>7, <1>9, <1>10, <1>11 DEF RunsInv
<1>13. queue' # <<>> BY <1>1, <1>2
<1> QED BY <1>2, <1>3, <1>12, <1>13 DEF Entry
-----------------------------------------------------------------------------
LEMMA InitIInv ==
  Init => IInv
<1> SUFFICES ASSUME Init PROVE IInv OBVIOUS
<1>1. History!Released(FALSE) \in History!Known
  BY DEF History!Released, History!Known
<1>2. queue = <<>> /\ Len(queue) = 0 /\ 1 .. Len(queue) = {}
  BY DEF Init
<1>3. TypeOK
  <2>1. tracked \in [Objects -> History!Known] /\ peer \in [Objects -> History!Known]
    BY <1>1 DEF Init
  <2>2. queue \in Seq([what : Announcement, by : Runs \cup {App}])
    <3> DEFINE S == [what : Announcement, by : Runs \cup {App}]
    <3> HIDE DEF S
    <3>1. queue \in Seq(S) BY DEF Init
    <3> QED BY <3>1 DEF S
  <2>3. /\ run \in [Runs -> {"idle", "waiting", "listing", "next", "releasing", "done", "failed"}]
        /\ ahead \in [Runs -> Nat] /\ todo \in [Runs -> Seq(Objects)]
    BY DEF Init
  <2> QED BY <2>1, <2>2, <2>3 DEF Init, TypeOK
<1>4. RunsInv
  BY <1>2 DEF Init, RunsInv, Queued
<1> QED BY <1>3, <1>4 DEF Init, IInv, SendingInv, TableInv

(* The entry whose turn it is, and what is known of its object.            *)
LEMMA EntryFacts ==
  ASSUME TypeOK, queue # <<>>
  PROVE  /\ Entry.what \in Announcement /\ Entry.by \in Runs \cup {App}
         /\ Entry.what.object \in Objects
         /\ peer[Entry.what.object] \in History!Known
         /\ tracked[Entry.what.object] \in History!Known
<1>1. Len(queue) >= 1 /\ Len(queue) \in Nat /\ Entry = queue[1]
  BY QueueFacts
<1>2. 1 \in 1 .. Len(queue)
  BY <1>1
<1>3. Entry.what \in Announcement /\ Entry.by \in Runs \cup {App}
  BY <1>1, <1>2, QueueFacts
<1>4. Entry.what.object \in Objects
  BY <1>3, AnnouncementKinds
<1> QED BY <1>3, <1>4 DEF TypeOK

(* Every step keeps the inductive invariant.                               *)
LEMMA EnqueueKeeps ==
  ASSUME IInv, NEW a \in Announced, Enqueue(a)
  PROVE  IInv'
<1> DEFINE e == [what |-> a, by |-> App]
<1>1. e \in Entries /\ e.by = App
  BY AnnouncedAssumption DEF Entries
<1>2. queue' = Append(queue, e) /\ UNCHANGED <<tracked, peer, sending, closed, run, subject, ahead, todo>>
  BY DEF Enqueue, runVars
<1> HIDE DEF e
<1>3. TypeOK /\ RunsInv /\ SendingInv /\ TableInv
  BY DEF IInv
<1>4. /\ queue' \in Seq(Entries) /\ queue' # <<>> /\ (queue # <<>> => Entry' = Entry)
      /\ RunsInv'
  BY <1>1, <1>2, <1>3, AppendKeeps
<1>5. TypeOK'
  BY <1>2, <1>3, <1>4 DEF TypeOK, Entries
<1>6. SendingInv' /\ TableInv'
  BY <1>2, <1>3, <1>4 DEF SendingInv, TableInv, TypeOK
<1> QED BY <1>4, <1>5, <1>6 DEF IInv

(* A settled head leaves the types and the runs right, and nothing at the  *)
(* native library.                                                         *)
LEMMA SettledIsRight ==
  ASSUME TypeOK, RunsInv, queue # <<>>, NEW ok \in BOOLEAN, Settles(ok),
         tracked' \in [Objects -> History!Known], peer' \in [Objects -> History!Known],
         ~closed => tracked' = peer'
  PROVE  IInv'
<1>1. /\ queue' \in Seq(Entries) /\ sending' = "idle" /\ UNCHANGED <<closed, subject>>
      /\ run' \in [Runs -> {"idle", "waiting", "listing", "next", "releasing", "done", "failed"}]
      /\ ahead' \in [Runs -> Nat] /\ todo' \in [Runs -> Seq(Objects)]
      /\ RunsInv'
  BY SettlesKeeps
<1>2. TypeOK'
  BY <1>1 DEF TypeOK, Entries
<1>3. SendingInv' /\ TableInv'
  BY <1>1 DEF SendingInv, TableInv
<1> QED BY <1>1, <1>2, <1>3 DEF IInv

LEMMA ValidateKeeps ==
  ASSUME IInv, Validate
  PROVE  IInv'
<1>1. TypeOK /\ RunsInv /\ SendingInv /\ TableInv
  BY DEF IInv
<1>2. queue # <<>> /\ sending = "idle" /\ UNCHANGED <<tracked, peer>>
  BY DEF Validate
<1>3. CASE Valid(Entry.what) /\ ~closed
  <2>1. sending' = "native" /\ UNCHANGED <<queue, closed, run, subject, ahead, todo>>
    BY <1>3 DEF Validate, runVars
  <2>2. tracked = peer
    BY <1>1, <1>2, <1>3 DEF TableInv
  <2>3. Permitted(peer[Entry.what.object], Entry.what)
    BY <1>1, <1>2, <1>3, <2>2, EntryFacts, ValidIsPermitted
  <2>4. TypeOK'
    BY <1>1, <1>2, <2>1 DEF TypeOK
  <2>5. RunsInv'
    BY <1>1, <2>1 DEF RunsInv, Queued
  <2>6. SendingInv'
    BY <1>2, <2>1, <2>3 DEF SendingInv, Entry, Permitted
  <2>7. TableInv'
    BY <1>2, <2>1, <2>2 DEF TableInv
  <2> QED BY <2>4, <2>5, <2>6, <2>7 DEF IInv
<1>4. CASE ~(Valid(Entry.what) /\ ~closed)
  <2>1. Settles(FALSE)
    BY <1>4 DEF Validate
  <2>2. /\ tracked' \in [Objects -> History!Known] /\ peer' \in [Objects -> History!Known]
        /\ ~closed => tracked' = peer'
    BY <1>1, <1>2 DEF TypeOK, TableInv
  <2> QED BY <1>1, <1>2, <2>1, <2>2, SettledIsRight
<1> QED BY <1>3, <1>4

LEMMA NativeSendsKeeps ==
  ASSUME IInv, NativeSends
  PROVE  IInv'
<1>1. TypeOK /\ RunsInv /\ SendingInv /\ TableInv
  BY DEF IInv
<1>2. /\ sending = "native" /\ sending' = "sent"
      /\ peer' = [peer EXCEPT ![Entry.what.object] = After(@, Entry.what)]
      /\ UNCHANGED <<tracked, queue, closed, run, subject, ahead, todo>>
  BY DEF NativeSends, runVars
<1>3. queue # <<>> /\ Permitted(peer[Entry.what.object], Entry.what)
  BY <1>1, <1>2 DEF SendingInv
<1>4. /\ Entry.what \in Announcement /\ Entry.what.object \in Objects
      /\ peer[Entry.what.object] \in History!Known
  BY <1>1, <1>3, EntryFacts
<1>5. After(peer[Entry.what.object], Entry.what) \in History!Known
  BY <1>4, AfterIsKnown
<1>6. peer' \in [Objects -> History!Known]
  BY <1>1, <1>2, <1>5 DEF TypeOK
<1>7. TypeOK'
  BY <1>1, <1>2, <1>6 DEF TypeOK
<1>8. RunsInv'
  BY <1>1, <1>2 DEF RunsInv, Queued
<1>9. SendingInv'
  BY <1>2, <1>3 DEF SendingInv
<1>10. peer[Entry.what.object].live \/ Entry.what.type = "declare"
  BY <1>3, <1>4, AnnouncementKinds DEF Permitted
<1>11. TableInv'
  BY <1>1, <1>2, <1>10 DEF TableInv, Entry
<1> QED BY <1>7, <1>8, <1>9, <1>11 DEF IInv

LEMMA NativeFailsKeeps ==
  ASSUME IInv, NativeFails
  PROVE  IInv'
<1>1. TypeOK /\ RunsInv /\ SendingInv /\ TableInv
  BY DEF IInv
<1>2. sending = "native" /\ UNCHANGED <<tracked, peer>> /\ Settles(FALSE)
  BY DEF NativeFails
<1>3. /\ tracked' \in [Objects -> History!Known] /\ peer' \in [Objects -> History!Known]
      /\ ~closed => tracked' = peer'
  BY <1>1, <1>2 DEF TypeOK, TableInv
<1>4. queue # <<>>
  BY <1>1, <1>2 DEF SendingInv
<1> QED BY <1>1, <1>2, <1>3, <1>4, SettledIsRight

LEMMA CommitsKeeps ==
  ASSUME IInv, Commits
  PROVE  IInv'
<1> DEFINE x == Entry.what.object
           ok == tracked[x].live \/ Entry.what.type = "declare"
<1>1. TypeOK /\ RunsInv /\ SendingInv /\ TableInv
  BY DEF IInv
<1>2. sending = "sent" /\ UNCHANGED peer /\ tracked' = Commit(Entry.what) /\ Settles(ok)
  BY DEF Commits
<1>3. queue # <<>>
  BY <1>1, <1>2 DEF SendingInv
<1>4. Entry.what \in Announcement /\ x \in Objects /\ tracked[x] \in History!Known
  BY <1>1, <1>3, EntryFacts
<1>5. tracked' \in [Objects -> History!Known]
  <2>1. After(tracked[x], Entry.what) \in History!Known
    BY <1>4, AfterIsKnown
  <2> QED BY <1>1, <1>2, <2>1 DEF TypeOK, Commit
<1>6. ~closed => tracked' = peer'
  BY <1>1, <1>2 DEF TableInv, Commit
<1>7. ok \in BOOLEAN
  BY <1>4 DEF History!Known
<1> QED BY <1>1, <1>2, <1>3, <1>5, <1>6, <1>7, SettledIsRight DEF TypeOK

LEMMA CloseKeeps ==
  ASSUME IInv, Close
  PROVE  IInv'
<1>1. TypeOK /\ RunsInv /\ SendingInv
  BY DEF IInv
<1>2. /\ closed' = TRUE /\ tracked' = [x \in Objects |-> History!Released(FALSE)]
      /\ UNCHANGED <<peer, queue, sending, run, subject, ahead, todo>>
  BY DEF Close, runVars
<1>3. History!Released(FALSE) \in History!Known
  BY DEF History!Released, History!Known
<1>4. TypeOK'
  BY <1>1, <1>2, <1>3 DEF TypeOK
<1>5. RunsInv' /\ SendingInv' /\ TableInv'
  BY <1>1, <1>2 DEF RunsInv, Queued, SendingInv, TableInv, Entry, Permitted
<1> QED BY <1>4, <1>5 DEF IInv

(* Steps of a run that leave the queue and the table alone.                *)
LEMMA RunAloneKeeps ==
  ASSUME IInv, NEW r \in Runs, run[r] # "releasing",
         NEW s \in {"waiting", "listing", "next", "done"},
         run' = [run EXCEPT ![r] = s],
         s = "waiting" => ahead'[r] \in 1 .. Len(queue),
         ahead' \in [Runs -> Nat], todo' \in [Runs -> Seq(Objects)],
         \A q \in Runs \ {r} : ahead'[q] = ahead[q] /\ todo'[q] = todo[q],
         UNCHANGED <<tracked, peer, queue, sending, closed, subject>>
  PROVE  IInv'
<1>1. TypeOK /\ RunsInv /\ SendingInv /\ TableInv
  BY DEF IInv
<1>2. TypeOK'
  BY <1>1 DEF TypeOK
<1>3. ~Queued(r)
  BY <1>1 DEF RunsInv
<1>4. \A i \in 1 .. Len(queue) : queue[i].by # r
  BY <1>3 DEF Queued
<1>5. \A q \in Runs : run'[q] = "releasing" <=> Queued(q)
  BY <1>1, <1>3 DEF RunsInv, TypeOK
<1>6. \A q \in Runs : run'[q] = "waiting" => ahead'[q] \in 1 .. Len(queue)
  BY <1>1 DEF RunsInv, TypeOK
<1>7. \A i \in 1 .. Len(queue) : queue[i].by \in Runs =>
       /\ todo'[queue[i].by] # <<>>
       /\ queue[i].what = [type |-> "release", object |-> Head(todo'[queue[i].by]),
                           operation |-> subject[queue[i].by]]
  BY <1>1, <1>4 DEF RunsInv
<1>8. RunsInv'
  BY <1>1, <1>5, <1>6, <1>7 DEF RunsInv, Queued
<1>9. SendingInv' /\ TableInv'
  BY <1>1 DEF SendingInv, TableInv, Entry, Permitted
<1> QED BY <1>2, <1>8, <1>9 DEF IInv

LEMMA BeginKeeps ==
  ASSUME IInv, NEW r \in Runs, Begin(r)
  PROVE  IInv'
<1>1. TypeOK
  BY DEF IInv
<1>2. Len(queue) \in Nat /\ (queue # <<>> => Len(queue) >= 1)
  BY <1>1, QueueFacts
<1>3. run[r] # "releasing"
  BY DEF Begin
<1>4. /\ ahead' = [ahead EXCEPT ![r] = Len(queue)]
      /\ run' = [run EXCEPT ![r] = IF queue = <<>> THEN "listing" ELSE "waiting"]
      /\ UNCHANGED <<tracked, peer, queue, sending, closed, subject, todo>>
  BY DEF Begin
<1>5. /\ ahead' \in [Runs -> Nat] /\ todo' \in [Runs -> Seq(Objects)]
      /\ ahead'[r] = Len(queue)
      /\ \A q \in Runs \ {r} : ahead'[q] = ahead[q] /\ todo'[q] = todo[q]
  BY <1>1, <1>2, <1>4 DEF TypeOK
<1>6. CASE queue = <<>>
  BY <1>3, <1>4, <1>5, <1>6, RunAloneKeeps
<1>7. CASE queue # <<>>
  <2>1. ahead'[r] \in 1 .. Len(queue) BY <1>2, <1>5, <1>7
  <2>2. run' = [run EXCEPT ![r] = "waiting"] BY <1>4, <1>7
  <2> QED BY <1>3, <1>4, <1>5, <2>1, <2>2, RunAloneKeeps
<1> QED BY <1>6, <1>7

(* The ids a run lists are a sequence of objects.                          *)
LEMMA AscendingIsSeq ==
  ASSUME NEW S \in SUBSET Objects, NEW s \in Ascending(S)
  PROVE  s \in Seq(S)
<1>1. Cardinality(S) \in Nat
  BY ObjectAssumption, FS_Subset, FS_CardinalityType
<1>2. s \in [1 .. Cardinality(S) -> S]
  BY DEF Ascending, SetToSeqs
<1> QED BY <1>1, <1>2

LEMMA ListObjectsKeeps ==
  ASSUME IInv, NEW r \in Runs, ListObjects(r)
  PROVE  IInv'
<1>1. TypeOK
  BY DEF IInv
<1>2. /\ run[r] = "listing" /\ run' = [run EXCEPT ![r] = "next"]
      /\ UNCHANGED <<tracked, peer, queue, sending, closed, subject, ahead>>
  BY DEF ListObjects
<1>3. PICK ids \in Ascending(Owned(subject[r])) : todo' = [todo EXCEPT ![r] = ids]
  BY DEF ListObjects
<1>4. Owned(subject[r]) \subseteq Objects
  BY DEF Owned
<1>5. ids \in Seq(Objects)
  <2> DEFINE T == Owned(subject[r])
  <2>1. ids \in Seq(T) BY <1>4, AscendingIsSeq
  <2>2. T \subseteq Objects BY <1>4
  <2> HIDE DEF T
  <2> QED BY <2>1, <2>2
<1>6. /\ ahead' \in [Runs -> Nat] /\ todo' \in [Runs -> Seq(Objects)]
      /\ \A q \in Runs \ {r} : ahead'[q] = ahead[q] /\ todo'[q] = todo[q]
  BY <1>1, <1>2, <1>3, <1>5 DEF TypeOK
<1> QED BY <1>2, <1>6, RunAloneKeeps

LEMMA ReleaseNextKeeps ==
  ASSUME IInv, NEW r \in Runs, ReleaseNext(r)
  PROVE  IInv'
<1>1. TypeOK /\ RunsInv /\ SendingInv /\ TableInv
  BY DEF IInv
<1>2. run[r] = "next" /\ UNCHANGED <<tracked, peer, sending, closed, subject, ahead, todo>>
  BY DEF ReleaseNext
<1>3. CASE todo[r] = <<>>
  <2>1. run' = [run EXCEPT ![r] = "done"] /\ UNCHANGED queue
    BY <1>3 DEF ReleaseNext
  <2>2. /\ ahead' \in [Runs -> Nat] /\ todo' \in [Runs -> Seq(Objects)]
        /\ \A q \in Runs \ {r} : ahead'[q] = ahead[q] /\ todo'[q] = todo[q]
    BY <1>1, <1>2 DEF TypeOK
  <2> QED BY <1>2, <2>1, <2>2, RunAloneKeeps
<1>4. CASE todo[r] # <<>>
  <2> DEFINE e == [by |-> r, what |-> [type |-> "release", object |-> Head(todo[r]),
                                       operation |-> subject[r]]]
  <2>1. run' = [run EXCEPT ![r] = "releasing"] /\ queue' = Append(queue, e)
    BY <1>4 DEF ReleaseNext
  <2>2. Head(todo[r]) \in Objects /\ subject[r] \in Operations
    <3>1. todo[r] \in Seq(Objects) BY <1>1 DEF TypeOK
    <3>2. subject[r] \in Operations BY <1>1 DEF TypeOK
    <3> QED BY <3>1, <3>2, <1>4
  <2>3. e \in Entries
    BY <2>2 DEF Entries, Announcement, Scope
  <2>4. /\ e.by = r
        /\ e.what = [type |-> "release", object |-> Head(todo[r]), operation |-> subject[r]]
    OBVIOUS
  <2> HIDE DEF e
  <2>5. /\ queue' \in Seq(Entries) /\ queue' # <<>> /\ (queue # <<>> => Entry' = Entry)
        /\ run' \in [Runs -> {"idle", "waiting", "listing", "next", "releasing", "done", "failed"}]
        /\ RunsInv'
    BY <1>1, <1>2, <1>4, <2>1, <2>3, <2>4, AppendKeeps
  <2>6. TypeOK'
    BY <1>1, <1>2, <2>5 DEF TypeOK, Entries
  <2>7. SendingInv' /\ TableInv'
    BY <1>1, <1>2, <2>5 DEF SendingInv, TableInv, TypeOK
  <2> QED BY <2>5, <2>6, <2>7 DEF IInv
<1> QED BY <1>3, <1>4

LEMMA StepKeepsIInv ==
  IInv /\ [Next]_vars => IInv'
<1> SUFFICES ASSUME IInv, [Next]_vars PROVE IInv' OBVIOUS
<1>1. CASE \E a \in Announced : Enqueue(a) BY <1>1, EnqueueKeeps
<1>2. CASE Validate BY <1>2, ValidateKeeps
<1>3. CASE NativeSends BY <1>3, NativeSendsKeeps
<1>4. CASE NativeFails BY <1>4, NativeFailsKeeps
<1>5. CASE Commits BY <1>5, CommitsKeeps
<1>6. CASE Close BY <1>6, CloseKeeps
<1>7. CASE \E r \in Runs : Begin(r) BY <1>7, BeginKeeps
<1>8. CASE \E r \in Runs : ListObjects(r) BY <1>8, ListObjectsKeeps
<1>9. CASE \E r \in Runs : ReleaseNext(r) BY <1>9, ReleaseNextKeeps
<1>10. CASE UNCHANGED vars
  BY <1>10 DEF vars, runVars, IInv, TypeOK, RunsInv, Queued, SendingInv, TableInv, Entry, Permitted
<1> QED BY <1>1, <1>2, <1>3, <1>4, <1>5, <1>6, <1>7, <1>8, <1>9, <1>10 DEF Next, QueueStep, RunStep

(* The invariant the three results rest on.                                *)
LEMMA Invariance ==
  Spec => []IInv
BY InitIInv, StepKeepsIInv, PTL DEF Spec

(* While a session is open, its table is exactly what its peer has been    *)
(* told whenever no send waits for its commit, whatever calls raced for    *)
(* the queue and whichever sends failed (RuntimeObjectLifecycle.commit     *)
(* after the send in #sendRuntimeObject).                                  *)
THEOREM TrackedIsToldTheorem ==
  Spec => []TrackedIsTold
<1>1. IInv => TrackedIsTold
  BY DEF IInv, TableInv, TrackedIsTold
<1> QED BY <1>1, Invariance, PTL

(* What the native library sends is a behaviour of ObjectHistory: every    *)
(* announcement is legal for the peer when it is sent, because it was      *)
(* validated at the head of the queue against a table that was what the    *)
(* peer had been told, and nothing is sent between the two.                *)
THEOREM LegalHistoryTheorem ==
  Spec => LegalHistory
<1>1. Init => History!Init
  BY DEF Init, History!Init
<1>2. IInv /\ [Next]_vars => [History!Next]_peer
  <2> SUFFICES ASSUME IInv, [Next]_vars, peer' # peer PROVE History!Next
    OBVIOUS
  <2>1. NativeSends
    BY DEF Next, vars, Enqueue, QueueStep, Validate, NativeFails, Commits, Close,
           Begin, RunStep, ListObjects, ReleaseNext
  <2>2. TypeOK /\ SendingInv
    BY DEF IInv
  <2>3. queue # <<>> /\ Permitted(peer[Entry.what.object], Entry.what)
    BY <2>1, <2>2 DEF SendingInv, NativeSends
  <2>4. Entry.what \in Announcement
    BY <2>2, <2>3, EntryFacts
  <2>5. /\ peer \in [Objects -> History!Known]
        /\ peer' = [peer EXCEPT ![Entry.what.object] = After(@, Entry.what)]
    BY <2>1, <2>2 DEF NativeSends, TypeOK
  <2> QED BY <2>3, <2>4, <2>5, PermittedIsLegal
<1> QED BY <1>1, <1>2, Invariance, PTL DEF Spec, LegalHistory, History!Spec

(* A run of #releaseOperationObjects leaves an object only after a commit  *)
(* of its own release: by then its operation does not hold the object, or  *)
(* the object is gone, whatever else was queued in between.                *)
THEOREM GoesOnTheorem ==
  Spec => GoesOnWhenReleased
<1> DEFINE Goes(r) == run[r] = "releasing" /\ run'[r] = "next" => Head(todo[r]) \notin Owned(subject[r])'
<1>1. ASSUME IInv, [Next]_vars, NEW r \in Runs, run[r] = "releasing", run'[r] = "next"
      PROVE  Head(todo[r]) \notin Owned(subject[r])'
  <2>1. TypeOK /\ RunsInv /\ SendingInv
    BY <1>1 DEF IInv
  <2>2. \E ok \in BOOLEAN : Settles(ok) /\ (ok => Commits) /\ queue # <<>>
    <3>1. CASE \E a \in Announced : Enqueue(a) BY <1>1, <3>1 DEF Enqueue, runVars
    <3>2. CASE Validate BY <1>1, <3>2 DEF Validate, runVars
    <3>3. CASE NativeSends BY <1>1, <3>3 DEF NativeSends, runVars
    <3>4. CASE NativeFails BY <2>1, <3>4 DEF NativeFails, SendingInv
    <3>5. CASE Commits
      <4>1. queue # <<>> BY <2>1, <3>5 DEF Commits, SendingInv
      <4>2. tracked[Entry.what.object].live \in BOOLEAN
        BY <2>1, <4>1, EntryFacts DEF History!Known
      <4> QED BY <3>5, <4>1, <4>2 DEF Commits
    <3>6. CASE Close BY <1>1, <3>6 DEF Close, runVars
    <3>7. CASE \E q \in Runs : Begin(q) BY <1>1, <2>1, <3>7 DEF Begin, TypeOK
    <3>8. CASE \E q \in Runs : ListObjects(q) BY <1>1, <2>1, <3>8 DEF ListObjects, TypeOK
    <3>9. CASE \E q \in Runs : ReleaseNext(q) BY <1>1, <2>1, <3>9 DEF ReleaseNext, TypeOK
    <3>10. CASE UNCHANGED vars BY <1>1, <3>10 DEF vars, runVars
    <3> QED BY <1>1, <3>1, <3>2, <3>3, <3>4, <3>5, <3>6, <3>7, <3>8, <3>9, <3>10
            DEF Next, QueueStep, RunStep
  <2>3. PICK ok \in BOOLEAN : Settles(ok) /\ (ok => Commits) /\ queue # <<>>
    BY <2>2
  <2>4. r = Entry.by /\ ok = TRUE
    BY <1>1, <2>3 DEF Settles, RunsContinue
  <2>5. /\ Entry = queue[1] /\ 1 \in 1 .. Len(queue)
        /\ Entry.what \in Announcement /\ Entry.what.object \in Objects
        /\ tracked[Entry.what.object] \in History!Known
    BY <2>1, <2>3, QueueFacts, EntryFacts
  <2>6. Entry.what = [type |-> "release", object |-> Head(todo[r]), operation |-> subject[r]]
    BY <2>1, <2>4, <2>5 DEF RunsInv
  <2>7. Commits
    BY <2>3, <2>4
  <2>8. /\ Entry.what.type = "release" /\ Entry.what.object = Head(todo[r])
        /\ Entry.what.operation = subject[r] /\ subject' = subject
    BY <2>3, <2>6 DEF Settles
  <2>9. tracked'[Head(todo[r])] = After(tracked[Head(todo[r])], Entry.what) \/ ~tracked'[Head(todo[r])].live
    BY <2>1, <2>5, <2>7, <2>8 DEF Commits, Commit, TypeOK
  <2>10. CASE tracked'[Head(todo[r])] = After(tracked[Head(todo[r])], Entry.what)
    <3>1. /\ After(tracked[Head(todo[r])], Entry.what).live
          /\ After(tracked[Head(todo[r])], Entry.what).drop
          => Entry.what.operation \notin After(tracked[Head(todo[r])], Entry.what).operations
      BY <2>5, <2>8, ReleasedIsNotOwned
    <3> QED BY <2>8, <2>10, <3>1 DEF Owned
  <2>11. CASE ~tracked'[Head(todo[r])].live
    BY <2>11 DEF Owned
  <2> QED BY <2>9, <2>10, <2>11
<1>2. IInv /\ [Next]_vars => [\A r \in Runs : Goes(r)]_vars
  BY <1>1
<1> QED BY <1>2, Invariance, PTL DEF Spec, GoesOnWhenReleased
=============================================================================
