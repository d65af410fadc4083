---------------------- MODULE ClientEventRoutingProofs ----------------------
(***************************************************************************)
(* For any sessions, readers and polls: every event of an open session is  *)
(* in one place, and polls that do not overlap keep the order.             *)
(***************************************************************************)
EXTENDS ClientEventRouting, FiniteSetTheorems, WellFoundedInduction, TLAPS

(***************************************************************************)
(* What the invariants say of a queue                                      *)
(***************************************************************************)
Absent(q, e) == \A k \in 1 .. Len(q) : q[k] # e
Single(q, e) == \E k \in 1 .. Len(q) : q[k] = e /\ \A l \in 1 .. Len(q) : q[l] = e => l = k
NoneOf(q, s) == \A k \in 1 .. Len(q) : q[k].session # s
Ascends(q, s) ==
  \A j, k \in 1 .. Len(q) :
    j < k /\ q[j].session = s /\ q[k].session = s => q[j].number < q[k].number
Precedes(p, q, s) ==
  \A j \in 1 .. Len(p), k \in 1 .. Len(q) :
    p[j].session = s /\ q[k].session = s => p[j].number < q[k].number

(* A part of a queue, in its order: some of its places, each of them once. *)
ChosenAt(q, m, f, some, at) ==
  /\ at \in [1 .. Len(f) -> 1 .. m]
  /\ \A j, k \in 1 .. Len(f) : j < k => at[j] < at[k]
  /\ \A j \in 1 .. Len(f) : f[j] = q[at[j]] /\ q[at[j]].session \in some
  /\ \A l \in 1 .. m : q[l].session \in some => \E j \in 1 .. Len(f) : at[j] = l

Chosen(q, m, f, some) == f \in Seq(Events) /\ \E at : ChosenAt(q, m, f, some, at)
(***************************************************************************)
(* The inductive invariant.  Every event of a session goes through places   *)
(* 0 .. MaxPolls + 2: the native library, the polls, the queue, the caller. *)
(***************************************************************************)
PlaceNumbers == 0 .. MaxPolls + 2

Held(ps, i) == IF ps[i] = Nobody THEN <<>> ELSE Holding(ps[i])

(* What the places hold; ws and qs are as wire and queues.                  *)
Line(ws, qs, ds, ps, s) ==
  [b \in PlaceNumbers |->
     IF b = 0 THEN ws[s] ELSE IF b = MaxPolls + 1 THEN qs[s]
     ELSE IF b = MaxPolls + 2 THEN ds[s] ELSE Held(ps, b)]

Nowhere(line, e) == \A b \in PlaceNumbers : Absent(line[b], e)
OnlyAt(line, b, e) == Single(line[b], e) /\ \A c \in PlaceNumbers \ {b} : Absent(line[c], e)
Unspilled(lost, e) == \A x \in lost : x.event # e
SpilledAs(lost, e, x) == x \in lost /\ x.event = e /\ \A y \in lost : y.event = e => y = x
SpilledOnce(lost, e) == \E x \in lost : SpilledAs(lost, e, x)
Once(line, lost, e) ==
  \/ (\E b \in PlaceNumbers : OnlyAt(line, b, e)) /\ Unspilled(lost, e)
  \/ Nowhere(line, e) /\ SpilledOnce(lost, e)

(* An event that is further on was sent earlier.                            *)
Sorted(line, s) ==
  /\ \A b \in PlaceNumbers : Ascends(line[b], s)
  /\ \A b, c \in PlaceNumbers : b < c => Precedes(line[c], line[b], s)

SentBefore(e, sent) == e.number \in 1 .. sent[e.session]
AllSent(q, sent) == \A k \in 1 .. Len(q) : SentBefore(q[k], sent)

(* How a part x of a queue q, and what is left of it, relate to q.          *)
Counted(q, x, rest, s) ==
  \A e : e.session = s =>
    /\ Absent(q, e) => Absent(x, e) /\ Absent(rest, e)
    /\ Single(q, e) => \/ Single(x, e) /\ Absent(rest, e)
                       \/ Absent(x, e) /\ Single(rest, e)
Ordered(q, x, rest, s) ==
  /\ Ascends(q, s) => Ascends(x, s) /\ Ascends(rest, s) /\ Precedes(x, rest, s)
  /\ \A p : Precedes(p, q, s) => Precedes(p, x, s) /\ Precedes(p, rest, s)
  /\ \A p : Precedes(q, p, s) => Precedes(x, p, s) /\ Precedes(rest, p, s)

(* From one line to the next: x goes from place b to place c, and what is   *)
(* left of place b is there in the new line.                                *)
Lines == [PlaceNumbers -> Seq(Events)]
Moves(line, new, b, c, x) ==
  /\ b \in PlaceNumbers /\ c \in PlaceNumbers /\ b < c
  /\ x \in Seq(Events) /\ new[c] = line[c] \o x
  /\ \A a \in PlaceNumbers \ {b, c} : new[a] = line[a]

PollsInv ==
  /\ \A i \in UnderWay :
       /\ polls[i].stage # "taken" => polls[i].fresh = <<>>
       /\ session[opened[polls[i].at]] = "opening" => polls[i].stage = "opening"
  /\ \A i, j \in UnderWay :
       \/ i = j
       \/ overlapped /\ (polls[i].reader = Nobody \/ polls[i].reader # polls[j].reader)

RoutesInv ==
  /\ \A id \in Ids : mapped[id] # Nobody =>
       WireId[mapped[id]] = id /\ session[mapped[id]] \in {"open", "closing"}
  /\ \A s \in Sessions : session[s] \in {"open", "closing"} => mapped[WireId[s]] = s
  /\ \A s \in Sessions : session[s] \in {"new", "opening", "failed"} => arrived[s] = 0
  /\ \A s, t \in Sessions :
       WireId[s] = WireId[t] /\ session[s] = "opening" /\ session[t] \in {"opening", "open", "closing"} => s = t

(* Every event was sent, and what the native library holds for a session   *)
(* is of that session.                                                     *)
SentOf(ws, qs, ds, us, ps, sent, lost) ==
  /\ \A s \in Sessions : \A t \in Sessions \ {s} : NoneOf(ws[t], s)
  /\ \A s \in Sessions : \A b \in PlaceNumbers : AllSent(Line(ws, qs, ds, ps, s)[b], sent)
  /\ \A id \in Ids : AllSent(us[id], sent)
  /\ \A x \in lost : SentBefore(x.event, sent)

AtHomeOf(state, qs, ds, us) ==
  \A s \in Sessions : state[s] = "open" =>
    /\ \A t \in Sessions \ {s} : NoneOf(qs[t], s) /\ NoneOf(ds[t], s)
    /\ \A id \in Ids : NoneOf(us[id], s)

OnceOf(state, ws, qs, ds, ps, sent, lost) ==
  \A s \in Sessions : state[s] = "open" =>
    \A n \in 1 .. sent[s] : Once(Line(ws, qs, ds, ps, s), lost, EventOf(s, n))

SortedOf(ws, qs, ds, ps) == \A s \in Sessions : Sorted(Line(ws, qs, ds, ps, s), s)

SentInv == SentOf(wire, queues, delivered, unclaimed, polls, arrived, spilled)
AtHomeInv == AtHomeOf(session, queues, delivered, unclaimed)
OnceInv == OnceOf(session, wire, queues, delivered, polls, arrived, spilled)
SortedInv == ~overlapped => SortedOf(wire, queues, delivered, polls)

Shape == RoutingTypeOK /\ PollsInv /\ RoutesInv
Content == SentInv /\ AtHomeInv /\ OnceInv /\ SortedInv
IInv == Shape /\ Content
-----------------------------------------------------------------------------
LEMMA MinOfNats ==
  ASSUME NEW I \in SUBSET Nat, I # {}
  PROVE  Min(I) \in I /\ \A y \in I : Min(I) <= y
<1>1. PICK x \in I : \A y \in I : <<y, x>> \notin OpToRel(<, Nat)
  BY NatLessThanWellFounded, WFMin
<1>2. \A y \in I : ~(y < x)
  BY <1>1 DEF OpToRel
<1>3. \A y \in I : x <= y
  BY <1>2
<1> QED BY <1>3 DEF Min

(* What EventsOf collects up to each event of the batch.                   *)
Step(batch, some, sofar, n) ==
  IF batch[n].session \in some THEN Append(sofar, batch[n]) ELSE sofar

LEMMA UpToExists ==
  ASSUME NEW batch \in Seq(Events), NEW some
  PROVE  \E f : f = [n \in 0 .. Len(batch) |->
                       IF n = 0 THEN <<>> ELSE Step(batch, some, f[n - 1], n)]
<1> DEFINE Is(f, m) == f = [n \in 0 .. m |-> IF n = 0 THEN <<>> ELSE Step(batch, some, f[n - 1], n)]
           Bad == {m \in Nat : \A f : ~Is(f, m)}
<1>1. Bad = {}
  <2> SUFFICES ASSUME Bad # {} PROVE FALSE
    OBVIOUS
  <2>1. PICK m \in Bad : \A y \in Bad : <<y, m>> \notin OpToRel(<, Nat)
    <3>1. Bad \subseteq Nat OBVIOUS
    <3> HIDE DEF Bad
    <3> QED BY <3>1, NatLessThanWellFounded, WFMin
  <2>2. m \in Nat /\ \A f : ~Is(f, m)
    OBVIOUS
  <2>3. \A y \in Bad : ~(y < m)
    BY <2>1 DEF OpToRel
  <2>4. CASE m = 0
    <3>1. Is([n \in 0 .. 0 |-> <<>>], 0)
      <4> DEFINE g == [n \in 0 .. 0 |-> <<>>]
      <4>1. g = [n \in 0 .. 0 |-> IF n = 0 THEN <<>> ELSE Step(batch, some, g[n - 1], n)]
        BY \A n \in 0 .. 0 : n = 0
      <4> QED BY <4>1
    <3> QED BY <2>2, <2>4, <3>1
  <2>5. CASE m # 0
    <3>1. m - 1 \in Nat /\ m - 1 < m
      BY <2>2, <2>5
    <3>2. PICK f : Is(f, m - 1)
      BY <2>3, <3>1
    <3> DEFINE g == [n \in 0 .. m |-> IF n = m THEN Step(batch, some, f[m - 1], m) ELSE f[n]]
               h == [n \in 0 .. m |-> IF n = 0 THEN <<>> ELSE Step(batch, some, g[n - 1], n)]
    <3>3. ASSUME NEW n \in 0 .. m PROVE g[n] = h[n]
      <4>1. CASE n = m
        <5>1. g[m] = Step(batch, some, f[m - 1], m) BY <2>2, <2>5
        <5>2. g[m - 1] = f[m - 1] BY <2>2, <3>1
        <5>3. h[m] = Step(batch, some, g[m - 1], m) BY <2>2, <2>5
        <5> QED BY <4>1, <5>1, <5>2, <5>3
      <4>2. CASE n # m /\ n = 0
        <5>1. g[n] = f[n] /\ f[n] = <<>> BY <3>1, <3>2, <4>2
        <5> QED BY <4>2, <5>1
      <4>3. CASE n # m /\ n # 0
        <5>1. n \in 0 .. m - 1 /\ n - 1 \in 0 .. m - 1 /\ n - 1 \in 0 .. m /\ n - 1 # m
          BY <2>2, <3>1, <4>3
        <5>2. g[n] = f[n] /\ g[n - 1] = f[n - 1] BY <4>3, <5>1
        <5>3. f[n] = Step(batch, some, f[n - 1], n) BY <3>2, <4>3, <5>1
        <5>4. h[n] = Step(batch, some, g[n - 1], n) BY <4>3
        <5> QED BY <5>2, <5>3, <5>4
      <4> QED BY <4>1, <4>2, <4>3
    <3>4. g = h
      BY <3>3
    <3> QED BY <2>2, <3>4
  <2> QED BY <2>4, <2>5
<1>2. Len(batch) \in Nat
  OBVIOUS
<1> QED BY <1>1, <1>2

LEMMA ChosenNext ==
  ASSUME NEW q \in Seq(Events), NEW some, NEW f, NEW m \in 0 .. Len(q) - 1, Chosen(q, m, f, some)
  PROVE  Chosen(q, m + 1, Step(q, some, f, m + 1), some)
<1>1. PICK at :
        /\ at \in [1 .. Len(f) -> 1 .. m]
        /\ \A j, k \in 1 .. Len(f) : j < k => at[j] < at[k]
        /\ \A j \in 1 .. Len(f) : f[j] = q[at[j]] /\ q[at[j]].session \in some
        /\ \A l \in 1 .. m : q[l].session \in some => \E j \in 1 .. Len(f) : at[j] = l
  BY DEF Chosen, ChosenAt
<1>2. /\ f \in Seq(Events) /\ Len(q) \in Nat /\ m \in Nat /\ m + 1 \in 1 .. Len(q) /\ q[m + 1] \in Events
      /\ Len(f) \in Nat /\ \A l \in 1 .. m + 1 : l \in 1 .. m \/ l = m + 1
      /\ \A l \in 1 .. m : l \in 1 .. m + 1 /\ l < m + 1
  BY DEF Chosen
<1>3. CASE q[m + 1].session \notin some
  <2>1. Step(q, some, f, m + 1) = f
    BY <1>3 DEF Step
  <2>2. at \in [1 .. Len(f) -> 1 .. m + 1]
    BY <1>1, <1>2
  <2>3. \A l \in 1 .. m + 1 : q[l].session \in some => \E j \in 1 .. Len(f) : at[j] = l
    BY <1>1, <1>2, <1>3
  <2>4. ChosenAt(q, m + 1, f, some, at)
    BY <1>1, <2>2, <2>3 DEF ChosenAt
  <2> QED BY <1>2, <2>1, <2>4 DEF Chosen
<1>4. CASE q[m + 1].session \in some
  <2> DEFINE g == Append(f, q[m + 1])
             n == Len(f)
             up == [j \in 1 .. n + 1 |-> IF j = n + 1 THEN m + 1 ELSE at[j]]
  <2>1. Step(q, some, f, m + 1) = g
    BY <1>4 DEF Step
  <2>2. /\ g \in Seq(Events) /\ Len(g) = n + 1 /\ g[n + 1] = q[m + 1]
        /\ \A j \in 1 .. n : g[j] = f[j]
    BY <1>2
  <2>3. /\ \A j \in 1 .. n + 1 : j \in 1 .. n \/ j = n + 1
        /\ \A j \in 1 .. n : j \in 1 .. n + 1 /\ j # n + 1 /\ j < n + 1
        /\ n + 1 \in 1 .. n + 1
    BY <1>2
  <2>4. /\ up[n + 1] = m + 1
        /\ \A j \in 1 .. n : up[j] = at[j]
    BY <2>3
  <2>5. up \in [1 .. n + 1 -> 1 .. m + 1]
    BY <1>1, <1>2, <2>3
  <2> HIDE DEF g, up
  <2>6. ASSUME NEW j \in 1 .. n + 1, NEW k \in 1 .. n + 1, j < k PROVE up[j] < up[k]
    <3>1. j \in 1 .. n BY <1>2, <2>6
    <3>2. CASE k \in 1 .. n BY <1>1, <2>4, <2>6, <3>1, <3>2
    <3>3. CASE k = n + 1 BY <1>1, <1>2, <2>4, <3>1, <3>3
    <3> QED BY <2>3, <3>2, <3>3
  <2>7. \A j \in 1 .. n + 1 : g[j] = q[up[j]] /\ q[up[j]].session \in some
    BY <1>1, <1>4, <2>2, <2>3, <2>4
  <2>8. ASSUME NEW l \in 1 .. m + 1, q[l].session \in some PROVE \E j \in 1 .. n + 1 : up[j] = l
    <3>1. CASE l = m + 1 BY <2>3, <2>4, <3>1
    <3>2. CASE l \in 1 .. m
      <4>1. PICK j \in 1 .. n : at[j] = l BY <1>1, <2>8, <3>2
      <4> QED BY <2>3, <2>4, <4>1
    <3> QED BY <1>2, <3>1, <3>2
  <2>9. ChosenAt(q, m + 1, g, some, up)
    BY <2>2, <2>5, <2>6, <2>7, <2>8 DEF ChosenAt
  <2> QED BY <2>1, <2>2, <2>9 DEF Chosen
<1> QED BY <1>3, <1>4

LEMMA EventsOfChosen ==
  ASSUME NEW batch \in Seq(Events), NEW some
  PROVE  EventsOf(batch, some) \in Seq(Events) /\ Chosen(batch, Len(batch), EventsOf(batch, some), some)
<1> DEFINE up == CHOOSE f : f = [n \in 0 .. Len(batch) |->
                                   IF n = 0 THEN <<>> ELSE Step(batch, some, f[n - 1], n)]
           N == Len(batch)
           Bad == {m \in 0 .. N : ~Chosen(batch, m, up[m], some)}
<1>1. EventsOf(batch, some) = up[Len(batch)]
  BY DEF EventsOf, Step
<1>2. up = [n \in 0 .. Len(batch) |-> IF n = 0 THEN <<>> ELSE Step(batch, some, up[n - 1], n)]
  BY UpToExists
<1> HIDE DEF up
<1>3. N \in Nat
  OBVIOUS
<1>4. up[0] = <<>> /\ \A n \in 0 .. N : n # 0 => up[n] = Step(batch, some, up[n - 1], n)
  BY <1>2, <1>3
<1>5. Chosen(batch, 0, <<>>, some)
  <2> DEFINE s == <<>>
  <2>1. s \in Seq(Events) /\ Len(s) = 0 OBVIOUS
  <2>2. [x \in {} |-> x] \in [1 .. 0 -> 1 .. 0] OBVIOUS
  <2>3. 1 .. 0 = {} OBVIOUS
  <2> QED BY <2>1, <2>2, <2>3 DEF Chosen, ChosenAt
<1>6. Bad = {}
  <2> SUFFICES ASSUME Bad # {} PROVE FALSE
    OBVIOUS
  <2>1. PICK m \in Bad : \A y \in Bad : <<y, m>> \notin OpToRel(<, Nat)
    <3>1. Bad \subseteq Nat BY <1>3
    <3> HIDE DEF Bad
    <3> QED BY <3>1, NatLessThanWellFounded, WFMin
  <2>2. m \in 0 .. N /\ ~Chosen(batch, m, up[m], some)
    OBVIOUS
  <2>3. \A y \in Bad : ~(y < m)
    <3>1. \A y \in Bad : y \in Nat /\ m \in Nat BY <1>3
    <3> HIDE DEF Bad
    <3> QED BY <2>1, <3>1 DEF OpToRel
  <2>4. m # 0
    BY <1>4, <1>5, <2>2
  <2>5. m - 1 \in 0 .. N /\ m - 1 < m /\ m - 1 \in 0 .. N - 1 /\ (m - 1) + 1 = m
    BY <1>3, <2>2, <2>4
  <2>6. Chosen(batch, m - 1, up[m - 1], some)
    BY <2>3, <2>5
  <2>7. Chosen(batch, (m - 1) + 1, Step(batch, some, up[m - 1], (m - 1) + 1), some)
    BY <2>5, <2>6, ChosenNext
  <2> QED BY <1>4, <2>2, <2>4, <2>5, <2>7
<1>7. Chosen(batch, N, up[N], some)
  BY <1>3, <1>6
<1> QED BY <1>1, <1>7 DEF Chosen

-----------------------------------------------------------------------------
(***************************************************************************)
(* Queues                                                                  *)
(***************************************************************************)
LEMMA ConcatIndexes ==
  ASSUME NEW p \in Seq(Events), NEW q \in Seq(Events)
  PROVE  /\ p \o q \in Seq(Events) /\ Len(p \o q) = Len(p) + Len(q)
         /\ Len(p) \in Nat /\ Len(q) \in Nat
         /\ \A k \in 1 .. Len(p) : k \in 1 .. Len(p \o q) /\ (p \o q)[k] = p[k]
         /\ \A k \in 1 .. Len(q) : Len(p) + k \in 1 .. Len(p \o q) /\ (p \o q)[Len(p) + k] = q[k]
         /\ \A k \in 1 .. Len(p \o q) : k \in 1 .. Len(p) \/ \E l \in 1 .. Len(q) : k = Len(p) + l
<1> DEFINE c == p \o q
           m == Len(p)
           n == Len(q)
<1>1. /\ c \in Seq(Events) /\ Len(c) = m + n /\ m \in Nat /\ n \in Nat
      /\ \A k \in 1 .. m + n : c[k] = IF k <= m THEN p[k] ELSE q[k - m]
  OBVIOUS
<1> HIDE DEF c, m, n
<1>2. \A k \in 1 .. m : k \in 1 .. m + n /\ c[k] = p[k]
  BY <1>1
<1>3. ASSUME NEW k \in 1 .. n PROVE m + k \in 1 .. m + n /\ c[m + k] = q[k]
  <2>1. m + k \in 1 .. m + n /\ ~(m + k <= m) /\ (m + k) - m = k
    BY <1>1
  <2> QED BY <1>1, <2>1
<1>4. ASSUME NEW k \in 1 .. m + n, k \notin 1 .. m PROVE \E l \in 1 .. n : k = m + l
  <2>1. k - m \in 1 .. n /\ k = m + (k - m)
    BY <1>1, <1>4
  <2> QED BY <2>1
<1> QED BY <1>1, <1>2, <1>3, <1>4 DEF c, m, n

LEMMA ConcatFacts ==
  ASSUME NEW p \in Seq(Events), NEW q \in Seq(Events)
  PROVE  /\ p \o q \in Seq(Events)
         /\ \A e : Absent(p \o q, e) <=> Absent(p, e) /\ Absent(q, e)
         /\ \A e : Single(p, e) /\ Absent(q, e) => Single(p \o q, e)
         /\ \A e : Absent(p, e) /\ Single(q, e) => Single(p \o q, e)
         /\ \A e : Single(p \o q, e) => (Single(p, e) /\ Absent(q, e)) \/ (Absent(p, e) /\ Single(q, e))
         /\ \A s : NoneOf(p \o q, s) <=> NoneOf(p, s) /\ NoneOf(q, s)
         /\ \A s : Ascends(p \o q, s) <=> Ascends(p, s) /\ Ascends(q, s) /\ Precedes(p, q, s)
         /\ \A r, s : Precedes(p \o q, r, s) <=> Precedes(p, r, s) /\ Precedes(q, r, s)
         /\ \A r, s : Precedes(r, p \o q, s) <=> Precedes(r, p, s) /\ Precedes(r, q, s)
<1> DEFINE c == p \o q
<1>1. /\ c \in Seq(Events) /\ Len(c) = Len(p) + Len(q) /\ Len(p) \in Nat /\ Len(q) \in Nat
      /\ \A k \in 1 .. Len(p) : k \in 1 .. Len(c) /\ c[k] = p[k]
      /\ \A k \in 1 .. Len(q) : Len(p) + k \in 1 .. Len(c) /\ c[Len(p) + k] = q[k]
      /\ \A k \in 1 .. Len(c) : k \in 1 .. Len(p) \/ \E l \in 1 .. Len(q) : k = Len(p) + l
  BY ConcatIndexes
<1> HIDE DEF c
<1>2. \A k \in 1 .. Len(p), l \in 1 .. Len(q) : k < Len(p) + l /\ ~(Len(p) + l < k) /\ k # Len(p) + l
  BY <1>1
<1>3. ASSUME NEW k \in 1 .. Len(q), NEW l \in 1 .. Len(q) PROVE (Len(p) + k < Len(p) + l <=> k < l) /\ (Len(p) + k = Len(p) + l <=> k = l)
  BY <1>1
<1>4. ASSUME NEW k \in 1 .. Len(c)
      PROVE  (k \in 1 .. Len(p) /\ c[k] = p[k]) \/ (\E l \in 1 .. Len(q) : k = Len(p) + l /\ c[k] = q[l])
  BY <1>1
<1>a. \A k \in 1 .. Len(p) : k \in 1 .. Len(c) /\ c[k] = p[k]
  BY <1>1
<1>b. \A k \in 1 .. Len(q) : Len(p) + k \in 1 .. Len(c) /\ c[Len(p) + k] = q[k]
  BY <1>1
<1>5. /\ \A e : Absent(c, e) <=> Absent(p, e) /\ Absent(q, e)
      /\ \A s : NoneOf(c, s) <=> NoneOf(p, s) /\ NoneOf(q, s)
  <2>1. ASSUME NEW e PROVE Absent(c, e) <=> Absent(p, e) /\ Absent(q, e)
    <3>1. ASSUME Absent(c, e) PROVE Absent(p, e) /\ Absent(q, e)
      BY <1>a, <1>b, <3>1 DEF Absent
    <3>2. ASSUME Absent(p, e), Absent(q, e) PROVE Absent(c, e)
      BY <1>4, <3>2 DEF Absent
    <3> QED BY <3>1, <3>2
  <2>2. ASSUME NEW s PROVE NoneOf(c, s) <=> NoneOf(p, s) /\ NoneOf(q, s)
    <3>1. ASSUME NoneOf(c, s) PROVE NoneOf(p, s) /\ NoneOf(q, s)
      BY <1>a, <1>b, <3>1 DEF NoneOf
    <3>2. ASSUME NoneOf(p, s), NoneOf(q, s) PROVE NoneOf(c, s)
      BY <1>4, <3>2 DEF NoneOf
    <3> QED BY <3>1, <3>2
  <2> QED BY <2>1, <2>2
<1>6. ASSUME NEW r, NEW s PROVE Precedes(c, r, s) <=> Precedes(p, r, s) /\ Precedes(q, r, s)
  <2>1. ASSUME Precedes(c, r, s) PROVE Precedes(p, r, s) /\ Precedes(q, r, s)
    BY <1>a, <1>b, <2>1 DEF Precedes
  <2>2. ASSUME Precedes(p, r, s), Precedes(q, r, s) PROVE Precedes(c, r, s)
    <3>1. ASSUME NEW j \in 1 .. Len(c), NEW k \in 1 .. Len(r), c[j].session = s, r[k].session = s
          PROVE  c[j].number < r[k].number
      <4>1. CASE j \in 1 .. Len(p) /\ c[j] = p[j]
        BY <2>2, <3>1, <4>1 DEF Precedes
      <4>2. CASE \E l \in 1 .. Len(q) : c[j] = q[l]
        BY <2>2, <3>1, <4>2 DEF Precedes
      <4> QED BY <1>4, <4>1, <4>2
    <3> QED BY <3>1 DEF Precedes
  <2> QED BY <2>1, <2>2
<1>7. ASSUME NEW r, NEW s PROVE Precedes(r, c, s) <=> Precedes(r, p, s) /\ Precedes(r, q, s)
  <2>1. ASSUME Precedes(r, c, s) PROVE Precedes(r, p, s) /\ Precedes(r, q, s)
    BY <1>a, <1>b, <2>1 DEF Precedes
  <2>2. ASSUME Precedes(r, p, s), Precedes(r, q, s) PROVE Precedes(r, c, s)
    BY <1>4, <2>2 DEF Precedes
  <2> QED BY <2>1, <2>2
<1>8. ASSUME NEW s PROVE Ascends(c, s) <=> Ascends(p, s) /\ Ascends(q, s) /\ Precedes(p, q, s)
  <2>1. ASSUME Ascends(c, s) PROVE Ascends(p, s) /\ Ascends(q, s) /\ Precedes(p, q, s)
    <3>1. Ascends(p, s) BY <1>a, <2>1 DEF Ascends
    <3>2. Ascends(q, s)
      <4> SUFFICES ASSUME NEW j \in 1 .. Len(q), NEW k \in 1 .. Len(q), j < k, q[j].session = s, q[k].session = s
                   PROVE q[j].number < q[k].number
        BY DEF Ascends
      <4>1. Len(p) + j < Len(p) + k BY <1>3
      <4>2. c[Len(p) + j].number < c[Len(p) + k].number BY <1>b, <2>1, <4>1 DEF Ascends
      <4> QED BY <1>b, <4>2
    <3>3. Precedes(p, q, s) BY <1>a, <1>b, <1>2, <2>1 DEF Ascends, Precedes
    <3> QED BY <3>1, <3>2, <3>3
  <2>2. ASSUME Ascends(p, s), Ascends(q, s), Precedes(p, q, s),
               NEW j \in 1 .. Len(c), NEW k \in 1 .. Len(c), j < k, c[j].session = s, c[k].session = s
        PROVE c[j].number < c[k].number
    <3>1. CASE j \in 1 .. Len(p) /\ k \in 1 .. Len(p)
      BY <1>a, <2>2, <3>1 DEF Ascends
    <3>2. CASE j \in 1 .. Len(p) /\ \E l \in 1 .. Len(q) : k = Len(p) + l
      <4>1. PICK l \in 1 .. Len(q) : k = Len(p) + l BY <3>2
      <4> QED BY <1>a, <1>b, <2>2, <3>2, <4>1 DEF Precedes
    <3>3. CASE \E i \in 1 .. Len(q) : j = Len(p) + i
      <4>1. PICK i \in 1 .. Len(q) : j = Len(p) + i BY <3>3
      <4>2. PICK l \in 1 .. Len(q) : k = Len(p) + l BY <1>1, <1>2, <2>2, <4>1
      <4>3. i < l BY <1>3, <2>2, <4>1, <4>2
      <4>4. c[j] = q[i] /\ c[k] = q[l] BY <1>b, <4>1, <4>2
      <4>5. q[i].number < q[l].number BY <2>2, <4>3, <4>4 DEF Ascends
      <4> QED BY <4>4, <4>5
    <3> QED BY <1>1, <3>1, <3>2, <3>3
  <2> QED BY <2>1, <2>2 DEF Ascends
<1>9. ASSUME NEW e PROVE /\ Single(p, e) /\ Absent(q, e) => Single(c, e)
                         /\ Absent(p, e) /\ Single(q, e) => Single(c, e)
                         /\ Single(c, e) => (Single(p, e) /\ Absent(q, e)) \/ (Absent(p, e) /\ Single(q, e))
  <2>1. ASSUME Single(p, e), Absent(q, e) PROVE Single(c, e)
    <3>1. PICK k \in 1 .. Len(p) : p[k] = e /\ \A l \in 1 .. Len(p) : p[l] = e => l = k
      BY <1>1, <2>1 DEF Single
    <3>2. k \in 1 .. Len(c) /\ c[k] = e
      BY <1>1, <3>1
    <3>3. ASSUME NEW l \in 1 .. Len(c), c[l] = e PROVE l = k
      BY <1>1, <1>4, <2>1, <3>1, <3>3 DEF Absent
    <3> QED BY <3>2, <3>3 DEF Single
  <2>2. ASSUME Absent(p, e), Single(q, e) PROVE Single(c, e)
    <3>1. PICK k \in 1 .. Len(q) : q[k] = e /\ \A l \in 1 .. Len(q) : q[l] = e => l = k
      BY <1>1, <2>2 DEF Single
    <3>2. Len(p) + k \in 1 .. Len(c) /\ c[Len(p) + k] = e
      BY <1>1, <3>1
    <3>3. ASSUME NEW l \in 1 .. Len(c), c[l] = e PROVE l = Len(p) + k
      <4>1. ~(l \in 1 .. Len(p) /\ c[l] = p[l]) BY <2>2, <3>3 DEF Absent
      <4>2. PICK i \in 1 .. Len(q) : l = Len(p) + i /\ c[l] = q[i] BY <1>4, <4>1
      <4>3. i = k BY <3>1, <3>3, <4>2
      <4> QED BY <4>2, <4>3
    <3> QED BY <3>2, <3>3 DEF Single
  <2>3. ASSUME Single(c, e) PROVE (Single(p, e) /\ Absent(q, e)) \/ (Absent(p, e) /\ Single(q, e))
    <3>1. PICK k \in 1 .. Len(c) : c[k] = e /\ \A l \in 1 .. Len(c) : c[l] = e => l = k
      BY <2>3 DEF Single
    <3>2. CASE k \in 1 .. Len(p)
      <4>1. Single(p, e) BY <1>1, <3>1, <3>2 DEF Single
      <4>2. Absent(q, e) BY <1>1, <1>2, <3>1, <3>2 DEF Absent
      <4> QED BY <4>1, <4>2
    <3>3. CASE \E l \in 1 .. Len(q) : k = Len(p) + l
      <4>1. PICK l \in 1 .. Len(q) : k = Len(p) + l BY <3>3
      <4>2. Absent(p, e) BY <1>1, <1>2, <3>1, <4>1 DEF Absent
      <4>3. q[l] = e /\ \A i \in 1 .. Len(q) : q[i] = e => i = l
        BY <1>1, <1>3, <3>1, <4>1
      <4> QED BY <4>2, <4>3 DEF Single
    <3> QED BY <1>1, <3>2, <3>3
  <2> QED BY <2>1, <2>2, <2>3
<1> QED BY <1>1, <1>5, <1>6, <1>7, <1>8, <1>9 DEF c

LEMMA SplitFacts ==
  ASSUME NEW q \in Seq(Events), NEW n \in 0 .. Len(q)
  PROVE  /\ SubSeq(q, 1, n) \in Seq(Events) /\ SubSeq(q, n + 1, Len(q)) \in Seq(Events)
         /\ q = SubSeq(q, 1, n) \o SubSeq(q, n + 1, Len(q)) /\ Len(SubSeq(q, 1, n)) = n
<1> DEFINE a == SubSeq(q, 1, n)
           b == SubSeq(q, n + 1, Len(q))
           c == a \o b
<1>1. /\ a \in Seq(Events) /\ Len(a) = n /\ \A k \in 1 .. n : a[k] = q[k]
      /\ Len(q) \in Nat /\ n \in Nat /\ n <= Len(q)
  OBVIOUS
<1>2. b \in Seq(Events) /\ Len(b) = Len(q) - n /\ \A k \in 1 .. Len(q) - n : b[k] = q[n + k]
  BY <1>1
<1> HIDE DEF a, b
<1>3. /\ c \in Seq(Events) /\ Len(c) = Len(a) + Len(b)
      /\ \A k \in 1 .. Len(a) : c[k] = a[k]
      /\ \A k \in 1 .. Len(b) : c[Len(a) + k] = b[k]
      /\ \A k \in 1 .. Len(c) : k \in 1 .. Len(a) \/ \E l \in 1 .. Len(b) : k = Len(a) + l
  BY <1>1, <1>2, ConcatIndexes
<1> HIDE DEF c
<1>4. Len(c) = Len(q)
  BY <1>1, <1>2, <1>3
<1>5. ASSUME NEW k \in 1 .. Len(c) PROVE c[k] = q[k]
  <2>1. CASE k \in 1 .. n
    BY <1>1, <1>3, <2>1
  <2>2. CASE \E l \in 1 .. Len(q) - n : k = n + l
    BY <1>1, <1>2, <1>3, <2>2
  <2> QED BY <1>1, <1>2, <1>3, <2>1, <2>2
<1>6. c = q
  <2>1. c \in [1 .. Len(q) -> Events] /\ q \in [1 .. Len(q) -> Events]
    BY <1>3, <1>4
  <2> QED BY <1>4, <1>5, <2>1
<1> QED BY <1>1, <1>2, <1>6 DEF a, b, c

LEMMA HeadFacts ==
  ASSUME NEW q \in Seq(Events), q # <<>>
  PROVE  /\ Head(q) \in Events /\ Tail(q) \in Seq(Events)
         /\ q = <<Head(q)>> \o Tail(q) /\ <<Head(q)>> \in Seq(Events)
  OBVIOUS

LEMMA AppendFacts ==
  ASSUME NEW q \in Seq(Events), NEW x \in Events
  PROVE  Append(q, x) = q \o <<x>> /\ <<x>> \in Seq(Events) /\ Append(q, x) \in Seq(Events)
  OBVIOUS

LEMMA UnitFacts ==
  ASSUME NEW x \in Events
  PROVE  /\ \A e : Absent(<<x>>, e) <=> x # e
         /\ \A e : Single(<<x>>, e) <=> x = e
         /\ \A s : NoneOf(<<x>>, s) <=> x.session # s
         /\ \A s : Ascends(<<x>>, s)
         /\ \A q, s : Precedes(q, <<x>>, s) <=>
              \A k \in 1 .. Len(q) : q[k].session = s /\ x.session = s => q[k].number < x.number
<1> DEFINE u == <<x>>
<1>1. Len(u) = 1 /\ u[1] = x /\ \A k \in 1 .. 1 : k = 1
  OBVIOUS
<1>2. ~(1 < 1) /\ 1 \in 1 .. 1
  OBVIOUS
<1> HIDE DEF u
<1>3. /\ \A e : Absent(u, e) <=> x # e
      /\ \A e : Single(u, e) <=> x = e
      /\ \A s : NoneOf(u, s) <=> x.session # s
      /\ \A s : Ascends(u, s)
  BY <1>1, <1>2 DEF Absent, Single, NoneOf, Ascends
<1>4. \A q, s : Precedes(q, u, s) <=>
        \A k \in 1 .. Len(q) : q[k].session = s /\ x.session = s => q[k].number < x.number
  BY <1>1, <1>2 DEF Precedes
<1> QED BY <1>3, <1>4 DEF u

LEMMA EmptyFacts ==
  /\ <<>> \in Seq(Events)
  /\ \A e : Absent(<<>>, e) /\ ~Single(<<>>, e)
  /\ \A s : NoneOf(<<>>, s) /\ Ascends(<<>>, s)
  /\ \A q, s : Precedes(<<>>, q, s) /\ Precedes(q, <<>>, s)
<1> DEFINE u == <<>>
<1>1. u \in Seq(Events) /\ 1 .. Len(u) = {}
  OBVIOUS
<1> HIDE DEF u
<1>2. /\ u \in Seq(Events)
      /\ \A e : Absent(u, e) /\ ~Single(u, e)
      /\ \A s : NoneOf(u, s) /\ Ascends(u, s)
      /\ \A q, s : Precedes(u, q, s) /\ Precedes(q, u, s)
  BY <1>1 DEF Absent, Single, NoneOf, Ascends, Precedes
<1> QED BY <1>2 DEF u

LEMMA ChosenFacts ==
  ASSUME NEW q \in Seq(Events), NEW f, NEW some, Chosen(q, Len(q), f, some)
  PROVE  /\ f \in Seq(Events)
         /\ \A k \in 1 .. Len(f) : \E l \in 1 .. Len(q) : f[k] = q[l]
         /\ \A e : Absent(q, e) \/ e.session \notin some => Absent(f, e)
         /\ \A e : Single(q, e) /\ e.session \in some => Single(f, e)
         /\ \A s : NoneOf(q, s) \/ s \notin some => NoneOf(f, s)
         /\ \A s : Ascends(q, s) => Ascends(f, s)
         /\ \A r, s : Precedes(r, q, s) => Precedes(r, f, s)
         /\ \A r, s : Precedes(q, r, s) => Precedes(f, r, s)
<1>1. PICK at :
        /\ at \in [1 .. Len(f) -> 1 .. Len(q)]
        /\ \A j, k \in 1 .. Len(f) : j < k => at[j] < at[k]
        /\ \A j \in 1 .. Len(f) : f[j] = q[at[j]] /\ q[at[j]].session \in some
        /\ \A l \in 1 .. Len(q) : q[l].session \in some => \E j \in 1 .. Len(f) : at[j] = l
  BY DEF Chosen, ChosenAt
<1>2. /\ f \in Seq(Events) /\ Len(f) \in Nat /\ Len(q) \in Nat
      /\ \A k \in 1 .. Len(f) : at[k] \in 1 .. Len(q)
  BY <1>1 DEF Chosen
<1>3. \A k \in 1 .. Len(f) : \E l \in 1 .. Len(q) : f[k] = q[l]
  BY <1>1, <1>2
<1>4. \A e : Absent(q, e) \/ e.session \notin some => Absent(f, e)
  BY <1>1, <1>2 DEF Absent
<1>5. ASSUME NEW e, Single(q, e), e.session \in some PROVE Single(f, e)
  <2>1. PICK l \in 1 .. Len(q) : q[l] = e /\ \A i \in 1 .. Len(q) : q[i] = e => i = l
    BY <1>5 DEF Single
  <2>2. PICK j \in 1 .. Len(f) : at[j] = l
    BY <1>1, <1>5, <2>1
  <2>3. ASSUME NEW k \in 1 .. Len(f), f[k] = e PROVE k = j
    <3>1. at[k] = l BY <1>1, <1>2, <2>1, <2>3
    <3>2. ~(k < j) /\ ~(j < k) BY <1>1, <1>2, <2>1, <2>2, <3>1
    <3> QED BY <1>2, <3>2
  <2> QED BY <1>1, <2>1, <2>2, <2>3 DEF Single
<1>6. \A s : NoneOf(q, s) \/ s \notin some => NoneOf(f, s)
  BY <1>1, <1>2 DEF NoneOf
<1>7. \A s : Ascends(q, s) => Ascends(f, s)
  BY <1>1, <1>2 DEF Ascends
<1>8. \A r, s : Precedes(r, q, s) => Precedes(r, f, s)
  BY <1>3 DEF Precedes
<1>9. \A r, s : Precedes(q, r, s) => Precedes(f, r, s)
  BY <1>3 DEF Precedes
<1> QED BY <1>2, <1>3, <1>4, <1>5, <1>6, <1>7, <1>8, <1>9

LEMMA SplitParts ==
  ASSUME NEW x \in Seq(Events), NEW rest \in Seq(Events), NEW s
  PROVE  Counted(x \o rest, x, rest, s) /\ Ordered(x \o rest, x, rest, s)
<1> DEFINE q == x \o rest
<1>1. /\ \A e : Absent(q, e) => Absent(x, e) /\ Absent(rest, e)
      /\ \A e : Single(q, e) => (Single(x, e) /\ Absent(rest, e)) \/ (Absent(x, e) /\ Single(rest, e))
      /\ Ascends(q, s) => Ascends(x, s) /\ Ascends(rest, s) /\ Precedes(x, rest, s)
      /\ \A p : Precedes(q, p, s) => Precedes(x, p, s) /\ Precedes(rest, p, s)
      /\ \A p : Precedes(p, q, s) => Precedes(p, x, s) /\ Precedes(p, rest, s)
  BY ConcatFacts
<1> HIDE DEF q
<1> QED BY <1>1 DEF Counted, Ordered, q

LEMMA ChosenParts ==
  ASSUME NEW q \in Seq(Events), NEW x, NEW some, Chosen(q, Len(q), x, some), NEW s
  PROVE  Ordered(q, x, <<>>, s) /\ (s \in some => Counted(q, x, <<>>, s))
<1>1. /\ \A e : Absent(q, e) => Absent(x, e)
      /\ \A e : Single(q, e) /\ e.session \in some => Single(x, e)
      /\ Ascends(q, s) => Ascends(x, s)
      /\ \A p : Precedes(p, q, s) => Precedes(p, x, s)
      /\ \A p : Precedes(q, p, s) => Precedes(x, p, s)
  BY ChosenFacts
<1> DEFINE u == <<>>
<1>2. /\ \A e : Absent(u, e)
      /\ Ascends(u, s)
      /\ \A p : Precedes(u, p, s) /\ Precedes(p, u, s)
  BY EmptyFacts
<1> HIDE DEF u
<1> QED BY <1>1, <1>2 DEF Counted, Ordered, u

LEMMA OnceMoves ==
  ASSUME NEW line \in Lines, NEW new \in Lines, NEW b, NEW c, NEW x, Moves(line, new, b, c, x),
         NEW lost, NEW e, Counted(line[b], x, new[b], e.session), Once(line, lost, e)
  PROVE  Once(new, lost, e)
<1>1. /\ b \in PlaceNumbers /\ c \in PlaceNumbers /\ b # c
      /\ x \in Seq(Events) /\ line[c] \in Seq(Events) /\ new[c] = line[c] \o x
      /\ \A a \in PlaceNumbers : a = b \/ a = c \/ new[a] = line[a]
      /\ \A a \in PlaceNumbers \ {b, c} : new[a] = line[a]
  BY DEF Moves, Lines, PlaceNumbers
<1>2. /\ Absent(line[b], e) => Absent(x, e) /\ Absent(new[b], e)
      /\ Single(line[b], e) => (Single(x, e) /\ Absent(new[b], e)) \/ (Absent(x, e) /\ Single(new[b], e))
  BY DEF Counted
<1>3. /\ Absent(line[c], e) /\ Absent(x, e) => Absent(new[c], e)
      /\ Single(line[c], e) /\ Absent(x, e) => Single(new[c], e)
      /\ Absent(line[c], e) /\ Single(x, e) => Single(new[c], e)
  BY <1>1, ConcatFacts
<1>4. CASE Nowhere(line, e)
  <2>1. Nowhere(new, e)
    BY <1>1, <1>2, <1>3, <1>4 DEF Nowhere
  <2>2. \A a \in PlaceNumbers : Absent(line[a], e)
    BY <1>4 DEF Nowhere
  <2>3. \A a \in PlaceNumbers : ~Single(line[a], e)
    BY <2>2 DEF Absent, Single
  <2> QED BY <2>1, <2>3 DEF Once, OnlyAt
<1>5. ASSUME NEW a \in PlaceNumbers, OnlyAt(line, a, e) PROVE \E d \in PlaceNumbers : OnlyAt(new, d, e)
  <2>1. Single(line[a], e) /\ \A d \in PlaceNumbers : d # a => Absent(line[d], e)
    BY <1>5 DEF OnlyAt
  <2>2. CASE a = b /\ Single(x, e) /\ Absent(new[b], e)
    <3>1. Single(new[c], e) BY <1>1, <1>3, <2>1, <2>2
    <3>2. \A d \in PlaceNumbers \ {c} : Absent(new[d], e) BY <1>1, <2>1, <2>2
    <3> QED BY <1>1, <3>1, <3>2 DEF OnlyAt
  <2>3. CASE a = b /\ Absent(x, e) /\ Single(new[b], e)
    <3>1. Absent(new[c], e) BY <1>1, <1>3, <2>1, <2>3
    <3>2. \A d \in PlaceNumbers \ {b} : Absent(new[d], e) BY <1>1, <2>1, <2>3, <3>1
    <3> QED BY <1>1, <2>3, <3>2 DEF OnlyAt
  <2>4. CASE a = c
    <3>1. Absent(x, e) /\ Absent(new[b], e) BY <1>1, <1>2, <2>1, <2>4
    <3>2. Single(new[c], e) BY <1>3, <2>1, <2>4, <3>1
    <3>3. \A d \in PlaceNumbers \ {c} : Absent(new[d], e) BY <1>1, <2>1, <2>4, <3>1
    <3> QED BY <1>1, <3>2, <3>3 DEF OnlyAt
  <2>5. CASE a # b /\ a # c
    <3>1. Absent(x, e) /\ Absent(new[b], e) BY <1>1, <1>2, <2>1, <2>5
    <3>2. Absent(new[c], e) BY <1>1, <1>3, <2>1, <2>5, <3>1
    <3>3. Single(new[a], e) BY <1>1, <2>1, <2>5
    <3>4. \A d \in PlaceNumbers \ {a} : Absent(new[d], e) BY <1>1, <2>1, <3>1, <3>2
    <3> QED BY <3>3, <3>4 DEF OnlyAt
  <2> QED BY <1>2, <2>1, <2>2, <2>3, <2>4, <2>5
<1> QED BY <1>4, <1>5 DEF Once

LEMMA SortedMoves ==
  ASSUME NEW line \in Lines, NEW new \in Lines, NEW b, NEW c, NEW x, Moves(line, new, b, c, x),
         NEW s, Ordered(line[b], x, new[b], s), Sorted(line, s),
         \A a \in PlaceNumbers : b < a /\ a < c => NoneOf(line[a], s)
  PROVE  Sorted(new, s)
<1>1. /\ b \in PlaceNumbers /\ c \in PlaceNumbers /\ b < c /\ b # c
      /\ x \in Seq(Events) /\ line[c] \in Seq(Events) /\ new[c] = line[c] \o x
      /\ \A a \in PlaceNumbers : a = b \/ a = c \/ new[a] = line[a]
      /\ \A a \in PlaceNumbers \ {b, c} : new[a] = line[a]
  BY DEF Moves, Lines, PlaceNumbers
<1>2. /\ Ascends(x, s) /\ Ascends(new[b], s) /\ Precedes(x, new[b], s)
      /\ \A p : Precedes(p, line[b], s) => Precedes(p, x, s) /\ Precedes(p, new[b], s)
      /\ \A p : Precedes(line[b], p, s) => Precedes(x, p, s) /\ Precedes(new[b], p, s)
  BY <1>1 DEF Ordered, Sorted
<1>3. /\ Ascends(line[c], s) /\ Precedes(line[c], x, s) => Ascends(new[c], s)
      /\ \A p : Precedes(line[c], p, s) /\ Precedes(x, p, s) => Precedes(new[c], p, s)
      /\ \A p : Precedes(p, line[c], s) /\ Precedes(p, x, s) => Precedes(p, new[c], s)
  BY <1>1, <1>2, ConcatFacts
<1>4. /\ \A a \in PlaceNumbers : Ascends(line[a], s)
      /\ \A a, d \in PlaceNumbers : a < d => Precedes(line[d], line[a], s)
  BY DEF Sorted
<1>5. Precedes(line[c], x, s) /\ Precedes(line[c], new[b], s)
  BY <1>1, <1>2, <1>4
<1>6. Ascends(new[c], s) /\ Precedes(new[c], new[b], s)
  BY <1>1, <1>2, <1>3, <1>4, <1>5
<1>7. \A a \in PlaceNumbers : Ascends(new[a], s)
  BY <1>1, <1>2, <1>4, <1>6
<1>8. \A a \in PlaceNumbers : NoneOf(line[a], s) => \A p : Precedes(p, line[a], s) /\ Precedes(line[a], p, s)
  BY DEF NoneOf, Precedes
<1>9. ASSUME NEW a \in PlaceNumbers, NEW d \in PlaceNumbers, a < d PROVE Precedes(new[d], new[a], s)
  <2>0. a # d /\ a \in Int /\ b \in Int /\ c \in Int /\ d \in Int BY <1>1, <1>9 DEF PlaceNumbers
  <2>1. CASE a # b /\ a # c /\ d # b /\ d # c
    BY <1>1, <1>4, <1>9, <2>1
  <2>2. CASE d = b
    <3>1. a # b /\ a # c BY <1>1, <1>9, <2>0, <2>2
    <3> QED BY <1>1, <1>2, <1>4, <1>9, <2>2, <3>1
  <2>3. CASE d = c /\ a = b
    BY <1>6, <2>3
  <2>4. CASE d = c /\ a # b
    <3>1. Precedes(line[c], line[a], s) /\ new[a] = line[a] BY <1>1, <1>4, <1>9, <2>0, <2>4
    <3>2. Precedes(x, line[a], s)
      <4>1. CASE a < b BY <1>1, <1>2, <1>4, <4>1
      <4>2. CASE b < a BY <1>8, <1>9, <2>4, <4>2
      <4> QED BY <2>0, <2>4, <4>1, <4>2
    <3> QED BY <1>3, <2>4, <3>1, <3>2
  <2>5. CASE a = b /\ d # c
    <3>1. Precedes(line[d], line[b], s) /\ new[d] = line[d] BY <1>1, <1>4, <1>9, <2>0, <2>5
    <3> QED BY <1>2, <2>5, <3>1
  <2>6. CASE a = c
    <3>1. d # b /\ d # c /\ b < d BY <1>1, <1>9, <2>0, <2>6
    <3>2. Precedes(line[d], line[c], s) /\ Precedes(line[d], line[b], s) /\ new[d] = line[d]
      BY <1>1, <1>4, <1>9, <2>6, <3>1
    <3> QED BY <1>2, <1>3, <2>6, <3>2
  <2> QED BY <2>1, <2>2, <2>3, <2>4, <2>5, <2>6
<1> QED BY <1>7, <1>9 DEF Sorted

(* Some places are emptied and what they held is spilled, under the calls h. *)
SpillsAt(line, new, hit, h, lost, after) ==
  /\ hit \in SUBSET PlaceNumbers
  /\ \A a \in PlaceNumbers : new[a] = IF a \in hit THEN <<>> ELSE line[a]
  /\ \A y : y \in after <=>
       y \in lost \/ \E a \in hit : \E k \in 1 .. Len(line[a]) : y = [event |-> line[a][k], for |-> h[a]]

LEMMA OnceSpills ==
  ASSUME NEW line \in Lines, NEW new \in Lines, NEW hit, NEW h, NEW lost, NEW after,
         SpillsAt(line, new, hit, h, lost, after), NEW e, Once(line, lost, e)
  PROVE  Once(new, after, e)
<1> USE DEF SpillsAt
<1>1. \A a \in PlaceNumbers : a \in hit => Absent(new[a], e)
  BY EmptyFacts
<1>2. \A a \in PlaceNumbers : Absent(line[a], e) => Absent(new[a], e)
  BY <1>1
<1>3. \A y \in after : y.event = e => y \in lost \/ \E a \in hit : ~Absent(line[a], e) /\ y.for = h[a]
  BY DEF Absent
<1>4. CASE Nowhere(line, e) /\ SpilledOnce(lost, e)
  <2>1. Nowhere(new, e) BY <1>2, <1>4 DEF Nowhere
  <2>2. PICK x : SpilledAs(lost, e, x) BY <1>4 DEF SpilledOnce
  <2>3. \A a \in hit : Absent(line[a], e) BY <1>4 DEF Nowhere
  <2>4. SpilledAs(after, e, x) BY <1>3, <2>2, <2>3 DEF SpilledAs
  <2> QED BY <2>1, <2>2, <2>4 DEF Once, SpilledOnce, SpilledAs
<1>5. ASSUME NEW b \in PlaceNumbers, OnlyAt(line, b, e), Unspilled(lost, e), b \notin hit PROVE Once(new, after, e)
  <2>1. Single(line[b], e) /\ \A d \in PlaceNumbers : d # b => Absent(line[d], e)
    BY <1>5 DEF OnlyAt
  <2>2. OnlyAt(new, b, e) BY <1>2, <1>5, <2>1 DEF OnlyAt
  <2>3. \A a \in hit : Absent(line[a], e) BY <1>5, <2>1
  <2>4. Unspilled(after, e) BY <1>3, <1>5, <2>3 DEF Unspilled
  <2> QED BY <2>2, <2>4 DEF Once
<1>6. ASSUME NEW b \in PlaceNumbers, OnlyAt(line, b, e), Unspilled(lost, e), b \in hit PROVE Once(new, after, e)
  <2>1. Single(line[b], e) /\ \A d \in PlaceNumbers : d # b => Absent(line[d], e)
    BY <1>6 DEF OnlyAt
  <2>2. Nowhere(new, e)
    <3> SUFFICES ASSUME NEW a \in PlaceNumbers PROVE Absent(new[a], e) BY DEF Nowhere
    <3> QED BY <1>1, <1>2, <1>6, <2>1
  <2>3. PICK k \in 1 .. Len(line[b]) : line[b][k] = e BY <2>1 DEF Single
  <2> DEFINE x == [event |-> e, for |-> h[b]]
  <2>4. x \in after /\ x.event = e BY <1>6, <2>3
  <2>5. ASSUME NEW y \in after, y.event = e PROVE y = x
    <3>1. y \notin lost BY <1>6, <2>5 DEF Unspilled
    <3>2. PICK a \in hit : \E l \in 1 .. Len(line[a]) : y = [event |-> line[a][l], for |-> h[a]]
      BY <2>5, <3>1
    <3>3. PICK l \in 1 .. Len(line[a]) : y = [event |-> line[a][l], for |-> h[a]] BY <3>2
    <3>4. line[a][l] = e BY <2>5, <3>3
    <3>5. a = b BY <2>1, <3>4 DEF Absent
    <3> QED BY <3>3, <3>4, <3>5
  <2> HIDE DEF x
  <2>6. SpilledAs(after, e, x) BY <2>4, <2>5 DEF SpilledAs
  <2> QED BY <2>2, <2>4, <2>6 DEF Once, SpilledOnce
<1> QED BY <1>4, <1>5, <1>6 DEF Once

LEMMA SortedThins ==
  ASSUME NEW line \in Lines, NEW new \in Lines, NEW s, Sorted(line, s),
         \A a \in PlaceNumbers : new[a] = <<>> \/ new[a] = line[a]
  PROVE  Sorted(new, s)
<1>1. \A a \in PlaceNumbers : Ascends(new[a], s)
  BY EmptyFacts DEF Sorted
<1>2. \A a, d \in PlaceNumbers : a < d => Precedes(new[d], new[a], s)
  BY EmptyFacts DEF Sorted
<1> QED BY <1>1, <1>2 DEF Sorted

(* The peer sends an event x that it has not sent before.                  *)
LEMMA OnceArrives ==
  ASSUME NEW line \in Lines, NEW new \in Lines, NEW x \in Events, NEW lost, NEW e,
         new[0] = Append(line[0], x), \A a \in PlaceNumbers \ {0} : new[a] = line[a],
         \/ x # e /\ Once(line, lost, e)
         \/ x = e /\ Nowhere(line, e) /\ Unspilled(lost, e)
  PROVE  Once(new, lost, e)
<1>1. /\ 0 \in PlaceNumbers /\ line[0] \in Seq(Events) /\ new[0] = line[0] \o <<x>> /\ <<x>> \in Seq(Events)
      /\ \A a \in PlaceNumbers : a # 0 => new[a] = line[a]
  BY AppendFacts, RoutingAssumption DEF Lines, PlaceNumbers
<1> DEFINE u == <<x>>
<1>2. /\ Absent(u, e) <=> x # e
      /\ Single(u, e) <=> x = e
  BY UnitFacts
<1>3. /\ Absent(line[0], e) /\ Absent(u, e) => Absent(new[0], e)
      /\ Single(line[0], e) /\ Absent(u, e) => Single(new[0], e)
      /\ Absent(line[0], e) /\ Single(u, e) => Single(new[0], e)
  BY <1>1, ConcatFacts
<1> HIDE DEF u
<1>4. CASE x = e /\ Nowhere(line, e) /\ Unspilled(lost, e)
  <2>1. OnlyAt(new, 0, e) BY <1>1, <1>2, <1>3, <1>4 DEF Nowhere, OnlyAt
  <2> QED BY <1>1, <1>4, <2>1 DEF Once
<1>5. CASE x # e /\ Nowhere(line, e) /\ SpilledOnce(lost, e)
  <2>1. Nowhere(new, e) BY <1>1, <1>2, <1>3, <1>5 DEF Nowhere
  <2> QED BY <1>5, <2>1 DEF Once
<1>6. ASSUME x # e, NEW b \in PlaceNumbers, OnlyAt(line, b, e), Unspilled(lost, e) PROVE Once(new, lost, e)
  <2>1. OnlyAt(new, b, e)
    <3>1. CASE b = 0 BY <1>1, <1>2, <1>3, <1>6, <3>1 DEF OnlyAt
    <3>2. CASE b # 0 BY <1>1, <1>2, <1>3, <1>6, <3>2 DEF OnlyAt
    <3> QED BY <3>1, <3>2
  <2> QED BY <1>6, <2>1 DEF Once
<1> QED BY <1>4, <1>5, <1>6 DEF Once

LEMMA SortedArrives ==
  ASSUME NEW line \in Lines, NEW new \in Lines, NEW x \in Events, NEW s,
         new[0] = Append(line[0], x), \A a \in PlaceNumbers \ {0} : new[a] = line[a],
         Sorted(line, s),
         x.session = s => \A a \in PlaceNumbers : \A k \in 1 .. Len(line[a]) :
                            line[a][k].session = s => line[a][k].number < x.number
  PROVE  Sorted(new, s)
<1>1. /\ 0 \in PlaceNumbers /\ line[0] \in Seq(Events) /\ new[0] = line[0] \o <<x>> /\ <<x>> \in Seq(Events)
      /\ \A a \in PlaceNumbers : a # 0 => new[a] = line[a]
  BY AppendFacts, RoutingAssumption DEF Lines, PlaceNumbers
<1> DEFINE u == <<x>>
<1>2. /\ Ascends(u, s)
      /\ \A q : Precedes(q, u, s) <=>
           \A k \in 1 .. Len(q) : q[k].session = s /\ x.session = s => q[k].number < x.number
  BY UnitFacts
<1>a. u \in Seq(Events) /\ line[0] \in Seq(Events) /\ new[0] = line[0] \o u
  BY <1>1
<1> HIDE DEF u
<1>b. /\ Ascends(line[0] \o u, s) <=> Ascends(line[0], s) /\ Ascends(u, s) /\ Precedes(line[0], u, s)
      /\ \A p : Precedes(p, line[0] \o u, s) <=> Precedes(p, line[0], s) /\ Precedes(p, u, s)
  BY <1>a, ConcatFacts
<1>3. /\ Ascends(line[0], s) /\ Ascends(u, s) /\ Precedes(line[0], u, s) => Ascends(new[0], s)
      /\ \A p : Precedes(p, line[0], s) /\ Precedes(p, u, s) => Precedes(p, new[0], s)
  BY <1>a, <1>b
<1>4. \A a \in PlaceNumbers : Precedes(line[a], u, s)
  BY <1>2
<1>5. \A a \in PlaceNumbers : Ascends(new[a], s)
  BY <1>1, <1>2, <1>3, <1>4 DEF Sorted
<1>6. ASSUME NEW a \in PlaceNumbers, NEW d \in PlaceNumbers, a < d PROVE Precedes(new[d], new[a], s)
  <2>1. d # 0 /\ Precedes(line[d], line[a], s) BY <1>6 DEF PlaceNumbers, Sorted
  <2>2. CASE a = 0 BY <1>1, <1>3, <1>4, <2>1, <2>2
  <2>3. CASE a # 0 BY <1>1, <2>1, <2>3
  <2> QED BY <2>2, <2>3
<1> QED BY <1>5, <1>6 DEF Sorted

-----------------------------------------------------------------------------
(***************************************************************************)
(* What the invariant says of the places                                   *)
(***************************************************************************)
LineOf(line, ws, qs, ds, ps, s) ==
  /\ line \in Lines
  /\ line[0] = ws[s] /\ line[MaxPolls + 1] = qs[s] /\ line[MaxPolls + 2] = ds[s]
  /\ \A i \in 1 .. MaxPolls : line[i] = Held(ps, i) /\ i \in PlaceNumbers
  /\ \A i \in 1 .. MaxPolls : Held(ps, i) \in Seq(Events)
  /\ {0, MaxPolls + 1, MaxPolls + 2} \subseteq PlaceNumbers
  /\ \A b \in PlaceNumbers : b = 0 \/ b \in 1 .. MaxPolls \/ b = MaxPolls + 1 \/ b = MaxPolls + 2

LEMMA LineFacts ==
  ASSUME NEW ws \in [Sessions -> Seq(Events)], NEW qs \in [Sessions -> Seq(Events)],
         NEW ds \in [Sessions -> Seq(Events)], NEW ps \in [1 .. MaxPolls -> Poll \cup {Nobody}],
         NEW s \in Sessions
  PROVE  LineOf(Line(ws, qs, ds, ps, s), ws, qs, ds, ps, s)
<1>1. MaxPolls \in Nat /\ MaxPolls # 0
  BY RoutingAssumption
<1>2. ASSUME NEW i \in 1 .. MaxPolls PROVE Held(ps, i) \in Seq(Events)
  <2>1. CASE ps[i] = Nobody BY <2>1 DEF Held
  <2>2. CASE ps[i] # Nobody
    <3>1. ps[i] \in Poll BY <2>2
    <3>2. ps[i].batch \in Seq(Events) /\ ps[i].fresh \in Seq(Events) BY <3>1 DEF Poll
    <3>3. ps[i].batch \o ps[i].fresh \in Seq(Events) BY <3>2
    <3> QED BY <2>2, <3>3 DEF Held, Holding
  <2> QED BY <2>1, <2>2
<1>3. \A b \in PlaceNumbers : b = 0 \/ b \in 1 .. MaxPolls \/ b = MaxPolls + 1 \/ b = MaxPolls + 2
  BY <1>1 DEF PlaceNumbers
<1>4. /\ {0, MaxPolls + 1, MaxPolls + 2} \subseteq PlaceNumbers
      /\ \A i \in 1 .. MaxPolls : i \in PlaceNumbers /\ i # 0 /\ i # MaxPolls + 1 /\ i # MaxPolls + 2
      /\ MaxPolls + 1 # 0 /\ MaxPolls + 2 # 0 /\ MaxPolls + 2 # MaxPolls + 1
  BY <1>1 DEF PlaceNumbers
<1>5. Line(ws, qs, ds, ps, s) \in Lines
  BY <1>2, <1>3 DEF Line, Lines
<1>6. /\ Line(ws, qs, ds, ps, s)[0] = ws[s]
      /\ Line(ws, qs, ds, ps, s)[MaxPolls + 1] = qs[s]
      /\ Line(ws, qs, ds, ps, s)[MaxPolls + 2] = ds[s]
      /\ \A i \in 1 .. MaxPolls : Line(ws, qs, ds, ps, s)[i] = Held(ps, i)
  BY <1>4 DEF Line
<1> QED BY <1>2, <1>3, <1>4, <1>5, <1>6 DEF LineOf

LEMMA InOnePlace ==
  ASSUME RoutingTypeOK, NEW s \in Sessions, NEW n \in Nat,
         Once(Line(wire, queues, delivered, polls, s), spilled, EventOf(s, n))
  PROVE  Cardinality(Places(EventOf(s, n))) = 1
<1> DEFINE e == EventOf(s, n)
           At(q) == {k \in DOMAIN q : q[k] = e}
           W == {"wire"} \X At(wire[s])
           Q == {"queue"} \X At(queues[s])
           D == {"caller"} \X At(delivered[s])
           InPolls == UNION {{"poll"} \X {i} \X At(Holding(polls[i])) : i \in UnderWay}
           X == {"spilled"} \X {x \in spilled : x.event = e}
           line == Line(wire, queues, delivered, polls, s)
<1>1. /\ wire \in [Sessions -> Seq(Events)] /\ queues \in [Sessions -> Seq(Events)]
      /\ delivered \in [Sessions -> Seq(Events)] /\ polls \in [1 .. MaxPolls -> Poll \cup {Nobody}]
  BY DEF RoutingTypeOK
<1>2. /\ line \in Lines
      /\ line[0] = wire[s] /\ line[MaxPolls + 1] = queues[s] /\ line[MaxPolls + 2] = delivered[s]
      /\ \A i \in 1 .. MaxPolls : line[i] = Held(polls, i) /\ i \in PlaceNumbers
      /\ \A i \in 1 .. MaxPolls : Held(polls, i) \in Seq(Events)
      /\ {0, MaxPolls + 1, MaxPolls + 2} \subseteq PlaceNumbers
      /\ \A b \in PlaceNumbers : b = 0 \/ b \in 1 .. MaxPolls \/ b = MaxPolls + 1 \/ b = MaxPolls + 2
  <2>1. LineOf(line, wire, queues, delivered, polls, s) BY <1>1, LineFacts
  <2> HIDE DEF line
  <2> QED BY <2>1 DEF LineOf
<1>3. e.session = s /\ Once(line, spilled, e)
  BY DEF EventOf
<1>4. Places(e) = W \cup Q \cup D \cup InPolls \cup X
  BY <1>3 DEF Places
<1> HIDE DEF e, line
<1>5. ASSUME NEW q \in Seq(Events)
      PROVE  (Absent(q, e) => At(q) = {}) /\ (Single(q, e) => \E k : At(q) = {k})
  <2>1. DOMAIN q = 1 .. Len(q) OBVIOUS
  <2>2. Absent(q, e) => At(q) = {} BY <2>1 DEF Absent
  <2>3. ASSUME Single(q, e) PROVE \E k : At(q) = {k}
    <3>1. PICK k \in 1 .. Len(q) : q[k] = e /\ \A l \in 1 .. Len(q) : q[l] = e => l = k
      BY <2>3 DEF Single
    <3>2. At(q) = {k} BY <2>1, <3>1
    <3> QED BY <3>2
  <2> QED BY <2>2, <2>3
<1>6. UnderWay \subseteq 1 .. MaxPolls /\ \A i \in UnderWay : Held(polls, i) = Holding(polls[i])
  BY <1>1 DEF UnderWay, Held
<1>61. \A i \in 1 .. MaxPolls : i \notin UnderWay => Held(polls, i) = <<>>
  BY <1>1 DEF UnderWay, Held
<1> HIDE DEF At
<1>7. Absent(line[0], e) => W = {}
  BY <1>1, <1>2, <1>5
<1>8. Absent(line[MaxPolls + 1], e) => Q = {}
  BY <1>1, <1>2, <1>5
<1>9. Absent(line[MaxPolls + 2], e) => D = {}
  BY <1>1, <1>2, <1>5
<1>10. (\A i \in 1 .. MaxPolls : Absent(line[i], e)) => InPolls = {}
  BY <1>2, <1>5, <1>6
<1>11. Unspilled(spilled, e) => X = {}
  BY DEF Unspilled
<1> HIDE DEF W, Q, D, InPolls, X
<1>12. \E p : Places(e) = {p}
  <2>1. CASE Nowhere(line, e) /\ SpilledOnce(spilled, e)
    <3>1. W = {} /\ Q = {} /\ D = {} /\ InPolls = {}
      BY <1>2, <1>7, <1>8, <1>9, <1>10, <2>1 DEF Nowhere
    <3>2. PICK x : SpilledAs(spilled, e, x) BY <2>1 DEF SpilledOnce
    <3>3. {y \in spilled : y.event = e} = {x} BY <3>2 DEF SpilledAs
    <3>4. X = {<<"spilled", x>>} BY <3>3 DEF X
    <3> QED BY <1>4, <3>1, <3>4
  <2>2. ASSUME NEW b \in PlaceNumbers, OnlyAt(line, b, e), Unspilled(spilled, e) PROVE \E p : Places(e) = {p}
    <3>1. Single(line[b], e) /\ \A c \in PlaceNumbers : c # b => Absent(line[c], e)
      BY <2>2 DEF OnlyAt
    <3>2. X = {} BY <1>11, <2>2
    <3>3. MaxPolls \in Nat BY RoutingAssumption
    <3>4. CASE b = 0
      <4>1. Q = {} /\ D = {} /\ InPolls = {} BY <1>2, <1>8, <1>9, <1>10, <3>1, <3>3, <3>4
      <4>2. PICK k : At(wire[s]) = {k} BY <1>1, <1>2, <1>5, <3>1, <3>4
      <4>3. W = {<<"wire", k>>} BY <4>2 DEF W
      <4> QED BY <1>4, <3>2, <4>1, <4>3
    <3>5. CASE b = MaxPolls + 1
      <4>1. W = {} /\ D = {} /\ InPolls = {} BY <1>2, <1>7, <1>9, <1>10, <3>1, <3>3, <3>5
      <4>2. PICK k : At(queues[s]) = {k} BY <1>1, <1>2, <1>5, <3>1, <3>5
      <4>3. Q = {<<"queue", k>>} BY <4>2 DEF Q
      <4> QED BY <1>4, <3>2, <4>1, <4>3
    <3>6. CASE b = MaxPolls + 2
      <4>1. W = {} /\ Q = {} /\ InPolls = {} BY <1>2, <1>7, <1>8, <1>10, <3>1, <3>3, <3>6
      <4>2. PICK k : At(delivered[s]) = {k} BY <1>1, <1>2, <1>5, <3>1, <3>6
      <4>3. D = {<<"caller", k>>} BY <4>2 DEF D
      <4> QED BY <1>4, <3>2, <4>1, <4>3
    <3>7. CASE b \in 1 .. MaxPolls
      <4>1. W = {} /\ Q = {} /\ D = {} BY <1>2, <1>7, <1>8, <1>9, <3>1, <3>3, <3>7
      <4>2. Single(Held(polls, b), e) BY <1>2, <3>1, <3>7
      <4>3. b \in UnderWay BY <1>61, <3>7, <4>2, EmptyFacts
      <4>4. PICK k : At(Held(polls, b)) = {k} BY <1>2, <1>5, <3>7, <4>2
      <4>5. \A i \in UnderWay : i # b => At(Holding(polls[i])) = {} BY <1>2, <1>5, <1>6, <3>1
      <4>6. InPolls = {<<"poll", b, k>>} BY <1>6, <4>3, <4>4, <4>5 DEF InPolls
      <4> QED BY <1>4, <3>2, <4>1, <4>6
    <3> QED BY <1>2, <3>4, <3>5, <3>6, <3>7
  <2> QED BY <1>3, <2>1, <2>2 DEF Once
<1>13. PICK p : Places(e) = {p}
  BY <1>12
<1> QED BY <1>13, FS_Singleton DEF e

LEMMA NotAmong ==
  ASSUME NEW q \in Seq(Events), NEW e, NoneOf(q, e.session)
  PROVE  e \notin ToSet(q)
<1>1. DOMAIN q = 1 .. Len(q)
  OBVIOUS
<1> QED BY <1>1 DEF NoneOf, ToSet

LEMMA InvAccounts == IInv => EveryEventAccounted
<1> SUFFICES ASSUME IInv PROVE EveryEventAccounted
  OBVIOUS
<1>1. RoutingTypeOK
  BY DEF IInv, Shape
<1>2. ASSUME NEW s \in Sessions, session[s] = "open"
      PROVE  /\ mapped[WireId[s]] = s
             /\ \A n \in 1 .. arrived[s] : Cardinality(Places(EventOf(s, n))) = 1 /\ ~Astray(EventOf(s, n))
  <2>1. mapped[WireId[s]] = s
    BY <1>2 DEF IInv, Shape, RoutesInv
  <2>2. ASSUME NEW n \in 1 .. arrived[s] PROVE Cardinality(Places(EventOf(s, n))) = 1 /\ ~Astray(EventOf(s, n))
    <3>1. n \in Nat BY <1>1 DEF RoutingTypeOK
    <3>2. Once(Line(wire, queues, delivered, polls, s), spilled, EventOf(s, n))
      BY <1>2 DEF IInv, Content, OnceInv, OnceOf
    <3>3. Cardinality(Places(EventOf(s, n))) = 1 BY <1>1, <3>1, <3>2, InOnePlace
    <3> DEFINE e == EventOf(s, n)
    <3>4. e.session = s BY DEF EventOf
    <3> HIDE DEF e
    <3>5. \A t \in Sessions \ {s} : e \notin ToSet(wire[t]) /\ e \notin ToSet(queues[t]) /\ e \notin ToSet(delivered[t])
      <4> SUFFICES ASSUME NEW t \in Sessions \ {s}
                   PROVE e \notin ToSet(wire[t]) /\ e \notin ToSet(queues[t]) /\ e \notin ToSet(delivered[t])
        OBVIOUS
      <4>1. wire[t] \in Seq(Events) /\ queues[t] \in Seq(Events) /\ delivered[t] \in Seq(Events)
        BY <1>1 DEF RoutingTypeOK
      <4>2. NoneOf(wire[t], s) /\ NoneOf(queues[t], s) /\ NoneOf(delivered[t], s)
        BY <1>2 DEF IInv, Content, SentInv, AtHomeInv, SentOf, AtHomeOf
      <4> QED BY <3>4, <4>1, <4>2, NotAmong
    <3>6. ASSUME NEW id \in Ids PROVE e \notin ToSet(unclaimed[id])
      <4>1. unclaimed[id] \in Seq(Events) BY <1>1 DEF RoutingTypeOK
      <4>2. NoneOf(unclaimed[id], s) BY <1>2 DEF IInv, Content, AtHomeInv, AtHomeOf
      <4> QED BY <3>4, <4>1, <4>2, NotAmong
    <3>7. ~Astray(e) BY <3>4, <3>5, <3>6 DEF Astray
    <3> QED BY <3>3, <3>7 DEF e
  <2> QED BY <2>1, <2>2
<1> QED BY <1>1, <1>2 DEF EveryEventAccounted

LEMMA InvSorts == IInv => OneReaderKeepsOrder
<1> SUFFICES ASSUME IInv, ~overlapped, NEW s \in Sessions PROVE Ascends(delivered[s] \o queues[s], s)
  <2> SUFFICES ASSUME IInv, ~overlapped, NEW s \in Sessions
               PROVE  LET got == delivered[s] \o queues[s]
                          own == {k \in DOMAIN got : got[k].session = s}
                      IN \A j, k \in own : j < k => got[j].number < got[k].number
    BY DEF OneReaderKeepsOrder
  <2> DEFINE got == delivered[s] \o queues[s]
  <2>1. delivered[s] \in Seq(Events) /\ queues[s] \in Seq(Events)
    BY DEF IInv, Shape, RoutingTypeOK
  <2>2. got \in Seq(Events) BY <2>1
  <2>3. DOMAIN got = 1 .. Len(got) BY <2>2
  <2>4. Ascends(got, s) OBVIOUS
  <2> HIDE DEF got
  <2> QED BY <2>3, <2>4 DEF Ascends, got
<1>1. /\ wire \in [Sessions -> Seq(Events)] /\ queues \in [Sessions -> Seq(Events)]
      /\ delivered \in [Sessions -> Seq(Events)] /\ polls \in [1 .. MaxPolls -> Poll \cup {Nobody}]
  BY DEF IInv, Shape, RoutingTypeOK
<1> DEFINE line == Line(wire, queues, delivered, polls, s)
<1>2. LineOf(line, wire, queues, delivered, polls, s)
  BY <1>1, LineFacts
<1>3. Sorted(line, s)
  BY DEF IInv, Content, SortedInv, SortedOf
<1> HIDE DEF line
<1>4. MaxPolls + 1 < MaxPolls + 2
  BY RoutingAssumption
<1>5. Ascends(delivered[s], s) /\ Ascends(queues[s], s) /\ Precedes(delivered[s], queues[s], s)
  BY <1>2, <1>3, <1>4 DEF LineOf, Sorted
<1> QED BY <1>1, <1>5, ConcatFacts

LEMMA InitInv == RoutingInit => IInv
<1> SUFFICES ASSUME RoutingInit PROVE IInv
  OBVIOUS
<1> USE DEF RoutingInit
<1>0. MaxPolls \in Nat /\ MaxPolls # 0 /\ \A s \in Sessions : s # Nobody /\ WireId[s] \in Ids
  BY RoutingAssumption DEF Ids
<1>1. UnderWay = {}
  BY DEF UnderWay
<1>2. RoutingTypeOK
  <2>1. opened \in Seq(Sessions) /\ IsInjective(opened) /\ ToSet(opened) = {}
    BY DEF IsInjective, ToSet
  <2>2. [s \in Sessions |-> <<>>] \in [Sessions -> Seq(Events)]
    OBVIOUS
  <2>3. ToSet(opened) = {s \in Sessions : session[s] # "new"}
    BY <2>1
  <2>4. {wire, queues, delivered} \subseteq [Sessions -> Seq(Events)]
    BY <2>2
  <2>5. unclaimed \in [Ids -> Seq(Events)]
    OBVIOUS
  <2>6. /\ session \in [Sessions -> {"new", "opening", "open", "closing", "closed", "failed"}]
        /\ mapped \in [Ids -> Sessions \cup {Nobody}]
        /\ asking \in [Readers -> Limit \cup {Nobody}]
        /\ polls \in [1 .. MaxPolls -> Poll \cup {Nobody}]
        /\ arrived \in [Sessions -> Nat]
        /\ spilled \subseteq [event : Events, for : Sessions]
        /\ overlapped \in BOOLEAN
    OBVIOUS
  <2> QED BY <1>1, <2>1, <2>3, <2>4, <2>5, <2>6 DEF RoutingTypeOK
<1>3. PollsInv
  BY <1>1 DEF PollsInv
<1>4. RoutesInv
  BY DEF RoutesInv
<1>5. ASSUME NEW s \in Sessions, NEW b \in PlaceNumbers PROVE Line(wire, queues, delivered, polls, s)[b] = <<>>
  <2>1. b = 0 \/ b \in 1 .. MaxPolls \/ b = MaxPolls + 1 \/ b = MaxPolls + 2
    BY <1>0 DEF PlaceNumbers
  <2>2. wire[s] = <<>> /\ queues[s] = <<>> /\ delivered[s] = <<>>
    OBVIOUS
  <2>3. ASSUME b \in 1 .. MaxPolls PROVE Held(polls, b) = <<>>
    BY <2>3 DEF Held
  <2> QED BY <2>1, <2>2, <2>3 DEF Line
<1>6. SentInv
  <2> DEFINE u == <<>>
  <2>1. \A sent, t : AllSent(u, sent) /\ NoneOf(u, t)
    BY EmptyFacts DEF AllSent
  <2>2. \A s \in Sessions, b \in PlaceNumbers : Line(wire, queues, delivered, polls, s)[b] = u
    BY <1>5
  <2>3. (\A s \in Sessions : wire[s] = u) /\ (\A id \in Ids : unclaimed[id] = u) /\ spilled = {}
    OBVIOUS
  <2> HIDE DEF u, RoutingInit
  <2> QED BY <2>1, <2>2, <2>3 DEF SentInv, SentOf
<1>7. AtHomeInv /\ OnceInv
  BY DEF AtHomeInv, OnceInv, AtHomeOf, OnceOf
<1>8. SortedInv
  <2> SUFFICES ASSUME NEW s \in Sessions PROVE Sorted(Line(wire, queues, delivered, polls, s), s)
    BY DEF SortedInv, SortedOf
  <2>1. \A b \in PlaceNumbers : Line(wire, queues, delivered, polls, s)[b] = <<>> BY <1>5
  <2> QED BY <2>1, EmptyFacts DEF Sorted
<1> QED BY <1>2, <1>3, <1>4, <1>6, <1>7, <1>8 DEF IInv, Shape, Content

-----------------------------------------------------------------------------
(***************************************************************************)
(* The sessions, the routes and the polls                                  *)
(***************************************************************************)
States == {"new", "opening", "open", "closing", "closed", "failed"}

Basic ==
  /\ session \in [Sessions -> States]
  /\ opened \in Seq(Sessions)
  /\ \A j, k \in 1 .. Len(opened) : opened[j] = opened[k] => j = k
  /\ \A s \in Sessions : session[s] # "new" <=> \E j \in 1 .. Len(opened) : opened[j] = s
  /\ mapped \in [Ids -> Sessions \cup {Nobody}]
  /\ asking \in [Readers -> Limit \cup {Nobody}]
  /\ arrived \in [Sessions -> Nat]
  /\ spilled \subseteq [event : Events, for : Sessions]
  /\ overlapped \in BOOLEAN

Queues ==
  /\ wire \in [Sessions -> Seq(Events)]
  /\ queues \in [Sessions -> Seq(Events)]
  /\ delivered \in [Sessions -> Seq(Events)]
  /\ unclaimed \in [Ids -> Seq(Events)]

GoodPoll(p, state, order, calls) ==
  /\ p.at \in 1 .. Len(order)
  /\ Len(Holding(p)) <= MaxEvents
  /\ p.reader # Nobody => calls[p.reader] # Nobody
  /\ p.stage # "taken" => p.fresh = <<>>
  /\ state[order[p.at]] = "opening" => p.stage = "opening"

GoodPolls(ps, state, order, calls) ==
  /\ ps \in [1 .. MaxPolls -> Poll \cup {Nobody}]
  /\ \A i \in 1 .. MaxPolls : ps[i] # Nobody => GoodPoll(ps[i], state, order, calls)

Apart(ps, over) ==
  \A i, j \in 1 .. MaxPolls :
    \/ i = j \/ ps[i] = Nobody \/ ps[j] = Nobody
    \/ over /\ (ps[i].reader = Nobody \/ ps[i].reader # ps[j].reader)

LEMMA ShapeParts ==
  ASSUME Shape
  PROVE  Basic /\ Queues /\ GoodPolls(polls, session, opened, asking) /\ Apart(polls, overlapped) /\ RoutesInv
<1>1. DOMAIN polls = 1 .. MaxPolls /\ DOMAIN opened = 1 .. Len(opened)
  BY DEF Shape, RoutingTypeOK
<1>2. UnderWay = {i \in 1 .. MaxPolls : polls[i] # Nobody}
  BY <1>1 DEF UnderWay
<1>3. \A s \in Sessions : session[s] # "new" <=> \E j \in 1 .. Len(opened) : opened[j] = s
  <2>1. ToSet(opened) = {s \in Sessions : session[s] # "new"} BY DEF Shape, RoutingTypeOK
  <2> QED BY <1>1, <2>1 DEF ToSet
<1>4. \A j, k \in 1 .. Len(opened) : opened[j] = opened[k] => j = k
  <2>1. IsInjective(opened) BY DEF Shape, RoutingTypeOK
  <2> QED BY <1>1, <2>1 DEF IsInjective
<1>5. Basic
  BY <1>3, <1>4 DEF Shape, RoutingTypeOK, Basic, States
<1>6. Queues
  BY DEF Shape, RoutingTypeOK, Queues
<1>7. GoodPolls(polls, session, opened, asking)
  BY <1>2 DEF Shape, RoutingTypeOK, PollsInv, GoodPolls, GoodPoll
<1>8. Apart(polls, overlapped)
  BY <1>2 DEF Shape, PollsInv, Apart
<1> QED BY <1>5, <1>6, <1>7, <1>8 DEF Shape

LEMMA ShapeNext ==
  ASSUME Basic', Queues', GoodPolls(polls', session', opened', asking'), Apart(polls', overlapped'), RoutesInv'
  PROVE  Shape'
<1>1. DOMAIN polls' = 1 .. MaxPolls /\ DOMAIN opened' = 1 .. Len(opened')
  BY DEF Basic, GoodPolls
<1>2. UnderWay' = {i \in 1 .. MaxPolls : polls'[i] # Nobody}
  BY <1>1 DEF UnderWay
<1>3. ToSet(opened') = {s \in Sessions : session'[s] # "new"}
  <2>1. \A j \in 1 .. Len(opened') : opened'[j] \in Sessions BY DEF Basic
  <2> QED BY <1>1, <2>1 DEF Basic, ToSet
<1>4. IsInjective(opened')
  BY <1>1 DEF Basic, IsInjective
<1>5. {wire', queues', delivered'} \subseteq [Sessions -> Seq(Events)]
  BY DEF Queues
<1>6. RoutingTypeOK'
  BY <1>2, <1>3, <1>4, <1>5 DEF Basic, States, Queues, GoodPolls, GoodPoll, RoutingTypeOK
<1>7. PollsInv'
  BY <1>2 DEF GoodPolls, GoodPoll, Apart, PollsInv
<1> QED BY <1>6, <1>7 DEF Shape

LEMMA NextEntryFacts ==
  ASSUME opened \in Seq(Sessions), NEW i \in Nat, NextEntry(i) # 0
  PROVE  /\ NextEntry(i) \in 1 .. Len(opened) /\ Listed(opened[NextEntry(i)])
<1> DEFINE left == {j \in i + 1 .. Len(opened) : Listed(opened[j])}
<1>1. left # {} /\ NextEntry(i) = Min(left)
  BY DEF NextEntry
<1>2. left \in SUBSET Nat /\ \A j \in left : j \in 1 .. Len(opened) /\ Listed(opened[j])
  OBVIOUS
<1> HIDE DEF left
<1> QED BY <1>1, <1>2, MinOfNats

LEMMA VisitingFacts ==
  ASSUME Basic, NEW j \in 1 .. Len(opened), Listed(opened[j]), NEW batch \in Seq(Events), Len(batch) <= MaxEvents,
         NEW r \in Readers \cup {Nobody}, NEW s \in Sessions, NEW calls, r # Nobody => calls[r] # Nobody
  PROVE  /\ Visiting(j, batch, r, s) \in Poll /\ Visiting(j, batch, r, s) # Nobody
         /\ Visiting(j, batch, r, s).reader = r
         /\ Holding(Visiting(j, batch, r, s)) = batch
         /\ GoodPoll(Visiting(j, batch, r, s), session, opened, calls)
<1> DEFINE p == Visiting(j, batch, r, s)
<1>1. /\ p.at = j /\ p.batch = batch /\ p.fresh = <<>> /\ p.reader = r
      /\ p.stage = IF session[opened[j]] = "open" THEN "native" ELSE "opening"
  BY DEF Visiting
<1>2. j \in Nat /\ <<>> \in Seq(Events)
  OBVIOUS
<1>3. p \in Poll
  BY <1>2 DEF Visiting, Poll
<1>4. p # Nobody
  BY <1>3, NobodyAssumption
<1>5. Holding(p) = batch
  BY <1>1 DEF Holding
<1> HIDE DEF p
<1>6. GoodPoll(p, session, opened, calls)
  BY <1>1, <1>5 DEF GoodPoll
<1> QED BY <1>1, <1>3, <1>4, <1>5, <1>6 DEF p

-----------------------------------------------------------------------------
(* Sessions come and go, and the peer sends.                               *)

LEMMA MappedApart ==
  ASSUME Basic
  PROVE  \A s \in Sessions : s # Nobody /\ WireId[s] \in Ids
BY RoutingAssumption DEF Ids

LEMMA OpenBeginsShape ==
  ASSUME Shape, NEW s \in Sessions, OpenBegins(s)
  PROVE  Shape'
<1>1. Basic /\ Queues /\ GoodPolls(polls, session, opened, asking) /\ Apart(polls, overlapped) /\ RoutesInv
  BY ShapeParts
<1>2. /\ session[s] = "new" /\ session' = [session EXCEPT ![s] = "opening"] /\ opened' = Append(opened, s)
      /\ \A t \in Sessions \ {s} : WireId[t] = WireId[s] => session[t] \in {"new", "closed", "failed"}
      /\ mapped' = mapped /\ wire' = wire /\ queues' = queues /\ unclaimed' = unclaimed /\ asking' = asking
      /\ polls' = polls /\ arrived' = arrived /\ delivered' = delivered /\ spilled' = spilled
      /\ overlapped' = overlapped
  BY DEF OpenBegins
<1>3. /\ session' \in [Sessions -> States] /\ session'[s] = "opening"
      /\ \A t \in Sessions : t # s => session'[t] = session[t]
  BY <1>1, <1>2 DEF Basic, States
<1>4. /\ opened' \in Seq(Sessions) /\ Len(opened') = Len(opened) + 1 /\ Len(opened) \in Nat
      /\ opened'[Len(opened) + 1] = s /\ \A j \in 1 .. Len(opened) : opened'[j] = opened[j]
  BY <1>1, <1>2 DEF Basic
<1>5. /\ \A j \in 1 .. Len(opened') : j \in 1 .. Len(opened) \/ j = Len(opened) + 1
      /\ \A j \in 1 .. Len(opened) : j \in 1 .. Len(opened') /\ opened[j] # s
      /\ Len(opened) + 1 \in 1 .. Len(opened')
  <2>1. \A j \in 1 .. Len(opened) : opened[j] # s BY <1>1, <1>2 DEF Basic
  <2> QED BY <1>4, <2>1
<1>6. ASSUME NEW j \in 1 .. Len(opened'), NEW k \in 1 .. Len(opened'), opened'[j] = opened'[k] PROVE j = k
  <2>1. CASE j \in 1 .. Len(opened) /\ k \in 1 .. Len(opened) BY <1>1, <1>4, <1>6, <2>1 DEF Basic
  <2>2. CASE j = Len(opened) + 1 /\ k \in 1 .. Len(opened) BY <1>4, <1>5, <1>6, <2>2
  <2>3. CASE j \in 1 .. Len(opened) /\ k = Len(opened) + 1 BY <1>4, <1>5, <1>6, <2>3
  <2> QED BY <1>5, <2>1, <2>2, <2>3
<1>7. ASSUME NEW t \in Sessions PROVE session'[t] # "new" <=> \E j \in 1 .. Len(opened') : opened'[j] = t
  <2>1. CASE t = s BY <1>3, <1>4, <1>5, <2>1
  <2>2. CASE t # s
    <3>1. session[t] # "new" <=> \E j \in 1 .. Len(opened) : opened[j] = t BY <1>1 DEF Basic
    <3> QED BY <1>3, <1>4, <1>5, <2>2, <3>1
  <2> QED BY <2>1, <2>2
<1>8. Basic'
  BY <1>1, <1>2, <1>3, <1>4, <1>6, <1>7 DEF Basic
<1>9. GoodPolls(polls', session', opened', asking')
  <2> SUFFICES ASSUME NEW i \in 1 .. MaxPolls, polls[i] # Nobody PROVE GoodPoll(polls[i], session', opened', asking')
    BY <1>1, <1>2 DEF GoodPolls
  <2>1. GoodPoll(polls[i], session, opened, asking) BY <1>1 DEF GoodPolls
  <2>2. polls[i].at \in 1 .. Len(opened) BY <2>1 DEF GoodPoll
  <2>3. opened[polls[i].at] \in Sessions BY <1>1, <2>2 DEF Basic
  <2> QED BY <1>2, <1>3, <1>4, <1>5, <2>1, <2>2, <2>3 DEF GoodPoll
<1>10. RoutesInv'
  <2>1. \A t \in Sessions : session[t] \in {"open", "closing"} <=> session'[t] \in {"open", "closing"}
    BY <1>2, <1>3
  <2>2. \A id \in Ids : mapped[id] # Nobody => mapped[id] \in Sessions BY <1>1 DEF Basic
  <2>3. \A id \in Ids : mapped'[id] # Nobody => WireId[mapped'[id]] = id /\ session'[mapped'[id]] \in {"open", "closing"}
    BY <1>1, <1>2, <2>1, <2>2 DEF RoutesInv
  <2>4. \A t \in Sessions : session'[t] \in {"open", "closing"} => mapped'[WireId[t]] = t
    BY <1>1, <1>2, <2>1 DEF RoutesInv
  <2>5. \A t \in Sessions : session'[t] \in {"new", "opening", "failed"} => arrived'[t] = 0
    BY <1>1, <1>2, <1>3 DEF RoutesInv
  <2>6. ASSUME NEW t \in Sessions, NEW r \in Sessions, WireId[t] = WireId[r], session'[t] = "opening",
               session'[r] \in {"opening", "open", "closing"}
        PROVE  t = r
    BY <1>1, <1>2, <1>3, <2>6 DEF RoutesInv
  <2> QED BY <2>3, <2>4, <2>5, <2>6 DEF RoutesInv
<1> QED BY <1>1, <1>2, <1>8, <1>9, <1>10, ShapeNext DEF Queues

LEMMA ApartKeeps ==
  ASSUME NEW ps, NEW new, NEW over, Apart(ps, over),
         \A i \in 1 .. MaxPolls : new[i] = Nobody \/ (ps[i] # Nobody /\ new[i].reader \in {ps[i].reader, Nobody})
  PROVE  Apart(new, over)
<1> SUFFICES ASSUME NEW i \in 1 .. MaxPolls, NEW j \in 1 .. MaxPolls, i # j, new[i] # Nobody, new[j] # Nobody
             PROVE  over /\ (new[i].reader = Nobody \/ new[i].reader # new[j].reader)
  BY DEF Apart
<1>1. over /\ (ps[i].reader = Nobody \/ ps[i].reader # ps[j].reader)
  BY DEF Apart
<1>2. new[i].reader \in {ps[i].reader, Nobody} /\ new[j].reader \in {ps[j].reader, Nobody}
  OBVIOUS
<1> QED BY <1>1, <1>2

LEMMA OpenEndsShape ==
  ASSUME Shape, NEW s \in Sessions, OpenEnds(s)
  PROVE  Shape'
<1>1. Basic /\ Queues /\ GoodPolls(polls, session, opened, asking) /\ Apart(polls, overlapped) /\ RoutesInv
  BY ShapeParts
<1>2. /\ session[s] = "opening" /\ session' = [session EXCEPT ![s] = "open"]
      /\ mapped' = [mapped EXCEPT ![WireId[s]] = s]
      /\ polls' = [i \in DOMAIN polls |->
           IF i \in UnderWay /\ opened[polls[i].at] = s THEN [polls[i] EXCEPT !.stage = "native"] ELSE polls[i]]
      /\ opened' = opened /\ wire' = wire /\ queues' = queues /\ unclaimed' = unclaimed /\ asking' = asking
      /\ arrived' = arrived /\ delivered' = delivered /\ spilled' = spilled /\ overlapped' = overlapped
  BY DEF OpenEnds
<1>3. /\ session' \in [Sessions -> States] /\ session'[s] = "open"
      /\ \A t \in Sessions : t # s => session'[t] = session[t]
  BY <1>1, <1>2 DEF Basic, States
<1>4. /\ mapped' \in [Ids -> Sessions \cup {Nobody}] /\ mapped'[WireId[s]] = s
      /\ \A id \in Ids : id # WireId[s] => mapped'[id] = mapped[id]
  BY <1>1, <1>2, MappedApart DEF Basic
<1>5. Basic'
  BY <1>1, <1>2, <1>3, <1>4 DEF Basic
<1>6. ASSUME NEW i \in 1 .. MaxPolls
      PROVE  \/ polls[i] = Nobody /\ polls'[i] = Nobody
             \/ /\ polls[i] # Nobody /\ polls'[i] # Nobody
                /\ polls'[i] \in Poll /\ polls'[i].reader = polls[i].reader
                /\ GoodPoll(polls'[i], session', opened', asking')
  <2>1. i \in DOMAIN polls /\ (i \in UnderWay <=> polls[i] # Nobody) BY <1>1 DEF GoodPolls, UnderWay
  <2>2. CASE polls[i] = Nobody BY <1>2, <2>1, <2>2
  <2>3. CASE polls[i] # Nobody
    <3>1. polls[i] \in Poll /\ GoodPoll(polls[i], session, opened, asking) BY <1>1, <2>3 DEF GoodPolls
    <3>2. opened[polls[i].at] \in Sessions BY <1>1, <3>1 DEF Basic, GoodPoll
    <3>3. CASE opened[polls[i].at] = s
      <4> DEFINE p == [polls[i] EXCEPT !.stage = "native"]
      <4>1. polls'[i] = p BY <1>2, <2>1, <2>3, <3>3
      <4>2. /\ p \in Poll /\ p.at = polls[i].at /\ p.reader = polls[i].reader /\ p.stage = "native"
            /\ p.batch = polls[i].batch /\ p.fresh = polls[i].fresh
        BY <3>1 DEF Poll
      <4>3. p # Nobody BY <4>2, NobodyAssumption
      <4> HIDE DEF p
      <4>4. polls[i].fresh = <<>> BY <1>2, <3>1, <3>3 DEF GoodPoll
      <4>5. GoodPoll(p, session', opened', asking')
        BY <1>2, <1>3, <3>1, <3>3, <4>2, <4>4 DEF GoodPoll, Holding
      <4> QED BY <2>3, <4>1, <4>2, <4>3, <4>5
    <3>4. CASE opened[polls[i].at] # s
      <4>1. polls'[i] = polls[i] BY <1>2, <2>1, <3>4
      <4>2. GoodPoll(polls[i], session', opened', asking') BY <1>2, <1>3, <3>1, <3>2, <3>4 DEF GoodPoll
      <4> QED BY <2>3, <3>1, <4>1, <4>2
    <3> QED BY <3>3, <3>4
  <2> QED BY <2>2, <2>3
<1>7. GoodPolls(polls', session', opened', asking')
  <2>1. polls' \in [1 .. MaxPolls -> Poll \cup {Nobody}]
    <3>1. DOMAIN polls = 1 .. MaxPolls BY <1>1 DEF GoodPolls
    <3>2. DOMAIN polls' = 1 .. MaxPolls BY <1>2, <3>1
    <3>3. \A i \in 1 .. MaxPolls : polls'[i] \in Poll \cup {Nobody} BY <1>6
    <3>4. polls' = [i \in 1 .. MaxPolls |-> polls'[i]] BY <1>2, <3>1
    <3> QED BY <3>3, <3>4
  <2> QED BY <1>6, <2>1 DEF GoodPolls
<1>8. Apart(polls', overlapped')
  <2>1. \A i \in 1 .. MaxPolls : polls'[i] = Nobody \/ (polls[i] # Nobody /\ polls'[i].reader \in {polls[i].reader, Nobody})
    BY <1>6
  <2> QED BY <1>1, <1>2, <2>1, ApartKeeps
<1>9. RoutesInv'
  <2>1. \A t \in Sessions : t # s /\ WireId[t] = WireId[s] => session[t] \notin {"opening", "open", "closing"}
    BY <1>1, <1>2 DEF RoutesInv
  <2>2. \A t \in Sessions : WireId[t] \in Ids BY <1>1, MappedApart
  <2>3. \A id \in Ids : mapped'[id] # Nobody => WireId[mapped'[id]] = id /\ session'[mapped'[id]] \in {"open", "closing"}
    <3> SUFFICES ASSUME NEW id \in Ids, mapped'[id] # Nobody
                 PROVE  WireId[mapped'[id]] = id /\ session'[mapped'[id]] \in {"open", "closing"}
      OBVIOUS
    <3>1. CASE id = WireId[s] BY <1>3, <1>4, <3>1
    <3>2. CASE id # WireId[s]
      <4>1. mapped'[id] = mapped[id] /\ mapped[id] \in Sessions BY <1>1, <1>4, <3>2 DEF Basic
      <4>2. WireId[mapped[id]] = id /\ session[mapped[id]] \in {"open", "closing"} BY <1>1, <4>1 DEF RoutesInv
      <4> QED BY <1>3, <3>2, <4>1, <4>2
    <3> QED BY <3>1, <3>2
  <2>4. \A t \in Sessions : session'[t] \in {"open", "closing"} => mapped'[WireId[t]] = t
    <3> SUFFICES ASSUME NEW t \in Sessions, session'[t] \in {"open", "closing"} PROVE mapped'[WireId[t]] = t
      OBVIOUS
    <3>1. CASE t = s BY <1>4, <3>1
    <3>2. CASE t # s
      <4>1. session[t] \in {"open", "closing"} BY <1>3, <3>2
      <4>2. WireId[t] # WireId[s] BY <2>1, <3>2, <4>1
      <4>3. mapped[WireId[t]] = t BY <1>1, <4>1 DEF RoutesInv
      <4> QED BY <1>4, <2>2, <4>2, <4>3
    <3> QED BY <3>1, <3>2
  <2>5. \A t \in Sessions : session'[t] \in {"new", "opening", "failed"} => arrived'[t] = 0
    BY <1>1, <1>2, <1>3 DEF RoutesInv
  <2>6. ASSUME NEW t \in Sessions, NEW r \in Sessions, WireId[t] = WireId[r], session'[t] = "opening",
               session'[r] \in {"opening", "open", "closing"}
        PROVE  t = r
    BY <1>1, <1>2, <1>3, <2>6 DEF RoutesInv
  <2> QED BY <2>3, <2>4, <2>5, <2>6 DEF RoutesInv
<1> QED BY <1>1, <1>2, <1>5, <1>7, <1>8, <1>9, ShapeNext DEF Queues

LEMMA StillGood ==
  ASSUME NEW ps, NEW state, NEW order, NEW calls, NEW new,
         GoodPolls(ps, state, order, calls), \A s : new[s] = "opening" => state[s] = "opening"
  PROVE  GoodPolls(ps, new, order, calls)
BY DEF GoodPolls, GoodPoll

(* Some polls end, and no call but theirs ends with them.                  *)
Ends(hit, ps, new, calls, after) ==
  /\ new \in [1 .. MaxPolls -> Poll \cup {Nobody}]
  /\ \A i \in 1 .. MaxPolls : new[i] = IF i \in hit THEN Nobody ELSE ps[i]
  /\ \A r \in Readers : \/ after[r] = calls[r]
                         \/ \E i \in hit : i \in 1 .. MaxPolls /\ ps[i] # Nobody /\ ps[i].reader = r

LEMMA EndedPolls ==
  ASSUME NEW hit, NEW ps, NEW new, NEW over, NEW state, NEW order, NEW calls, NEW after,
         GoodPolls(ps, state, order, calls), Apart(ps, over), Ends(hit, ps, new, calls, after)
  PROVE  GoodPolls(new, state, order, after) /\ Apart(new, over)
<1> USE DEF Ends
<1>1. \A i \in 1 .. MaxPolls : new[i] = Nobody \/ (ps[i] # Nobody /\ new[i].reader \in {ps[i].reader, Nobody})
  OBVIOUS
<1>2. Apart(new, over)
  BY <1>1, ApartKeeps
<1>3. ASSUME NEW j \in 1 .. MaxPolls, new[j] # Nobody PROVE GoodPoll(new[j], state, order, after)
  <2>1. j \notin hit /\ new[j] = ps[j] /\ ps[j] # Nobody BY <1>3
  <2>2. ps[j] \in Poll /\ GoodPoll(ps[j], state, order, calls) BY <2>1 DEF GoodPolls
  <2>3. ASSUME ps[j].reader # Nobody PROVE after[ps[j].reader] # Nobody
    <3>1. ps[j].reader \in Readers BY <2>2, <2>3 DEF Poll
    <3>2. \A i \in hit : i \in 1 .. MaxPolls /\ ps[i] # Nobody => ps[i].reader # ps[j].reader
      BY <2>1, <2>3 DEF Apart
    <3>3. after[ps[j].reader] = calls[ps[j].reader] BY <3>1, <3>2
    <3> QED BY <2>2, <2>3, <3>3 DEF GoodPoll
  <2> QED BY <2>1, <2>2, <2>3 DEF GoodPoll
<1> QED BY <1>2, <1>3 DEF GoodPolls

LEMMA OpenFailsShape ==
  ASSUME Shape, NEW s \in Sessions, OpenFails(s)
  PROVE  Shape'
<1>1. Basic /\ Queues /\ GoodPolls(polls, session, opened, asking) /\ Apart(polls, overlapped) /\ RoutesInv
  BY ShapeParts
<1> DEFINE hit == {i \in UnderWay : opened[polls[i].at] = s}
<1>2. /\ session[s] = "opening" /\ session' = [session EXCEPT ![s] = "failed"]
      /\ spilled' = spilled \cup UNION {Spill(polls[i]) : i \in hit}
      /\ polls' = [i \in DOMAIN polls |-> IF i \in hit THEN Nobody ELSE polls[i]]
      /\ asking' = [r \in Readers |-> IF \E i \in hit : polls[i].reader = r THEN Nobody ELSE asking[r]]
      /\ opened' = opened /\ mapped' = mapped /\ wire' = wire /\ queues' = queues /\ unclaimed' = unclaimed
      /\ arrived' = arrived /\ delivered' = delivered /\ overlapped' = overlapped
  BY DEF OpenFails
<1>3. /\ session' \in [Sessions -> States] /\ session'[s] = "failed"
      /\ \A t \in Sessions : t # s => session'[t] = session[t]
  BY <1>1, <1>2 DEF Basic, States
<1>4. hit \subseteq 1 .. MaxPolls /\ DOMAIN polls = 1 .. MaxPolls /\ \A i \in hit : polls[i] # Nobody
  BY <1>1 DEF GoodPolls, UnderWay
<1> HIDE DEF hit
<1>5. spilled' \subseteq [event : Events, for : Sessions]
  <2>1. ASSUME NEW i \in hit PROVE Spill(polls[i]) \subseteq [event : Events, for : Sessions]
    <3>1. polls[i] \in Poll BY <1>1, <1>4 DEF GoodPolls
    <3>2. polls[i].batch \in Seq(Events) /\ polls[i].fresh \in Seq(Events) /\ polls[i].for \in Sessions
      BY <3>1 DEF Poll
    <3>3. Holding(polls[i]) \in Seq(Events) BY <3>2 DEF Holding
    <3>4. ToSet(Holding(polls[i])) \subseteq Events BY <3>3 DEF ToSet
    <3> QED BY <3>2, <3>4 DEF Spill
  <2> QED BY <1>1, <1>2, <2>1 DEF Basic
<1>6. asking' \in [Readers -> Limit \cup {Nobody}]
  BY <1>1, <1>2 DEF Basic
<1>7. Basic'
  BY <1>1, <1>2, <1>3, <1>5, <1>6 DEF Basic
<1>8. polls' \in [1 .. MaxPolls -> Poll \cup {Nobody}]
  BY <1>1, <1>2, <1>4 DEF GoodPolls
<1>9. /\ \A i \in 1 .. MaxPolls : polls'[i] = IF i \in hit THEN Nobody ELSE polls[i]
      /\ \A r \in Readers : \/ asking'[r] = asking[r]
                            \/ \E i \in hit : i \in 1 .. MaxPolls /\ polls[i] # Nobody /\ polls[i].reader = r
  BY <1>2, <1>4
<1>10. GoodPolls(polls, session', opened, asking)
  <2>1. \A t : session'[t] = "opening" => session[t] = "opening" BY <1>1, <1>2 DEF Basic
  <2> QED BY <1>1, <2>1, StillGood
<1>11. GoodPolls(polls', session', opened', asking') /\ Apart(polls', overlapped')
  <2>1. GoodPolls(polls', session', opened, asking') /\ Apart(polls', overlapped)
    <3>1. Ends(hit, polls, polls', asking, asking') BY <1>8, <1>9 DEF Ends
    <3> QED BY <1>1, <1>10, <3>1, EndedPolls
  <2> QED BY <1>2, <2>1
<1>12. RoutesInv'
  <2>1. \A t \in Sessions : session[t] \in {"open", "closing"} <=> session'[t] \in {"open", "closing"}
    BY <1>2, <1>3
  <2>2. \A id \in Ids : mapped[id] # Nobody => mapped[id] \in Sessions BY <1>1 DEF Basic
  <2>3. \A id \in Ids : mapped'[id] # Nobody => WireId[mapped'[id]] = id /\ session'[mapped'[id]] \in {"open", "closing"}
    BY <1>1, <1>2, <2>1, <2>2 DEF RoutesInv
  <2>4. \A t \in Sessions : session'[t] \in {"open", "closing"} => mapped'[WireId[t]] = t
    BY <1>1, <1>2, <2>1 DEF RoutesInv
  <2>5. \A t \in Sessions : session'[t] \in {"new", "opening", "failed"} => arrived'[t] = 0
    BY <1>1, <1>2, <1>3 DEF RoutesInv
  <2>6. ASSUME NEW t \in Sessions, NEW r \in Sessions, WireId[t] = WireId[r], session'[t] = "opening",
               session'[r] \in {"opening", "open", "closing"}
        PROVE  t = r
    BY <1>1, <1>2, <1>3, <2>6 DEF RoutesInv
  <2> QED BY <2>3, <2>4, <2>5, <2>6 DEF RoutesInv
<1> QED BY <1>1, <1>2, <1>7, <1>11, <1>12, ShapeNext DEF Queues

LEMMA CloseBeginsShape ==
  ASSUME Shape, NEW s \in Sessions, CloseBegins(s)
  PROVE  Shape'
<1>1. Basic /\ Queues /\ GoodPolls(polls, session, opened, asking) /\ Apart(polls, overlapped) /\ RoutesInv
  BY ShapeParts
<1>2. /\ session[s] = "open" /\ session' = [session EXCEPT ![s] = "closing"]
      /\ opened' = opened /\ mapped' = mapped /\ wire' = wire /\ queues' = queues /\ unclaimed' = unclaimed
      /\ asking' = asking /\ polls' = polls /\ arrived' = arrived /\ delivered' = delivered
      /\ spilled' = spilled /\ overlapped' = overlapped
  BY DEF CloseBegins
<1>3. /\ session' \in [Sessions -> States] /\ session'[s] = "closing"
      /\ \A t \in Sessions : t # s => session'[t] = session[t]
  BY <1>1, <1>2 DEF Basic, States
<1>4. Basic'
  BY <1>1, <1>2, <1>3 DEF Basic
<1>5. GoodPolls(polls', session', opened', asking')
  <2>1. \A t : session'[t] = "opening" => session[t] = "opening" BY <1>1, <1>2 DEF Basic
  <2> QED BY <1>1, <1>2, <2>1, StillGood
<1>6. RoutesInv'
  <2>1. \A t \in Sessions : session[t] \in {"open", "closing"} <=> session'[t] \in {"open", "closing"}
    BY <1>2, <1>3
  <2>2. \A id \in Ids : mapped[id] # Nobody => mapped[id] \in Sessions BY <1>1 DEF Basic
  <2>3. \A id \in Ids : mapped'[id] # Nobody => WireId[mapped'[id]] = id /\ session'[mapped'[id]] \in {"open", "closing"}
    BY <1>1, <1>2, <2>1, <2>2 DEF RoutesInv
  <2>4. \A t \in Sessions : session'[t] \in {"open", "closing"} => mapped'[WireId[t]] = t
    BY <1>1, <1>2, <2>1 DEF RoutesInv
  <2>5. \A t \in Sessions : session'[t] \in {"new", "opening", "failed"} => arrived'[t] = 0
    BY <1>1, <1>2, <1>3 DEF RoutesInv
  <2>6. ASSUME NEW t \in Sessions, NEW r \in Sessions, WireId[t] = WireId[r], session'[t] = "opening",
               session'[r] \in {"opening", "open", "closing"}
        PROVE  t = r
    BY <1>1, <1>2, <1>3, <2>6 DEF RoutesInv
  <2> QED BY <2>3, <2>4, <2>5, <2>6 DEF RoutesInv
<1> QED BY <1>1, <1>2, <1>4, <1>5, <1>6, ShapeNext DEF Queues

LEMMA CloseEndsShape ==
  ASSUME Shape, NEW s \in Sessions, CloseEnds(s)
  PROVE  Shape' /\ mapped[WireId[s]] = s
<1>1. Basic /\ Queues /\ GoodPolls(polls, session, opened, asking) /\ Apart(polls, overlapped) /\ RoutesInv
  BY ShapeParts
<1>2. /\ session[s] = "closing" /\ session' = [session EXCEPT ![s] = "closed"]
      /\ mapped' = [mapped EXCEPT ![WireId[s]] = Nobody]
      /\ queues' = [t \in Sessions |-> IF t \in {s, mapped[WireId[s]]} THEN <<>> ELSE queues[t]]
      /\ unclaimed' = [unclaimed EXCEPT ![WireId[s]] = <<>>]
      /\ wire' = [wire EXCEPT ![s] = <<>>]
      /\ opened' = opened /\ asking' = asking /\ polls' = polls /\ arrived' = arrived /\ delivered' = delivered
      /\ spilled' = spilled /\ overlapped' = overlapped
  BY DEF CloseEnds
<1>3. /\ session' \in [Sessions -> States] /\ session'[s] = "closed"
      /\ \A t \in Sessions : t # s => session'[t] = session[t]
  BY <1>1, <1>2 DEF Basic, States
<1>4. /\ mapped' \in [Ids -> Sessions \cup {Nobody}] /\ mapped'[WireId[s]] = Nobody
      /\ \A id \in Ids : id # WireId[s] => mapped'[id] = mapped[id]
  BY <1>1, <1>2, MappedApart DEF Basic
<1>5. Basic'
  BY <1>1, <1>2, <1>3, <1>4 DEF Basic
<1>6. Queues'
  <2>1. <<>> \in Seq(Events) OBVIOUS
  <2> QED BY <1>1, <1>2, <2>1 DEF Queues
<1>7. GoodPolls(polls', session', opened', asking')
  <2>1. \A t : session'[t] = "opening" => session[t] = "opening" BY <1>1, <1>2 DEF Basic
  <2> QED BY <1>1, <1>2, <2>1, StillGood
<1>8. mapped[WireId[s]] = s
  BY <1>1, <1>2 DEF RoutesInv
<1>9. RoutesInv'
  <2>1. \A t \in Sessions : t # s => (session[t] \in {"open", "closing"} <=> session'[t] \in {"open", "closing"})
    BY <1>2, <1>3
  <2>2. \A id \in Ids : mapped[id] # Nobody => mapped[id] \in Sessions BY <1>1 DEF Basic
  <2>3. \A id \in Ids : mapped'[id] # Nobody => WireId[mapped'[id]] = id /\ session'[mapped'[id]] \in {"open", "closing"}
    <3> SUFFICES ASSUME NEW id \in Ids, mapped'[id] # Nobody
                 PROVE  WireId[mapped'[id]] = id /\ session'[mapped'[id]] \in {"open", "closing"}
      OBVIOUS
    <3>1. id # WireId[s] /\ mapped'[id] = mapped[id] /\ mapped[id] \in Sessions BY <1>4, <2>2
    <3>2. WireId[mapped[id]] = id /\ session[mapped[id]] \in {"open", "closing"} BY <1>1, <3>1 DEF RoutesInv
    <3> QED BY <2>1, <3>1, <3>2
  <2>4. \A t \in Sessions : session'[t] \in {"open", "closing"} => mapped'[WireId[t]] = t
    <3> SUFFICES ASSUME NEW t \in Sessions, session'[t] \in {"open", "closing"} PROVE mapped'[WireId[t]] = t
      OBVIOUS
    <3>1. t # s /\ mapped[WireId[t]] = t BY <1>1, <1>3, <2>1 DEF RoutesInv
    <3>2. WireId[t] # WireId[s] /\ WireId[t] \in Ids BY <1>1, <1>8, <3>1, MappedApart
    <3> QED BY <1>4, <3>1, <3>2
  <2>5. \A t \in Sessions : session'[t] \in {"new", "opening", "failed"} => arrived'[t] = 0
    BY <1>1, <1>2, <1>3 DEF RoutesInv
  <2>6. ASSUME NEW t \in Sessions, NEW r \in Sessions, WireId[t] = WireId[r], session'[t] = "opening",
               session'[r] \in {"opening", "open", "closing"}
        PROVE  t = r
    BY <1>1, <1>2, <1>3, <2>6 DEF RoutesInv
  <2> QED BY <2>3, <2>4, <2>5, <2>6 DEF RoutesInv
<1> QED BY <1>1, <1>2, <1>5, <1>6, <1>7, <1>8, <1>9, ShapeNext

LEMMA ArrivesShape ==
  ASSUME Shape, NEW s \in Sessions, Arrives(s)
  PROVE  Shape' /\ EventOf(s, arrived[s] + 1) \in Events
<1>1. Basic /\ Queues /\ GoodPolls(polls, session, opened, asking) /\ Apart(polls, overlapped) /\ RoutesInv
  BY ShapeParts
<1>2. /\ session[s] = "open"
      /\ arrived' = [arrived EXCEPT ![s] = arrived[s] + 1]
      /\ wire' = [wire EXCEPT ![s] = Append(wire[s], EventOf(s, arrived[s] + 1))]
      /\ session' = session /\ opened' = opened /\ mapped' = mapped /\ queues' = queues /\ unclaimed' = unclaimed
      /\ asking' = asking /\ polls' = polls /\ delivered' = delivered
      /\ spilled' = spilled /\ overlapped' = overlapped
  BY DEF Arrives
<1>3. arrived[s] + 1 \in Nat /\ EventOf(s, arrived[s] + 1) \in Events
  BY <1>1 DEF Basic, EventOf, Events
<1>4. Append(wire[s], EventOf(s, arrived[s] + 1)) \in Seq(Events)
  <2>1. wire[s] \in Seq(Events) BY <1>1 DEF Queues
  <2> QED BY <1>3, <2>1, AppendFacts
<1>5. Basic'
  BY <1>1, <1>2, <1>3 DEF Basic
<1>6. Queues'
  BY <1>1, <1>2, <1>4 DEF Queues
<1>7. RoutesInv'
  BY <1>1, <1>2 DEF RoutesInv, Basic
<1> QED BY <1>1, <1>2, <1>3, <1>5, <1>6, <1>7, ShapeNext

-----------------------------------------------------------------------------
(* Callers ask and give up, and polls go from session to session.          *)

Still == session' = session /\ opened' = opened /\ mapped' = mapped /\ arrived' = arrived

LEMMA StillShape ==
  ASSUME Basic, RoutesInv, Still, asking' \in [Readers -> Limit \cup {Nobody}],
         spilled' \subseteq [event : Events, for : Sessions], overlapped' \in BOOLEAN
  PROVE  Basic' /\ RoutesInv'
BY DEF Basic, RoutesInv, Still

LEMMA PollFacts ==
  ASSUME NEW p \in Poll
  PROVE  /\ p.batch \in Seq(Events) /\ p.fresh \in Seq(Events) /\ Holding(p) \in Seq(Events)
         /\ p.for \in Sessions /\ p.reader \in Readers \cup {Nobody} /\ p.at \in Nat
         /\ Spill(p) \subseteq [event : Events, for : Sessions]
<1>1. /\ p.batch \in Seq(Events) /\ p.fresh \in Seq(Events) /\ p.for \in Sessions
      /\ p.reader \in Readers \cup {Nobody} /\ p.at \in Nat
  BY DEF Poll
<1>2. Holding(p) \in Seq(Events)
  BY <1>1 DEF Holding
<1>3. ToSet(Holding(p)) \subseteq Events
  BY <1>2 DEF ToSet
<1> QED BY <1>1, <1>2, <1>3 DEF Spill

LEMMA RejectedShape ==
  ASSUME Shape, NEW i \in UnderWay, Rejected(i), Still, Queues', overlapped' = overlapped
  PROVE  Shape'
<1>1. Basic /\ Queues /\ GoodPolls(polls, session, opened, asking) /\ Apart(polls, overlapped) /\ RoutesInv
  BY ShapeParts
<1>2. /\ i \in 1 .. MaxPolls /\ polls[i] # Nobody /\ polls[i] \in Poll
      /\ polls \in [1 .. MaxPolls -> Poll \cup {Nobody}]
  BY <1>1 DEF GoodPolls, UnderWay
<1>3. /\ spilled' = spilled \cup Spill(polls[i])
      /\ polls' = [polls EXCEPT ![i] = Nobody]
      /\ asking' = IF polls[i].reader = Nobody THEN asking ELSE [asking EXCEPT ![polls[i].reader] = Nobody]
  BY DEF Rejected
<1>4. spilled' \subseteq [event : Events, for : Sessions] /\ polls[i].reader \in Readers \cup {Nobody}
  BY <1>1, <1>2, <1>3, PollFacts DEF Basic
<1>5. asking' \in [Readers -> Limit \cup {Nobody}]
  BY <1>1, <1>3, <1>4 DEF Basic
<1>6. Basic' /\ RoutesInv'
  BY <1>1, <1>4, <1>5, StillShape DEF Basic
<1>7. Ends({i}, polls, polls', asking, asking')
  <2>1. polls' \in [1 .. MaxPolls -> Poll \cup {Nobody}] BY <1>2, <1>3
  <2>2. \A j \in 1 .. MaxPolls : polls'[j] = IF j \in {i} THEN Nobody ELSE polls[j] BY <1>2, <1>3
  <2>3. \A r \in Readers : asking'[r] = asking[r] \/ polls[i].reader = r BY <1>1, <1>3 DEF Basic
  <2> QED BY <1>2, <2>1, <2>2, <2>3 DEF Ends
<1>8. GoodPolls(polls', session, opened, asking') /\ Apart(polls', overlapped)
  BY <1>1, <1>7, EndedPolls
<1>9. GoodPolls(polls', session', opened', asking') /\ Apart(polls', overlapped')
  BY <1>8 DEF Still
<1> QED BY <1>6, <1>9, ShapeNext

(* A new poll of r in slot i, or none: the other polls are of others.      *)
Replaces(i, r, ps, new, calls, later) ==
  /\ new \in [1 .. MaxPolls -> Poll \cup {Nobody}]
  /\ \A j \in 1 .. MaxPolls : j # i => new[j] = ps[j]
  /\ \A j \in 1 .. MaxPolls : j # i /\ ps[j] # Nobody => ps[j].reader # r
  /\ \A t \in Readers : t # r => later[t] = calls[t]

Alone(i, ps) == \A j \in 1 .. MaxPolls : j = i \/ ps[j] = Nobody

LEMMA ReplacedGood ==
  ASSUME NEW ps, NEW new, NEW i \in 1 .. MaxPolls, NEW r, NEW state, NEW order, NEW calls, NEW later,
         GoodPolls(ps, state, order, calls), Replaces(i, r, ps, new, calls, later),
         new[i] = Nobody \/ GoodPoll(new[i], state, order, later)
  PROVE  GoodPolls(new, state, order, later)
<1> USE DEF Replaces
<1>1. ASSUME NEW j \in 1 .. MaxPolls, j # i, new[j] # Nobody PROVE GoodPoll(new[j], state, order, later)
  <2>1. new[j] = ps[j] /\ ps[j] \in Poll /\ GoodPoll(ps[j], state, order, calls) BY <1>1 DEF GoodPolls
  <2>2. ASSUME ps[j].reader # Nobody PROVE later[ps[j].reader] # Nobody
    <3>1. ps[j].reader \in Readers /\ ps[j].reader # r BY <1>1, <2>1, <2>2 DEF Poll
    <3> QED BY <2>1, <2>2, <3>1 DEF GoodPoll
  <2> QED BY <2>1, <2>2 DEF GoodPoll
<1> QED BY <1>1 DEF GoodPolls

LEMMA RemovedApart ==
  ASSUME NEW ps, NEW new, NEW i \in 1 .. MaxPolls, NEW r, NEW calls, NEW later, NEW over,
         Apart(ps, over), Replaces(i, r, ps, new, calls, later), new[i] = Nobody
  PROVE  Apart(new, over)
<1>1. \A j \in 1 .. MaxPolls : new[j] = Nobody \/ (ps[j] # Nobody /\ new[j].reader \in {ps[j].reader, Nobody})
  BY DEF Replaces
<1> QED BY <1>1, ApartKeeps

LEMMA ReplacedApart ==
  ASSUME NEW ps, NEW new, NEW i \in 1 .. MaxPolls, NEW r, NEW calls, NEW later, NEW over,
         Apart(ps, over), Replaces(i, r, ps, new, calls, later), new[i].reader \in {r, Nobody}
  PROVE  Apart(new, TRUE)
<1> USE DEF Replaces
<1>3. ASSUME NEW j \in 1 .. MaxPolls, NEW k \in 1 .. MaxPolls, j # k, new[j] # Nobody, new[k] # Nobody
      PROVE  new[j].reader = Nobody \/ new[j].reader # new[k].reader
  <2>1. CASE j # i /\ k # i
    <3>1. new[j] = ps[j] /\ new[k] = ps[k] BY <2>1
    <3>2. ps[j].reader = Nobody \/ ps[j].reader # ps[k].reader BY <1>3, <3>1 DEF Apart
    <3> QED BY <3>1, <3>2
  <2>2. CASE j = i
    <3>1. k # i /\ new[k] = ps[k] /\ ps[k] # Nobody BY <1>3, <2>2
    <3>2. ps[k].reader # r /\ new[j].reader \in {r, Nobody} BY <1>3, <2>2, <3>1
    <3> QED BY <3>1, <3>2
  <2>3. CASE k = i
    <3>1. j # i /\ new[j] = ps[j] /\ ps[j] # Nobody BY <1>3, <2>3
    <3>2. ps[j].reader # r /\ new[k].reader \in {r, Nobody} BY <1>3, <2>3, <3>1
    <3> QED BY <3>1, <3>2
  <2> QED BY <2>1, <2>2, <2>3
<1> QED BY <1>3 DEF Apart

LEMMA AloneApart ==
  ASSUME NEW ps, NEW new, NEW i \in 1 .. MaxPolls, NEW r, NEW calls, NEW later, NEW over,
         Alone(i, ps), Replaces(i, r, ps, new, calls, later)
  PROVE  Apart(new, over)
BY DEF Replaces, Alone, Apart

LEMMA TakeOrPollShape ==
  ASSUME Shape, NEW r \in Readers, NEW s \in Sessions, NEW limited \in BOOLEAN, NEW i \in 1 .. MaxPolls,
         NEW held \in [Sessions -> Seq(Events)],
         TakeOrPoll(r, s, limited, i, held), Still, spilled' = spilled, wire' = wire,
         unclaimed' \in [Ids -> Seq(Events)],
         \A j \in 1 .. MaxPolls : j # i /\ polls[j] # Nobody => polls[j].reader # r
  PROVE  Shape'
<1>1. Basic /\ Queues /\ GoodPolls(polls, session, opened, asking) /\ Apart(polls, overlapped) /\ RoutesInv
  BY ShapeParts
<1>2. polls \in [1 .. MaxPolls -> Poll \cup {Nobody}] /\ DOMAIN polls = 1 .. MaxPolls
  BY <1>1 DEF GoodPolls
<1>3. CASE held[s] # <<>>
  <2>1. /\ delivered' = [delivered EXCEPT ![s] = Append(delivered[s], Head(held[s]))]
        /\ queues' = [held EXCEPT ![s] = Tail(held[s])]
        /\ asking' = [asking EXCEPT ![r] = Nobody]
        /\ polls' = [polls EXCEPT ![i] = Nobody]
        /\ overlapped' = overlapped
    BY <1>3 DEF TakeOrPoll
  <2>2. held[s] \in Seq(Events) /\ delivered[s] \in Seq(Events) BY <1>1 DEF Queues
  <2>3. Head(held[s]) \in Events /\ Tail(held[s]) \in Seq(Events) BY <1>3, <2>2, HeadFacts
  <2>4. Append(delivered[s], Head(held[s])) \in Seq(Events) BY <2>2, <2>3, AppendFacts
  <2>5. Queues' BY <1>1, <2>1, <2>3, <2>4 DEF Queues
  <2>6. asking' \in [Readers -> Limit \cup {Nobody}] BY <1>1, <2>1 DEF Basic
  <2>7. Basic' /\ RoutesInv' BY <1>1, <2>1, <2>6, StillShape DEF Basic
  <2>8. /\ polls' \in [1 .. MaxPolls -> Poll \cup {Nobody}] /\ polls'[i] = Nobody
        /\ Replaces(i, r, polls, polls', asking, asking')
    BY <1>1, <1>2, <2>1 DEF Basic, Replaces
  <2>9. GoodPolls(polls', session, opened, asking') /\ Apart(polls', overlapped)
    <3>1. GoodPolls(polls', session, opened, asking') BY <1>1, <2>8, ReplacedGood
    <3>2. Apart(polls', overlapped) BY <1>1, <2>8, RemovedApart
    <3> QED BY <3>1, <3>2
  <2>10. GoodPolls(polls', session', opened', asking') /\ Apart(polls', overlapped')
    BY <2>1, <2>9 DEF Still
  <2> QED BY <2>5, <2>7, <2>10, ShapeNext
<1>4. CASE held[s] = <<>> /\ NextEntry(0) = 0
  <2>1. /\ delivered' = delivered /\ queues' = held
        /\ asking' = [asking EXCEPT ![r] = Nobody]
        /\ polls' = [polls EXCEPT ![i] = Nobody]
        /\ overlapped' = overlapped
    BY <1>4 DEF TakeOrPoll
  <2>5. Queues' BY <1>1, <2>1 DEF Queues
  <2>6. asking' \in [Readers -> Limit \cup {Nobody}] BY <1>1, <2>1 DEF Basic
  <2>7. Basic' /\ RoutesInv' BY <1>1, <2>1, <2>6, StillShape DEF Basic
  <2>8. /\ polls' \in [1 .. MaxPolls -> Poll \cup {Nobody}] /\ polls'[i] = Nobody
        /\ Replaces(i, r, polls, polls', asking, asking')
    BY <1>1, <1>2, <2>1 DEF Basic, Replaces
  <2>9. GoodPolls(polls', session, opened, asking') /\ Apart(polls', overlapped)
    <3>1. GoodPolls(polls', session, opened, asking') BY <1>1, <2>8, ReplacedGood
    <3>2. Apart(polls', overlapped) BY <1>1, <2>8, RemovedApart
    <3> QED BY <3>1, <3>2
  <2>10. GoodPolls(polls', session', opened', asking') /\ Apart(polls', overlapped')
    BY <2>1, <2>9 DEF Still
  <2> QED BY <2>5, <2>7, <2>10, ShapeNext
<1>5. CASE held[s] = <<>> /\ NextEntry(0) # 0
  <2> DEFINE u == <<>>
             p == Visiting(NextEntry(0), u, r, s)
             c == [session |-> s, limited |-> limited]
  <2>1. /\ delivered' = delivered /\ queues' = held
        /\ asking' = [asking EXCEPT ![r] = c]
        /\ polls' = [polls EXCEPT ![i] = p]
        /\ overlapped' = (overlapped \/ UnderWay \ {i} # {})
    BY <1>5 DEF TakeOrPoll
  <2>2. c \in Limit /\ c # Nobody BY NobodyAssumption DEF Limit
  <2> HIDE DEF c
  <2>3. NextEntry(0) \in 1 .. Len(opened) /\ Listed(opened[NextEntry(0)])
    BY <1>1, <1>5, NextEntryFacts DEF Basic
  <2>4. asking' \in [Readers -> Limit \cup {Nobody}] /\ asking'[r] # Nobody
    BY <1>1, <2>1, <2>2 DEF Basic
  <2>5. p \in Poll /\ p # Nobody /\ p.reader = r /\ GoodPoll(p, session, opened, asking')
    <3>1. u \in Seq(Events) /\ Len(u) <= MaxEvents BY RoutingAssumption
    <3>2. r \in Readers \cup {Nobody} OBVIOUS
    <3>3. r # Nobody => asking'[r] # Nobody BY <2>4
    <3> HIDE DEF u
    <3>4. /\ Visiting(NextEntry(0), u, r, s) \in Poll /\ Visiting(NextEntry(0), u, r, s) # Nobody
          /\ Visiting(NextEntry(0), u, r, s).reader = r
          /\ GoodPoll(Visiting(NextEntry(0), u, r, s), session, opened, asking')
      BY <1>1, <2>3, <3>1, <3>2, <3>3, VisitingFacts
    <3> QED BY <3>4
  <2> HIDE DEF p
  <2>6. Queues' BY <1>1, <2>1 DEF Queues
  <2>7. overlapped' \in BOOLEAN BY <1>1, <2>1 DEF Basic
  <2>8. Basic' /\ RoutesInv' BY <1>1, <2>4, <2>7, StillShape DEF Basic
  <2>9. /\ polls' \in [1 .. MaxPolls -> Poll \cup {Nobody}] /\ polls'[i] = p
        /\ Replaces(i, r, polls, polls', asking, asking')
    BY <1>1, <1>2, <2>1, <2>5 DEF Basic, Replaces
  <2>10. overlapped' \/ Alone(i, polls)
    <3>1. \A j \in 1 .. MaxPolls : j # i /\ polls[j] # Nobody => j \in UnderWay \ {i} BY <1>2 DEF UnderWay
    <3> QED BY <2>1, <3>1 DEF Alone
  <2>11. overlapped => overlapped' BY <1>1, <2>1 DEF Basic
  <2>12. GoodPolls(polls', session, opened, asking') /\ Apart(polls', overlapped')
    <3>1. GoodPoll(polls'[i], session, opened, asking') /\ polls'[i].reader \in {r, Nobody} BY <2>5, <2>9
    <3>2. GoodPolls(polls', session, opened, asking') BY <1>1, <2>9, <3>1, ReplacedGood
    <3>3. Apart(polls', TRUE) BY <1>1, <2>9, <3>1, ReplacedApart
    <3>4. CASE overlapped' = TRUE BY <3>2, <3>3, <3>4
    <3>5. CASE overlapped' = FALSE
      <4>1. Apart(polls', overlapped') BY <2>9, <2>10, <3>5, AloneApart
      <4> QED BY <3>2, <4>1
    <3> QED BY <2>7, <3>4, <3>5
  <2>13. GoodPolls(polls', session', opened', asking')
    BY <2>12 DEF Still
  <2> QED BY <2>6, <2>8, <2>12, <2>13, ShapeNext
<1> QED BY <1>3, <1>4, <1>5

LEMMA AskShape ==
  ASSUME Shape, NEW r \in Readers, NEW s \in Sessions, NEW limited \in BOOLEAN, Ask(r, s, limited)
  PROVE  /\ Shape'
         /\ \E i \in 1 .. MaxPolls : polls[i] = Nobody /\ TakeOrPoll(r, s, limited, i, queues)
<1>1. Basic /\ Queues /\ GoodPolls(polls, session, opened, asking) /\ Apart(polls, overlapped) /\ RoutesInv
  BY ShapeParts
<1> DEFINE free == DOMAIN polls \ UnderWay
<1>2. /\ free # {} /\ free \in SUBSET Nat
      /\ \A i \in free : i \in 1 .. MaxPolls /\ polls[i] = Nobody
  BY <1>1 DEF Ask, UnderWay, GoodPolls
<1>3. /\ asking[r] = Nobody /\ TakeOrPoll(r, s, limited, Min(free), queues)
      /\ session' = session /\ opened' = opened /\ mapped' = mapped /\ wire' = wire
      /\ unclaimed' = unclaimed /\ arrived' = arrived /\ spilled' = spilled
  BY DEF Ask
<1> HIDE DEF free
<1>4. Min(free) \in free
  BY <1>2, MinOfNats
<1>5. PICK i \in 1 .. MaxPolls : i = Min(free)
  BY <1>2, <1>4
<1>6. polls[i] = Nobody /\ TakeOrPoll(r, s, limited, i, queues)
  BY <1>2, <1>3, <1>4, <1>5
<1>7. \A j \in 1 .. MaxPolls : j # i /\ polls[j] # Nobody => polls[j].reader # r
  <2> SUFFICES ASSUME NEW j \in 1 .. MaxPolls, polls[j] # Nobody, polls[j].reader = r PROVE FALSE
    OBVIOUS
  <2>1. r # Nobody BY RoutingAssumption
  <2>2. asking[r] # Nobody BY <1>1, <2>1 DEF GoodPolls, GoodPoll
  <2> QED BY <1>3, <2>2
<1>8. Still /\ unclaimed' \in [Ids -> Seq(Events)] /\ queues \in [Sessions -> Seq(Events)]
  BY <1>1, <1>3 DEF Still, Queues
<1>9. Shape'
  BY <1>3, <1>6, <1>7, <1>8, TakeOrPollShape
<1> QED BY <1>6, <1>9

LEMMA AbandonShape ==
  ASSUME Shape, NEW r \in Readers, Abandon(r)
  PROVE  Shape' /\ \A i \in 1 .. MaxPolls : Held(polls', i) = Held(polls, i)
<1>1. Basic /\ Queues /\ GoodPolls(polls, session, opened, asking) /\ Apart(polls, overlapped) /\ RoutesInv
  BY ShapeParts
<1>2. /\ asking' = [asking EXCEPT ![r] = Nobody]
      /\ polls' = [i \in DOMAIN polls |->
           IF i \in UnderWay /\ polls[i].reader = r THEN [polls[i] EXCEPT !.reader = Nobody] ELSE polls[i]]
      /\ session' = session /\ opened' = opened /\ mapped' = mapped /\ wire' = wire /\ queues' = queues
      /\ unclaimed' = unclaimed /\ arrived' = arrived /\ delivered' = delivered /\ spilled' = spilled
      /\ overlapped' = overlapped
  BY DEF Abandon
<1>3. DOMAIN polls = 1 .. MaxPolls /\ DOMAIN polls' = 1 .. MaxPolls
  BY <1>1, <1>2 DEF GoodPolls
<1>4. ASSUME NEW i \in 1 .. MaxPolls
      PROVE  \/ polls[i] = Nobody /\ polls'[i] = Nobody
             \/ /\ polls[i] # Nobody /\ polls'[i] # Nobody
                /\ polls'[i] \in Poll /\ polls'[i].reader \in {polls[i].reader, Nobody}
                /\ Holding(polls'[i]) = Holding(polls[i])
                /\ GoodPoll(polls'[i], session, opened, asking')
  <2>1. i \in UnderWay <=> polls[i] # Nobody BY <1>3 DEF UnderWay
  <2>2. CASE polls[i] = Nobody BY <1>2, <1>3, <2>1, <2>2
  <2>3. CASE polls[i] # Nobody
    <3>1. polls[i] \in Poll /\ GoodPoll(polls[i], session, opened, asking) BY <1>1, <2>3 DEF GoodPolls
    <3>2. CASE polls[i].reader = r
      <4> DEFINE p == [polls[i] EXCEPT !.reader = Nobody]
      <4>1. polls'[i] = p BY <1>2, <1>3, <2>1, <2>3, <3>2
      <4>2. /\ p \in Poll /\ p.at = polls[i].at /\ p.reader = Nobody /\ p.stage = polls[i].stage
            /\ p.batch = polls[i].batch /\ p.fresh = polls[i].fresh
        BY <3>1 DEF Poll
      <4>3. p # Nobody BY <4>2, NobodyAssumption
      <4> HIDE DEF p
      <4>4. Holding(p) = Holding(polls[i]) BY <4>2 DEF Holding
      <4>5. GoodPoll(p, session, opened, asking') BY <3>1, <4>2, <4>4 DEF GoodPoll
      <4> QED BY <2>3, <4>1, <4>2, <4>3, <4>4, <4>5
    <3>3. CASE polls[i].reader # r
      <4>1. polls'[i] = polls[i] BY <1>2, <1>3, <3>3
      <4>2. polls[i].reader \in Readers \cup {Nobody} BY <3>1, PollFacts
      <4>3. GoodPoll(polls[i], session, opened, asking') BY <1>1, <1>2, <3>1, <3>3, <4>2 DEF GoodPoll, Basic
      <4> QED BY <2>3, <3>1, <4>1, <4>3
    <3> QED BY <3>2, <3>3
  <2> QED BY <2>2, <2>3
<1>5. GoodPolls(polls', session', opened', asking')
  <2>1. polls' \in [1 .. MaxPolls -> Poll \cup {Nobody}]
    <3>1. \A i \in 1 .. MaxPolls : polls'[i] \in Poll \cup {Nobody} BY <1>4
    <3>2. polls' = [i \in 1 .. MaxPolls |-> polls'[i]] BY <1>2, <1>3
    <3> QED BY <3>1, <3>2
  <2> QED BY <1>2, <1>4, <2>1 DEF GoodPolls
<1>6. Apart(polls', overlapped')
  <2>1. \A i \in 1 .. MaxPolls : polls'[i] = Nobody \/ (polls[i] # Nobody /\ polls'[i].reader \in {polls[i].reader, Nobody})
    BY <1>4
  <2> QED BY <1>1, <1>2, <2>1, ApartKeeps
<1>7. Basic' /\ RoutesInv'
  <2>1. asking' \in [Readers -> Limit \cup {Nobody}] BY <1>1, <1>2 DEF Basic
  <2>2. Still BY <1>2 DEF Still
  <2>3. spilled' \subseteq [event : Events, for : Sessions] /\ overlapped' \in BOOLEAN BY <1>1, <1>2 DEF Basic
  <2> QED BY <1>1, <2>1, <2>2, <2>3, StillShape
<1>8. Shape'
  BY <1>1, <1>2, <1>5, <1>6, <1>7, ShapeNext DEF Queues
<1>9. \A i \in 1 .. MaxPolls : Held(polls', i) = Held(polls, i)
  BY <1>4 DEF Held
<1> QED BY <1>8, <1>9

(* A native poll takes the first n events that wait at a session.          *)
Takes(i, s, n) ==
  /\ s \in Sessions /\ n \in 0 .. Len(wire[s])
  /\ wire' = [wire EXCEPT ![s] = SubSeq(wire[s], n + 1, Len(wire[s]))]
  /\ Held(polls', i) = Held(polls, i) \o SubSeq(wire[s], 1, n)
  /\ \A j \in 1 .. MaxPolls : j # i => polls'[j] = polls[j]

LEMMA TakesShape ==
  ASSUME Shape, NEW i \in 1 .. MaxPolls, NativePollTakes(i)
  PROVE  Shape' /\ polls[i] # Nobody /\ \E s, n : Takes(i, s, n)
<1>1. Basic /\ Queues /\ GoodPolls(polls, session, opened, asking) /\ Apart(polls, overlapped) /\ RoutesInv
  BY ShapeParts
<1> DEFINE s == opened[polls[i].at]
           room == MaxEvents - Len(polls[i].batch)
<1>2. /\ polls[i] # Nobody /\ polls[i] \in Poll /\ GoodPoll(polls[i], session, opened, asking)
      /\ polls[i].stage = "native" /\ polls \in [1 .. MaxPolls -> Poll \cup {Nobody}]
  BY <1>1 DEF NativePollTakes, UnderWay, GoodPolls
<1>3. PICK n \in 0 .. Min({room, Len(wire[s])}) :
        /\ polls' = [polls EXCEPT ![i].fresh = SubSeq(wire[s], 1, n), ![i].stage = "taken"]
        /\ wire' = [wire EXCEPT ![s] = SubSeq(wire[s], n + 1, Len(wire[s]))]
  BY DEF NativePollTakes
<1>4. s \in Sessions /\ wire[s] \in Seq(Events) /\ polls[i].fresh = <<>> /\ polls[i].batch \in Seq(Events)
  BY <1>1, <1>2, PollFacts DEF Basic, Queues, GoodPoll
<1>5. Holding(polls[i]) = polls[i].batch /\ Len(polls[i].batch) <= MaxEvents
  <2>1. polls[i].batch \o <<>> = polls[i].batch BY <1>4
  <2> QED BY <1>2, <1>4, <2>1 DEF Holding, GoodPoll
<1>6. /\ session' = session /\ opened' = opened /\ mapped' = mapped /\ queues' = queues
      /\ unclaimed' = unclaimed /\ arrived' = arrived /\ delivered' = delivered /\ spilled' = spilled
      /\ asking' = asking /\ overlapped' = overlapped
  BY DEF NativePollTakes
<1> HIDE DEF s
<1>7. n \in 0 .. Len(wire[s]) /\ Len(polls[i].batch) + n <= MaxEvents
  <2>1. Len(polls[i].batch) \in Nat /\ Len(wire[s]) \in Nat /\ MaxEvents \in Nat
    BY <1>4, RoutingAssumption
  <2>2. room \in Nat /\ {room, Len(wire[s])} \in SUBSET Nat BY <1>5, <2>1
  <2>3. Min({room, Len(wire[s])}) \in {room, Len(wire[s])} /\ \A y \in {room, Len(wire[s])} : Min({room, Len(wire[s])}) <= y
    <3> DEFINE I == {room, Len(wire[s])}
    <3>1. I \in SUBSET Nat /\ I # {} BY <2>2
    <3> HIDE DEF I
    <3>4. Min(I) \in I /\ \A y \in I : Min(I) <= y BY <3>1, MinOfNats
    <3> QED BY <3>4 DEF I
  <2>4. n <= room /\ n <= Len(wire[s]) /\ n \in Nat BY <2>1, <2>2, <2>3
  <2> QED BY <2>1, <2>4
<1> DEFINE f == SubSeq(wire[s], 1, n)
           rest == SubSeq(wire[s], n + 1, Len(wire[s]))
           p == [polls[i] EXCEPT !.fresh = f, !.stage = "taken"]
<1>8. f \in Seq(Events) /\ rest \in Seq(Events) /\ Len(f) = n
  BY <1>4, <1>7, SplitFacts
<1>9. polls' = [polls EXCEPT ![i] = p] /\ wire' = [wire EXCEPT ![s] = rest]
  BY <1>3
<1> HIDE DEF f, rest
<1>10. /\ p \in Poll /\ p.at = polls[i].at /\ p.reader = polls[i].reader /\ p.stage = "taken"
       /\ p.batch = polls[i].batch /\ p.fresh = f
  BY <1>2, <1>8 DEF Poll
<1>11. p # Nobody
  BY <1>10, NobodyAssumption
<1> HIDE DEF p
<1>12. Holding(p) = polls[i].batch \o f /\ Len(Holding(p)) = Len(polls[i].batch) + n
  <2>1. Holding(p) = polls[i].batch \o f BY <1>10 DEF Holding
  <2>2. Len(polls[i].batch \o f) = Len(polls[i].batch) + Len(f) BY <1>4, <1>8, ConcatIndexes
  <2> QED BY <1>8, <2>1, <2>2
<1>13. GoodPoll(p, session', opened', asking')
  <2>1. polls[i].stage # "opening" BY <1>2
  <2> QED BY <1>2, <1>6, <1>7, <1>10, <1>12, <2>1 DEF GoodPoll
<1>14. /\ polls' \in [1 .. MaxPolls -> Poll \cup {Nobody}] /\ polls'[i] = p
       /\ \A j \in 1 .. MaxPolls : j # i => polls'[j] = polls[j]
  BY <1>2, <1>9, <1>10
<1>15. GoodPolls(polls', session', opened', asking')
  BY <1>1, <1>6, <1>13, <1>14 DEF GoodPolls
<1>16. Apart(polls', overlapped')
  <2>1. \A j \in 1 .. MaxPolls : polls'[j] = Nobody \/ (polls[j] # Nobody /\ polls'[j].reader \in {polls[j].reader, Nobody})
    BY <1>2, <1>10, <1>14
  <2> QED BY <1>1, <1>6, <2>1, ApartKeeps
<1>17. Basic' /\ RoutesInv'
  <2>1. Still BY <1>6 DEF Still
  <2>2. /\ asking' \in [Readers -> Limit \cup {Nobody}] /\ overlapped' \in BOOLEAN
        /\ spilled' \subseteq [event : Events, for : Sessions]
    BY <1>1, <1>6 DEF Basic
  <2> QED BY <1>1, <2>1, <2>2, StillShape
<1>18. Queues'
  BY <1>1, <1>4, <1>6, <1>8, <1>9 DEF Queues
<1>19. Takes(i, s, n)
  <2>1. Held(polls', i) = Held(polls, i) \o f BY <1>2, <1>5, <1>11, <1>12, <1>14 DEF Held
  <2> QED BY <1>4, <1>7, <1>9, <1>14, <2>1 DEF Takes, f, rest
<1> QED BY <1>2, <1>15, <1>16, <1>17, <1>18, <1>19, ShapeNext

LEMMA RefusesShape ==
  ASSUME Shape, NEW i \in 1 .. MaxPolls, NativePollRefuses(i)
  PROVE  Shape'
<1>1. /\ i \in UnderWay /\ Rejected(i)
      /\ session' = session /\ opened' = opened /\ mapped' = mapped /\ wire' = wire /\ queues' = queues
      /\ unclaimed' = unclaimed /\ arrived' = arrived /\ delivered' = delivered /\ overlapped' = overlapped
  BY DEF NativePollRefuses
<1>2. Still /\ Queues'
  BY <1>1, ShapeParts DEF Still, Queues
<1> QED BY <1>1, <1>2, RejectedShape

LEMMA RoutedTypes ==
  ASSUME Queues, NEW batch \in Seq(Events)
  PROVE  Routed(batch) \in [Sessions -> Seq(Events)] /\ Unrouted(batch) \in [Ids -> Seq(Events)]
<1>1. ASSUME NEW s \in Sessions PROVE queues[s] \o EventsOf(batch, RoutedTo(s)) \in Seq(Events)
  <2>1. queues[s] \in Seq(Events) /\ EventsOf(batch, RoutedTo(s)) \in Seq(Events)
    BY EventsOfChosen DEF Queues
  <2> QED BY <2>1
<1>2. ASSUME NEW id \in Ids PROVE unclaimed[id] \o EventsOf(batch, UnroutedAt(id)) \in Seq(Events)
  <2>1. unclaimed[id] \in Seq(Events) /\ EventsOf(batch, UnroutedAt(id)) \in Seq(Events)
    BY EventsOfChosen DEF Queues
  <2> QED BY <2>1
<1> QED BY <1>1, <1>2 DEF Routed, Unrouted

(* The walk of poll i is over, and its caller routes what it collected.     *)
RoutesBatch(i) ==
  /\ unclaimed' = Unrouted(Holding(polls[i]))
  /\ TakeOrPoll(polls[i].reader, polls[i].for, asking[polls[i].reader].limited, i, Routed(Holding(polls[i])))
  /\ spilled' = spilled

WalksOn(i) ==
  /\ Held(polls', i) = Held(polls, i)
  /\ \A j \in 1 .. MaxPolls : j # i => polls'[j] = polls[j]
  /\ queues' = queues /\ unclaimed' = unclaimed /\ asking' = asking /\ delivered' = delivered
  /\ spilled' = spilled /\ overlapped' = overlapped

LEMMA ResumesShape ==
  ASSUME Shape, NEW i \in 1 .. MaxPolls, PollResumes(i)
  PROVE  /\ Shape' /\ Still /\ wire' = wire /\ polls[i] # Nobody
         /\ \/ WalksOn(i)
            \/ Rejected(i) /\ queues' = queues /\ unclaimed' = unclaimed /\ delivered' = delivered
                 /\ overlapped' = overlapped
            \/ RoutesBatch(i)
<1>1. Basic /\ Queues /\ GoodPolls(polls, session, opened, asking) /\ Apart(polls, overlapped) /\ RoutesInv
  BY ShapeParts
<1>2. /\ i \in UnderWay /\ polls[i] # Nobody /\ polls[i] \in Poll /\ GoodPoll(polls[i], session, opened, asking)
      /\ polls \in [1 .. MaxPolls -> Poll \cup {Nobody}]
      /\ session' = session /\ opened' = opened /\ mapped' = mapped /\ wire' = wire /\ arrived' = arrived
  BY <1>1 DEF PollResumes, UnderWay, GoodPolls
<1> DEFINE batch == Holding(polls[i])
           next == NextEntry(polls[i].at)
           reader == polls[i].reader
           walkEnds == next = 0 \/ Len(batch) >= MaxEvents
<1>3. \/ /\ ~walkEnds
         /\ polls' = [polls EXCEPT ![i] = Visiting(next, batch, reader, polls[i].for)]
         /\ queues' = queues /\ unclaimed' = unclaimed /\ asking' = asking /\ delivered' = delivered
         /\ spilled' = spilled /\ overlapped' = overlapped
      \/ /\ Rejected(i)
         /\ queues' = queues /\ unclaimed' = unclaimed /\ delivered' = delivered /\ overlapped' = overlapped
      \/ /\ reader # Nobody
         /\ unclaimed' = Unrouted(batch)
         /\ TakeOrPoll(reader, polls[i].for, asking[reader].limited, i, Routed(batch))
         /\ spilled' = spilled
  BY DEF PollResumes
<1>4. batch \in Seq(Events) /\ polls[i].for \in Sessions /\ reader \in Readers \cup {Nobody} /\ polls[i].at \in Nat
  BY <1>2, PollFacts
<1>5. Still
  BY <1>2 DEF Still
<1>6. ASSUME /\ ~walkEnds
             /\ polls' = [polls EXCEPT ![i] = Visiting(next, batch, reader, polls[i].for)]
             /\ queues' = queues /\ unclaimed' = unclaimed /\ asking' = asking /\ delivered' = delivered
             /\ spilled' = spilled /\ overlapped' = overlapped
      PROVE  Shape' /\ WalksOn(i)
  <2>1. next \in 1 .. Len(opened) /\ Listed(opened[next])
    BY <1>1, <1>4, <1>6, NextEntryFacts DEF Basic
  <2>2. Len(batch) <= MaxEvents /\ (reader # Nobody => asking[reader] # Nobody)
    BY <1>2 DEF GoodPoll
  <2> DEFINE p == Visiting(next, batch, reader, polls[i].for)
  <2> DEFINE for == polls[i].for
  <2>a. for \in Sessions BY <1>4
  <2> HIDE DEF batch, next, reader, for
  <2>b. /\ Visiting(next, batch, reader, for) \in Poll /\ Visiting(next, batch, reader, for) # Nobody
        /\ Visiting(next, batch, reader, for).reader = reader
        /\ Holding(Visiting(next, batch, reader, for)) = batch
        /\ GoodPoll(Visiting(next, batch, reader, for), session, opened, asking)
    BY <1>1, <1>4, <2>a, <2>1, <2>2, VisitingFacts
  <2>3. p \in Poll /\ p # Nobody /\ p.reader = reader /\ Holding(p) = batch /\ GoodPoll(p, session, opened, asking)
    BY <2>b DEF for
  <2>4. polls' = [polls EXCEPT ![i] = p]
    BY <1>6
  <2> HIDE DEF p
  <2>5. /\ polls' \in [1 .. MaxPolls -> Poll \cup {Nobody}] /\ polls'[i] = p
        /\ \A j \in 1 .. MaxPolls : j # i => polls'[j] = polls[j]
    BY <1>2, <2>3, <2>4
  <2>6. GoodPolls(polls', session', opened', asking')
    BY <1>1, <1>2, <1>6, <2>3, <2>5 DEF GoodPolls
  <2>7. Apart(polls', overlapped')
    <3>1. \A j \in 1 .. MaxPolls : polls'[j] = Nobody \/ (polls[j] # Nobody /\ polls'[j].reader \in {polls[j].reader, Nobody})
      BY <1>2, <2>3, <2>5 DEF reader
    <3> QED BY <1>1, <1>6, <3>1, ApartKeeps
  <2>8. Queues' BY <1>1, <1>2, <1>6 DEF Queues
  <2>9. Basic' /\ RoutesInv'
    <3>1. /\ asking' \in [Readers -> Limit \cup {Nobody}] /\ overlapped' \in BOOLEAN
          /\ spilled' \subseteq [event : Events, for : Sessions]
      BY <1>1, <1>6 DEF Basic
    <3> QED BY <1>1, <1>5, <3>1, StillShape
  <2>10. Shape' BY <2>6, <2>7, <2>8, <2>9, ShapeNext
  <2>11. Held(polls', i) = Held(polls, i) BY <1>2, <2>3, <2>5 DEF Held, batch
  <2> QED BY <1>6, <2>5, <2>10, <2>11 DEF WalksOn
<1>7. ASSUME /\ Rejected(i)
             /\ queues' = queues /\ unclaimed' = unclaimed /\ delivered' = delivered /\ overlapped' = overlapped
      PROVE  Shape'
  <2>1. Queues' BY <1>1, <1>2, <1>7 DEF Queues
  <2> QED BY <1>2, <1>5, <1>7, <2>1, RejectedShape
<1>8. ASSUME /\ reader # Nobody
             /\ unclaimed' = Unrouted(batch)
             /\ TakeOrPoll(reader, polls[i].for, asking[reader].limited, i, Routed(batch))
             /\ spilled' = spilled
      PROVE  Shape' /\ RoutesBatch(i)
  <2>1. RoutesBatch(i) BY <1>8 DEF RoutesBatch
  <2>2. reader \in Readers /\ asking[reader] # Nobody BY <1>2, <1>4, <1>8 DEF GoodPoll
  <2>3. asking[reader].limited \in BOOLEAN
    <3>1. asking[reader] \in Limit BY <1>1, <2>2 DEF Basic
    <3> QED BY <3>1 DEF Limit
  <2>4. Routed(batch) \in [Sessions -> Seq(Events)] /\ unclaimed' \in [Ids -> Seq(Events)]
    BY <1>1, <1>4, <1>8, RoutedTypes
  <2>5. \A j \in 1 .. MaxPolls : j # i /\ polls[j] # Nobody => polls[j].reader # reader
    BY <1>1, <1>2, <1>8 DEF Apart
  <2> DEFINE for == polls[i].for
             limited == asking[reader].limited
             held == Routed(batch)
  <2>6. /\ TakeOrPoll(reader, for, limited, i, held)
        /\ for \in Sessions /\ limited \in BOOLEAN /\ held \in [Sessions -> Seq(Events)]
    BY <1>4, <1>8, <2>3, <2>4
  <2>a. wire' = wire /\ spilled' = spilled BY <1>2, <1>8
  <2> HIDE DEF reader, for, limited, held, batch
  <2>7. Shape' BY <1>5, <2>2, <2>4, <2>5, <2>6, <2>a, TakeOrPollShape
  <2> QED BY <2>1, <2>7
<1> QED BY <1>2, <1>3, <1>5, <1>6, <1>7, <1>8

-----------------------------------------------------------------------------
(***************************************************************************)
(* The events                                                              *)
(***************************************************************************)
LEMMA SentFacts ==
  /\ \A sent : AllSent(<<>>, sent)
  /\ \A p, q \in Seq(Events) : \A sent : AllSent(p \o q, sent) <=> AllSent(p, sent) /\ AllSent(q, sent)
  /\ \A x \in Events : \A sent : AllSent(<<x>>, sent) <=> SentBefore(x, sent)
<1>1. \A sent : AllSent(<<>>, sent)
  <2> DEFINE u == <<>>
  <2>1. 1 .. Len(u) = {} OBVIOUS
  <2> HIDE DEF u
  <2>2. \A sent : AllSent(u, sent) BY <2>1 DEF AllSent
  <2> QED BY <2>2 DEF u
<1>2. ASSUME NEW p \in Seq(Events), NEW q \in Seq(Events), NEW sent
      PROVE  AllSent(p \o q, sent) <=> AllSent(p, sent) /\ AllSent(q, sent)
  <2> DEFINE c == p \o q
  <2>1. /\ \A k \in 1 .. Len(p) : k \in 1 .. Len(c) /\ c[k] = p[k]
        /\ \A k \in 1 .. Len(q) : Len(p) + k \in 1 .. Len(c) /\ c[Len(p) + k] = q[k]
        /\ \A k \in 1 .. Len(c) : k \in 1 .. Len(p) \/ \E l \in 1 .. Len(q) : k = Len(p) + l
    BY ConcatIndexes
  <2> HIDE DEF c
  <2>2. ASSUME AllSent(c, sent) PROVE AllSent(p, sent) /\ AllSent(q, sent)
    BY <2>1, <2>2 DEF AllSent
  <2>3. ASSUME AllSent(p, sent), AllSent(q, sent), NEW k \in 1 .. Len(c) PROVE SentBefore(c[k], sent)
    <3>1. CASE k \in 1 .. Len(p) BY <2>1, <2>3, <3>1 DEF AllSent
    <3>2. CASE \E l \in 1 .. Len(q) : k = Len(p) + l BY <2>1, <2>3, <3>2 DEF AllSent
    <3> QED BY <2>1, <3>1, <3>2
  <2> QED BY <2>2, <2>3 DEF AllSent, c
<1>3. ASSUME NEW x \in Events, NEW sent PROVE AllSent(<<x>>, sent) <=> SentBefore(x, sent)
  <2> DEFINE u == <<x>>
  <2>1. Len(u) = 1 /\ u[1] = x /\ \A k \in 1 .. 1 : k = 1 OBVIOUS
  <2>2. 1 \in 1 .. 1 OBVIOUS
  <2> HIDE DEF u
  <2>3. AllSent(u, sent) <=> SentBefore(x, sent) BY <2>1, <2>2 DEF AllSent
  <2> QED BY <2>3 DEF u
<1> QED BY <1>1, <1>2, <1>3

LEMMA ChosenSent ==
  ASSUME NEW q \in Seq(Events), NEW x, NEW some, Chosen(q, Len(q), x, some), NEW sent, AllSent(q, sent)
  PROVE  AllSent(x, sent)
<1>1. \A k \in 1 .. Len(x) : \E l \in 1 .. Len(q) : x[k] = q[l]
  BY ChosenFacts
<1> QED BY <1>1 DEF AllSent

LEMMA NothingSent ==
  ASSUME NEW q \in Seq(Events), NEW sent, AllSent(q, sent), NEW s, sent[s] = 0
  PROVE  NoneOf(q, s)
<1> SUFFICES ASSUME NEW k \in 1 .. Len(q), q[k].session = s PROVE FALSE
  BY DEF NoneOf
<1>1. q[k].number \in 1 .. 0
  BY DEF AllSent, SentBefore
<1> QED BY <1>1

SameHeld(ps, ts) == \A i \in 1 .. MaxPolls : Held(ps, i) = Held(ts, i)

SameLine(ws, qs, ds, ps, xs, rs, es, ts, s) ==
  ws[s] = xs[s] /\ qs[s] = rs[s] /\ ds[s] = es[s] /\ SameHeld(ps, ts)

LEMMA LineSame ==
  ASSUME NEW ws, NEW qs, NEW ds, NEW ps, NEW xs, NEW rs, NEW es, NEW ts, NEW s,
         SameLine(ws, qs, ds, ps, xs, rs, es, ts, s)
  PROVE  Line(ws, qs, ds, ps, s) = Line(xs, rs, es, ts, s)
<1> USE DEF SameLine, SameHeld
<1>1. \A b \in PlaceNumbers : b = 0 \/ b \in 1 .. MaxPolls \/ b = MaxPolls + 1 \/ b = MaxPolls + 2
  BY RoutingAssumption DEF PlaceNumbers
<1>2. ASSUME NEW b \in PlaceNumbers
      PROVE  (IF b = 0 THEN ws[s] ELSE IF b = MaxPolls + 1 THEN qs[s]
              ELSE IF b = MaxPolls + 2 THEN ds[s] ELSE Held(ps, b))
             = (IF b = 0 THEN xs[s] ELSE IF b = MaxPolls + 1 THEN rs[s]
                ELSE IF b = MaxPolls + 2 THEN es[s] ELSE Held(ts, b))
  BY <1>1
<1> QED BY <1>2 DEF Line

(* Nothing moves.                                                          *)
LEMMA NothingMoves ==
  ASSUME Shape, Content, NEW state, NEW ps, SameHeld(ps, polls),
         \A s \in Sessions : state[s] = "open" => session[s] = "open" \/ arrived[s] = 0
  PROVE  /\ SentOf(wire, queues, delivered, unclaimed, ps, arrived, spilled)
         /\ AtHomeOf(state, queues, delivered, unclaimed)
         /\ OnceOf(state, wire, queues, delivered, ps, arrived, spilled)
         /\ ~overlapped => SortedOf(wire, queues, delivered, ps)
<1>1. \A s \in Sessions : Line(wire, queues, delivered, ps, s) = Line(wire, queues, delivered, polls, s)
  <2>1. \A s \in Sessions : SameLine(wire, queues, delivered, ps, wire, queues, delivered, polls, s) BY DEF SameLine
  <2> QED BY <2>1, LineSame
<1>2. Queues /\ polls \in [1 .. MaxPolls -> Poll \cup {Nobody}]
  BY ShapeParts DEF GoodPolls
<1>3. SentOf(wire, queues, delivered, unclaimed, ps, arrived, spilled)
  BY <1>1 DEF Content, SentInv, SentOf
<1>4. AtHomeOf(state, queues, delivered, unclaimed)
  <2> SUFFICES ASSUME NEW s \in Sessions, state[s] = "open"
               PROVE  /\ \A t \in Sessions \ {s} : NoneOf(queues[t], s) /\ NoneOf(delivered[t], s)
                      /\ \A id \in Ids : NoneOf(unclaimed[id], s)
    BY DEF AtHomeOf
  <2>1. CASE session[s] = "open" BY <2>1 DEF Content, AtHomeInv, AtHomeOf
  <2>2. CASE arrived[s] = 0
    <3>1. ASSUME NEW t \in Sessions PROVE NoneOf(queues[t], s) /\ NoneOf(delivered[t], s)
      <4> DEFINE line == Line(wire, queues, delivered, polls, t)
      <4>1. LineOf(line, wire, queues, delivered, polls, t) BY <1>2, LineFacts DEF Queues
      <4>2. \A b \in PlaceNumbers : AllSent(line[b], arrived) BY DEF Content, SentInv, SentOf
      <4> HIDE DEF line
      <4>3. AllSent(queues[t], arrived) /\ AllSent(delivered[t], arrived) BY <4>1, <4>2 DEF LineOf
      <4>4. queues[t] \in Seq(Events) /\ delivered[t] \in Seq(Events) BY <1>2 DEF Queues
      <4> QED BY <2>2, <4>3, <4>4, NothingSent
    <3>2. ASSUME NEW id \in Ids PROVE NoneOf(unclaimed[id], s)
      <4>1. AllSent(unclaimed[id], arrived) BY DEF Content, SentInv, SentOf
      <4>2. unclaimed[id] \in Seq(Events) BY <1>2 DEF Queues
      <4> QED BY <2>2, <4>1, <4>2, NothingSent
    <3> QED BY <3>1, <3>2
  <2> QED BY <2>1, <2>2
<1>5. OnceOf(state, wire, queues, delivered, ps, arrived, spilled)
  <2> SUFFICES ASSUME NEW s \in Sessions, state[s] = "open", NEW n \in 1 .. arrived[s]
               PROVE  Once(Line(wire, queues, delivered, polls, s), spilled, EventOf(s, n))
    BY <1>1 DEF OnceOf
  <2>1. arrived[s] # 0 OBVIOUS
  <2> QED BY <2>1 DEF Content, OnceInv, OnceOf
<1>6. ~overlapped => SortedOf(wire, queues, delivered, ps)
  BY <1>1 DEF Content, SortedInv, SortedOf
<1> QED BY <1>3, <1>4, <1>5, <1>6

(* An event goes from the head of its queue to a caller.                   *)
TakesHead(s, qs, ds, rest, given) ==
  /\ qs[s] # <<>>
  /\ rest = [qs EXCEPT ![s] = Tail(qs[s])]
  /\ given = [ds EXCEPT ![s] = Append(ds[s], Head(qs[s]))]

LEMMA HeadMoves ==
  ASSUME NEW ws \in [Sessions -> Seq(Events)], NEW qs \in [Sessions -> Seq(Events)],
         NEW ds \in [Sessions -> Seq(Events)], NEW us,
         NEW ps \in [1 .. MaxPolls -> Poll \cup {Nobody}], NEW state, NEW sent, NEW lost,
         NEW s \in Sessions, NEW rest, NEW given, TakesHead(s, qs, ds, rest, given),
         SentOf(ws, qs, ds, us, ps, sent, lost), AtHomeOf(state, qs, ds, us),
         OnceOf(state, ws, qs, ds, ps, sent, lost)
  PROVE  /\ SentOf(ws, rest, given, us, ps, sent, lost)
         /\ AtHomeOf(state, rest, given, us)
         /\ OnceOf(state, ws, rest, given, ps, sent, lost)
         /\ SortedOf(ws, qs, ds, ps) => SortedOf(ws, rest, given, ps)
<1> DEFINE h == <<Head(qs[s])>>
           tail == Tail(qs[s])
           line == Line(ws, qs, ds, ps, s)
           new == Line(ws, rest, given, ps, s)
<1>1. /\ qs[s] \in Seq(Events) /\ ds[s] \in Seq(Events) /\ h \in Seq(Events) /\ tail \in Seq(Events)
      /\ Head(qs[s]) \in Events /\ qs[s] = h \o tail /\ Append(ds[s], Head(qs[s])) = ds[s] \o h
      /\ ds[s] \o h \in Seq(Events)
  BY HeadFacts, AppendFacts DEF TakesHead
<1>2. /\ rest \in [Sessions -> Seq(Events)] /\ given \in [Sessions -> Seq(Events)]
      /\ rest[s] = tail /\ given[s] = ds[s] \o h
      /\ \A t \in Sessions : t # s => rest[t] = qs[t] /\ given[t] = ds[t]
  BY <1>1 DEF TakesHead
<1>3. LineOf(line, ws, qs, ds, ps, s) /\ LineOf(new, ws, rest, given, ps, s)
  BY <1>2, LineFacts
<1>4. \A t \in Sessions : t # s => Line(ws, rest, given, ps, t) = Line(ws, qs, ds, ps, t)
  <2> SUFFICES ASSUME NEW t \in Sessions, t # s PROVE Line(ws, rest, given, ps, t) = Line(ws, qs, ds, ps, t)
    OBVIOUS
  <2>1. SameLine(ws, rest, given, ps, ws, qs, ds, ps, t) BY <1>2 DEF SameLine, SameHeld
  <2> QED BY <2>1, LineSame
<1> HIDE DEF h, tail, line, new
<1>5. MaxPolls + 1 < MaxPolls + 2 /\ MaxPolls + 1 \in Int /\ MaxPolls + 2 \in Int
  BY RoutingAssumption
<1>6. /\ Moves(line, new, MaxPolls + 1, MaxPolls + 2, h)
      /\ line \in Lines /\ new \in Lines
      /\ line[MaxPolls + 1] = qs[s] /\ new[MaxPolls + 1] = tail
      /\ \A a \in PlaceNumbers : a = MaxPolls + 1 \/ a = MaxPolls + 2 \/ new[a] = line[a]
      /\ new[MaxPolls + 2] = line[MaxPolls + 2] \o h /\ line[MaxPolls + 2] = ds[s]
  BY <1>1, <1>2, <1>3, <1>5 DEF LineOf, Moves
<1>7. \A t : Counted(line[MaxPolls + 1], h, new[MaxPolls + 1], t) /\ Ordered(line[MaxPolls + 1], h, new[MaxPolls + 1], t)
  BY <1>1, <1>6, SplitParts
<1>8. SentOf(ws, rest, given, us, ps, sent, lost)
  <2>1. \A b \in PlaceNumbers : AllSent(line[b], sent) BY DEF SentOf, line
  <2>2. MaxPolls + 1 \in PlaceNumbers /\ MaxPolls + 2 \in PlaceNumbers BY <1>6 DEF Moves
  <2>3. AllSent(h \o tail, sent) /\ AllSent(ds[s], sent) BY <1>1, <1>6, <2>1, <2>2
  <2>4. AllSent(h, sent) /\ AllSent(tail, sent) BY <1>1, <2>3, SentFacts
  <2>5. AllSent(ds[s] \o h, sent) BY <1>1, <2>3, <2>4, SentFacts
  <2>6. \A b \in PlaceNumbers : AllSent(new[b], sent) BY <1>6, <2>1, <2>4, <2>5
  <2> QED BY <1>4, <2>6 DEF SentOf, new
<1>9. AtHomeOf(state, rest, given, us)
  <2> SUFFICES ASSUME NEW u \in Sessions, state[u] = "open", NEW t \in Sessions \ {u}
               PROVE  NoneOf(rest[t], u) /\ NoneOf(given[t], u)
    BY DEF AtHomeOf
  <2>1. NoneOf(qs[t], u) /\ NoneOf(ds[t], u) BY DEF AtHomeOf
  <2>2. CASE t # s BY <1>2, <2>1, <2>2
  <2>3. CASE t = s
    <3>1. NoneOf(h \o tail, u) BY <1>1, <2>1, <2>3
    <3>2. NoneOf(h, u) /\ NoneOf(tail, u) BY <1>1, <3>1, ConcatFacts
    <3>3. NoneOf(ds[s] \o h, u) BY <1>1, <2>1, <2>3, <3>2, ConcatFacts
    <3> QED BY <1>2, <2>3, <3>2, <3>3
  <2> QED BY <2>2, <2>3
<1>10. OnceOf(state, ws, rest, given, ps, sent, lost)
  <2> SUFFICES ASSUME NEW u \in Sessions, state[u] = "open", NEW n \in 1 .. sent[u]
               PROVE  Once(Line(ws, rest, given, ps, u), lost, EventOf(u, n))
    BY DEF OnceOf
  <2>1. Once(Line(ws, qs, ds, ps, u), lost, EventOf(u, n)) BY DEF OnceOf
  <2>2. CASE u # s BY <1>4, <2>1, <2>2
  <2>3. CASE u = s
    <3> DEFINE e == EventOf(u, n)
    <3>1. Once(line, lost, e) BY <2>1, <2>3 DEF line
    <3> HIDE DEF e
    <3>2. Counted(line[MaxPolls + 1], h, new[MaxPolls + 1], e.session) BY <1>7
    <3>3. Once(new, lost, e) BY <1>6, <3>1, <3>2, OnceMoves
    <3> QED BY <2>3, <3>3 DEF new, e
  <2> QED BY <2>2, <2>3
<1>11. ASSUME SortedOf(ws, qs, ds, ps) PROVE SortedOf(ws, rest, given, ps)
  <2> SUFFICES ASSUME NEW u \in Sessions PROVE Sorted(Line(ws, rest, given, ps, u), u)
    BY DEF SortedOf
  <2>1. Sorted(Line(ws, qs, ds, ps, u), u) BY <1>11 DEF SortedOf
  <2>2. CASE u # s BY <1>4, <2>1, <2>2
  <2>3. CASE u = s
    <3>1. Sorted(line, s) BY <2>1, <2>3 DEF line
    <3>2. \A a \in PlaceNumbers : MaxPolls + 1 < a /\ a < MaxPolls + 2 => NoneOf(line[a], s)
      BY RoutingAssumption DEF PlaceNumbers
    <3>3. Sorted(new, s) BY <1>6, <1>7, <3>1, <3>2, SortedMoves
    <3> QED BY <2>3, <3>3 DEF new
  <2> QED BY <2>2, <2>3
<1> QED BY <1>8, <1>9, <1>10, <1>11

(* The batch of poll i goes to the queues, and the poll holds nothing more. *)
Emptied(ps, i) ==
  /\ ps \in [1 .. MaxPolls -> Poll \cup {Nobody}] /\ Held(ps, i) = <<>>
  /\ \A j \in 1 .. MaxPolls : j # i => Held(ps, j) = Held(polls, j)

LEMMA BatchMoves ==
  ASSUME Shape, Content, NEW i \in 1 .. MaxPolls, polls[i] # Nobody, NEW ps, Emptied(ps, i),
         NEW held, held = Routed(Holding(polls[i])), NEW us, us = Unrouted(Holding(polls[i]))
  PROVE  /\ SentOf(wire, held, delivered, us, ps, arrived, spilled)
         /\ AtHomeOf(session, held, delivered, us)
         /\ OnceOf(session, wire, held, delivered, ps, arrived, spilled)
         /\ ~overlapped => SortedOf(wire, held, delivered, ps)
<1> DEFINE batch == Held(polls, i)
           X(s) == EventsOf(batch, RoutedTo(s))
           line(s) == Line(wire, queues, delivered, polls, s)
           new(s) == Line(wire, held, delivered, ps, s)
<1>1. Basic /\ Queues /\ GoodPolls(polls, session, opened, asking) /\ Apart(polls, overlapped) /\ RoutesInv
  BY ShapeParts
<1>2. /\ wire \in [Sessions -> Seq(Events)] /\ queues \in [Sessions -> Seq(Events)]
      /\ delivered \in [Sessions -> Seq(Events)] /\ polls \in [1 .. MaxPolls -> Poll \cup {Nobody}]
      /\ ps \in [1 .. MaxPolls -> Poll \cup {Nobody}] /\ unclaimed \in [Ids -> Seq(Events)]
  BY <1>1 DEF Queues, GoodPolls, Emptied
<1>3. batch = Holding(polls[i]) /\ batch \in Seq(Events)
  <2>1. polls[i] \in Poll BY <1>2
  <2> QED BY <2>1, PollFacts DEF Held
<1>4. /\ held \in [Sessions -> Seq(Events)]
      /\ \A s \in Sessions : held[s] = queues[s] \o X(s)
      /\ \A id \in Ids : us[id] = unclaimed[id] \o EventsOf(batch, UnroutedAt(id))
  BY <1>1, <1>3, RoutedTypes DEF Routed, Unrouted
<1>5. \A s \in Sessions : X(s) \in Seq(Events) /\ Chosen(batch, Len(batch), X(s), RoutedTo(s))
  BY <1>3, EventsOfChosen
<1>6. \A id \in Ids : LET y == EventsOf(batch, UnroutedAt(id))
                      IN y \in Seq(Events) /\ Chosen(batch, Len(batch), y, UnroutedAt(id))
  BY <1>3, EventsOfChosen
<1>7. ASSUME NEW s \in Sessions
      PROVE  LineOf(line(s), wire, queues, delivered, polls, s) /\ LineOf(new(s), wire, held, delivered, ps, s)
  BY <1>2, <1>4, LineFacts
<1> HIDE DEF batch, X, line, new
<1>8. i < MaxPolls + 1 /\ i \in Int /\ MaxPolls + 1 \in Int
  BY RoutingAssumption
<1>9. ASSUME NEW s \in Sessions
      PROVE  /\ Moves(line(s), new(s), i, MaxPolls + 1, X(s))
             /\ line(s) \in Lines /\ new(s) \in Lines
             /\ line(s)[i] = batch /\ new(s)[i] = <<>> /\ line(s)[MaxPolls + 1] = queues[s]
             /\ line(s)[MaxPolls + 2] = delivered[s]
             /\ i \in PlaceNumbers /\ MaxPolls + 1 \in PlaceNumbers /\ MaxPolls + 2 \in PlaceNumbers
             /\ \A a \in PlaceNumbers : a = i \/ a = MaxPolls + 1 \/ new(s)[a] = line(s)[a]
             /\ new(s)[MaxPolls + 1] = queues[s] \o X(s)
  <2>1. /\ line(s) \in Lines /\ new(s) \in Lines
        /\ line(s)[i] = batch /\ new(s)[i] = <<>> /\ line(s)[MaxPolls + 1] = queues[s]
        /\ line(s)[MaxPolls + 2] = delivered[s]
        /\ i \in PlaceNumbers /\ MaxPolls + 1 \in PlaceNumbers /\ MaxPolls + 2 \in PlaceNumbers
        /\ new(s)[MaxPolls + 1] = queues[s] \o X(s)
    BY <1>4, <1>7 DEF LineOf, Emptied, batch
  <2>2. \A a \in PlaceNumbers : a = i \/ a = MaxPolls + 1 \/ new(s)[a] = line(s)[a]
    BY <1>7 DEF LineOf, Emptied
  <2> QED BY <1>5, <1>8, <2>1, <2>2 DEF Moves
<1>10. ASSUME NEW s \in Sessions, NEW t PROVE Ordered(batch, X(s), <<>>, t) /\ (t \in RoutedTo(s) => Counted(batch, X(s), <<>>, t))
  BY <1>3, <1>5, ChosenParts
<1>11. ASSUME NEW s \in Sessions, session[s] = "open"
       PROVE  /\ s \in RoutedTo(s) /\ \A t \in Sessions : t # s => s \notin RoutedTo(t)
              /\ \A id \in Ids : s \notin UnroutedAt(id)
  <2>1. mapped[WireId[s]] = s /\ s # Nobody BY <1>1, <1>11, MappedApart DEF RoutesInv
  <2> QED BY <2>1 DEF RoutedTo, UnroutedAt
<1>12. SentOf(wire, held, delivered, us, ps, arrived, spilled)
  <2>1. ASSUME NEW s \in Sessions PROVE AllSent(batch, arrived) /\ \A b \in PlaceNumbers : AllSent(new(s)[b], arrived)
    <3>1. \A b \in PlaceNumbers : AllSent(line(s)[b], arrived) BY DEF Content, SentInv, SentOf, line
    <3>2. AllSent(batch, arrived) /\ AllSent(queues[s], arrived) BY <1>9, <3>1
    <3>3. AllSent(X(s), arrived) BY <1>3, <1>5, <3>2, ChosenSent
    <3>4. queues[s] \in Seq(Events) BY <1>2
    <3>5. AllSent(queues[s] \o X(s), arrived) BY <1>5, <3>2, <3>3, <3>4, SentFacts
    <3>6. AllSent(<<>>, arrived) BY SentFacts
    <3> QED BY <1>9, <3>1, <3>2, <3>5, <3>6
  <2>2. ASSUME NEW id \in Ids PROVE AllSent(us[id], arrived)
    <3> DEFINE y == EventsOf(batch, UnroutedAt(id))
    <3>1. PICK s \in Sessions : id = WireId[s] BY DEF Ids
    <3>2. AllSent(batch, arrived) BY <2>1
    <3>3. y \in Seq(Events) /\ Chosen(batch, Len(batch), y, UnroutedAt(id)) BY <1>6
    <3>4. us[id] = unclaimed[id] \o y BY <1>4
    <3> HIDE DEF y
    <3>5. AllSent(y, arrived) BY <1>3, <3>2, <3>3, ChosenSent
    <3>6. AllSent(unclaimed[id], arrived) /\ unclaimed[id] \in Seq(Events)
      BY <1>2 DEF Content, SentInv, SentOf
    <3>7. AllSent(unclaimed[id] \o y, arrived) BY <3>3, <3>5, <3>6, SentFacts
    <3> QED BY <3>4, <3>7
  <2> QED BY <2>1, <2>2 DEF Content, SentInv, SentOf, new
<1>13. AtHomeOf(session, held, delivered, us)
  <2> SUFFICES ASSUME NEW s \in Sessions, session[s] = "open"
               PROVE  /\ \A t \in Sessions \ {s} : NoneOf(held[t], s) /\ NoneOf(delivered[t], s)
                      /\ \A id \in Ids : NoneOf(us[id], s)
    BY DEF AtHomeOf
  <2>1. /\ \A t \in Sessions \ {s} : NoneOf(queues[t], s) /\ NoneOf(delivered[t], s)
        /\ \A id \in Ids : NoneOf(unclaimed[id], s)
    BY DEF Content, AtHomeInv, AtHomeOf
  <2>2. ASSUME NEW t \in Sessions \ {s} PROVE NoneOf(held[t], s)
    <3>1. s \notin RoutedTo(t) BY <1>11
    <3>2. Chosen(batch, Len(batch), X(t), RoutedTo(t)) BY <1>5
    <3>3. NoneOf(X(t), s) BY <1>3, <3>1, <3>2, ChosenFacts
    <3>4. queues[t] \in Seq(Events) /\ X(t) \in Seq(Events) /\ NoneOf(queues[t], s) BY <1>2, <1>5, <2>1
    <3>5. NoneOf(queues[t] \o X(t), s) BY <3>3, <3>4, ConcatFacts
    <3> QED BY <1>4, <3>5
  <2>3. ASSUME NEW id \in Ids PROVE NoneOf(us[id], s)
    <3> DEFINE y == EventsOf(batch, UnroutedAt(id))
    <3>1. y \in Seq(Events) /\ Chosen(batch, Len(batch), y, UnroutedAt(id)) BY <1>6
    <3>2. us[id] = unclaimed[id] \o y BY <1>4
    <3> HIDE DEF y
    <3>3. s \notin UnroutedAt(id) BY <1>11
    <3>4. NoneOf(y, s) BY <1>3, <3>1, <3>3, ChosenFacts
    <3>5. unclaimed[id] \in Seq(Events) /\ NoneOf(unclaimed[id], s) BY <1>2, <2>1
    <3>6. NoneOf(unclaimed[id] \o y, s) BY <3>1, <3>4, <3>5, ConcatFacts
    <3> QED BY <3>2, <3>6
  <2> QED BY <2>1, <2>2, <2>3
<1>14. OnceOf(session, wire, held, delivered, ps, arrived, spilled)
  <2> SUFFICES ASSUME NEW s \in Sessions, session[s] = "open", NEW n \in 1 .. arrived[s]
               PROVE  Once(new(s), spilled, EventOf(s, n))
    BY DEF OnceOf, new
  <2> DEFINE e == EventOf(s, n)
  <2>1. Once(line(s), spilled, e) BY DEF Content, OnceInv, OnceOf, line
  <2>2. e.session = s BY DEF EventOf
  <2> HIDE DEF e
  <2>3. Counted(line(s)[i], X(s), new(s)[i], e.session) BY <1>9, <1>10, <1>11, <2>2
  <2>4. Moves(line(s), new(s), i, MaxPolls + 1, X(s)) /\ line(s) \in Lines /\ new(s) \in Lines BY <1>9
  <2>5. Once(new(s), spilled, e) BY <2>1, <2>3, <2>4, OnceMoves
  <2> QED BY <2>5 DEF e
<1>15. ASSUME ~overlapped PROVE SortedOf(wire, held, delivered, ps)
  <2> SUFFICES ASSUME NEW s \in Sessions PROVE Sorted(new(s), s)
    BY DEF SortedOf, new
  <2>1. Sorted(line(s), s) BY <1>15 DEF Content, SortedInv, SortedOf, line
  <2>2. ASSUME NEW a \in PlaceNumbers, i < a, a < MaxPolls + 1 PROVE NoneOf(line(s)[a], s)
    <3>1. a \in 1 .. MaxPolls /\ a # i BY <1>8, <2>2, RoutingAssumption DEF PlaceNumbers
    <3>2. polls[a] = Nobody BY <1>1, <1>15, <3>1 DEF Apart
    <3>3. line(s)[a] = <<>> BY <1>7, <3>1, <3>2 DEF LineOf, Held
    <3> QED BY <3>3, EmptyFacts
  <2>3. Ordered(line(s)[i], X(s), new(s)[i], s) BY <1>9, <1>10
  <2>4. Moves(line(s), new(s), i, MaxPolls + 1, X(s)) /\ line(s) \in Lines /\ new(s) \in Lines BY <1>9
  <2> QED BY <2>1, <2>2, <2>3, <2>4, SortedMoves
<1> QED BY <1>12, <1>13, <1>14, <1>15

(* Of another session, a native poll takes nothing.                        *)
LEMMA NoneParts ==
  ASSUME NEW q \in Seq(Events), NEW x \in Seq(Events), NEW s, NoneOf(x, s)
  PROVE  Counted(q, x, q, s) /\ Ordered(q, x, q, s)
<1>1. ASSUME NEW e, e.session = s PROVE Absent(x, e)
  BY <1>1 DEF NoneOf, Absent
<1>2. Counted(q, x, q, s)
  BY <1>1 DEF Counted
<1>3. Ascends(x, s) /\ \A p : Precedes(x, p, s) /\ Precedes(p, x, s)
  BY DEF NoneOf, Ascends, Precedes
<1> QED BY <1>2, <1>3 DEF Ordered

LEMMA WireMoves ==
  ASSUME Shape, Content, Shape', NEW i \in 1 .. MaxPolls, polls[i] # Nobody, NEW s, NEW n, Takes(i, s, n)
  PROVE  /\ SentOf(wire', queues, delivered, unclaimed, polls', arrived, spilled)
         /\ OnceOf(session, wire', queues, delivered, polls', arrived, spilled)
         /\ ~overlapped => SortedOf(wire', queues, delivered, polls')
<1> DEFINE x == SubSeq(wire[s], 1, n)
           rest == SubSeq(wire[s], n + 1, Len(wire[s]))
           line(t) == Line(wire, queues, delivered, polls, t)
           new(t) == Line(wire', queues, delivered, polls', t)
<1>1. Basic /\ Queues /\ GoodPolls(polls, session, opened, asking) /\ Apart(polls, overlapped) /\ RoutesInv
  BY ShapeParts
<1>2. /\ wire \in [Sessions -> Seq(Events)] /\ queues \in [Sessions -> Seq(Events)]
      /\ delivered \in [Sessions -> Seq(Events)] /\ polls \in [1 .. MaxPolls -> Poll \cup {Nobody}]
      /\ polls' \in [1 .. MaxPolls -> Poll \cup {Nobody}] /\ wire' \in [Sessions -> Seq(Events)]
  BY <1>1 DEF Queues, GoodPolls, Shape, RoutingTypeOK
<1>3. /\ s \in Sessions /\ n \in 0 .. Len(wire[s]) /\ wire' = [wire EXCEPT ![s] = rest]
      /\ Held(polls', i) = Held(polls, i) \o x
      /\ \A j \in 1 .. MaxPolls : j # i => polls'[j] = polls[j]
  BY DEF Takes
<1>4. wire[s] \in Seq(Events) /\ x \in Seq(Events) /\ rest \in Seq(Events) /\ wire[s] = x \o rest
  <2>1. wire[s] \in Seq(Events) BY <1>2, <1>3
  <2> QED BY <1>3, <2>1, SplitFacts
<1>5. ASSUME NEW t \in Sessions
      PROVE  LineOf(line(t), wire, queues, delivered, polls, t) /\ LineOf(new(t), wire', queues, delivered, polls', t)
  BY <1>2, LineFacts
<1> HIDE DEF x, rest, line, new
<1>6. wire'[s] = rest /\ \A t \in Sessions : t # s => wire'[t] = wire[t]
  BY <1>2, <1>3
<1>7. \A j \in 1 .. MaxPolls : j # i => Held(polls', j) = Held(polls, j)
  BY <1>3 DEF Held
<1>8. 0 < i /\ 0 # i
  OBVIOUS
<1>9. ASSUME NEW t \in Sessions
      PROVE  /\ Moves(line(t), new(t), 0, i, x)
             /\ line(t) \in Lines /\ new(t) \in Lines
             /\ line(t)[0] = wire[t] /\ new(t)[0] = wire'[t]
             /\ new(t)[i] = line(t)[i] \o x /\ line(t)[i] \in Seq(Events)
             /\ i \in PlaceNumbers /\ 0 \in PlaceNumbers
             /\ \A a \in PlaceNumbers : a = 0 \/ a = i \/ new(t)[a] = line(t)[a]
  <2>1. /\ line(t) \in Lines /\ new(t) \in Lines
        /\ line(t)[0] = wire[t] /\ new(t)[0] = wire'[t]
        /\ new(t)[i] = line(t)[i] \o x /\ line(t)[i] \in Seq(Events)
        /\ i \in PlaceNumbers /\ 0 \in PlaceNumbers
    BY <1>3, <1>5 DEF LineOf
  <2>2. \A a \in PlaceNumbers : a = 0 \/ a = i \/ new(t)[a] = line(t)[a]
    BY <1>5, <1>7 DEF LineOf
  <2> QED BY <1>4, <1>8, <2>1, <2>2 DEF Moves
<1>10. \A t \in Sessions \ {s} : NoneOf(wire[s], t)
  BY <1>3 DEF Content, SentInv, SentOf
<1>11. \A t \in Sessions \ {s} : NoneOf(x, t) /\ NoneOf(rest, t)
  <2> SUFFICES ASSUME NEW t \in Sessions \ {s} PROVE NoneOf(x, t) /\ NoneOf(rest, t)
    OBVIOUS
  <2>1. NoneOf(x \o rest, t) BY <1>4, <1>10
  <2> QED BY <1>4, <2>1, ConcatFacts
<1>12. ASSUME NEW t \in Sessions
       PROVE  Counted(line(t)[0], x, new(t)[0], t) /\ Ordered(line(t)[0], x, new(t)[0], t)
  <2>1. CASE t = s
    <3>1. line(t)[0] = x \o rest /\ new(t)[0] = rest BY <1>3, <1>4, <1>6, <1>9, <2>1
    <3>2. Counted(x \o rest, x, rest, t) /\ Ordered(x \o rest, x, rest, t) BY <1>4, SplitParts
    <3> QED BY <3>1, <3>2
  <2>2. CASE t # s
    <3>1. line(t)[0] = wire[t] /\ new(t)[0] = wire[t] /\ wire[t] \in Seq(Events) BY <1>2, <1>6, <1>9, <2>2
    <3>2. NoneOf(x, t) BY <1>11, <2>2
    <3>3. Counted(wire[t], x, wire[t], t) /\ Ordered(wire[t], x, wire[t], t) BY <1>4, <3>1, <3>2, NoneParts
    <3> QED BY <3>1, <3>3
  <2> QED BY <2>1, <2>2
<1>13. SentOf(wire', queues, delivered, unclaimed, polls', arrived, spilled)
  <2>1. \A t \in Sessions : \A b \in PlaceNumbers : AllSent(line(t)[b], arrived) BY DEF Content, SentInv, SentOf, line
  <2>2. AllSent(x, arrived) /\ AllSent(rest, arrived)
    <3>1. AllSent(wire[s], arrived) BY <1>3, <1>9, <2>1
    <3>2. AllSent(x \o rest, arrived) BY <1>4, <3>1
    <3> QED BY <1>4, <3>2, SentFacts
  <2>3. ASSUME NEW t \in Sessions, NEW b \in PlaceNumbers PROVE AllSent(new(t)[b], arrived)
    <3>1. CASE b = 0
      <4>1. AllSent(wire[t], arrived) BY <1>9, <2>1
      <4> QED BY <1>6, <1>9, <2>2, <3>1, <4>1
    <3>2. CASE b = i
      <4>1. AllSent(line(t)[i], arrived) /\ line(t)[i] \in Seq(Events) BY <1>9, <2>1
      <4>2. AllSent(line(t)[i] \o x, arrived) BY <1>4, <2>2, <4>1, SentFacts
      <4> QED BY <1>9, <3>2, <4>2
    <3>3. CASE b # 0 /\ b # i
      <4>1. new(t)[b] = line(t)[b] BY <1>9, <3>3
      <4> QED BY <2>1, <4>1
    <3> QED BY <3>1, <3>2, <3>3
  <2>4. ASSUME NEW t \in Sessions, NEW u \in Sessions \ {t} PROVE NoneOf(wire'[u], t)
    <3>1. NoneOf(wire[u], t) BY DEF Content, SentInv, SentOf
    <3>2. CASE u = s BY <1>6, <1>11, <3>2
    <3>3. CASE u # s BY <1>6, <3>1, <3>3
    <3> QED BY <3>2, <3>3
  <2> QED BY <2>3, <2>4 DEF Content, SentInv, SentOf, new
<1>14. OnceOf(session, wire', queues, delivered, polls', arrived, spilled)
  <2> SUFFICES ASSUME NEW t \in Sessions, session[t] = "open", NEW k \in 1 .. arrived[t]
               PROVE  Once(new(t), spilled, EventOf(t, k))
    BY DEF OnceOf, new
  <2> DEFINE e == EventOf(t, k)
  <2>1. Once(line(t), spilled, e) BY DEF Content, OnceInv, OnceOf, line
  <2>2. e.session = t BY DEF EventOf
  <2> HIDE DEF e
  <2>3. Counted(line(t)[0], x, new(t)[0], e.session) BY <1>12, <2>2
  <2>4. Moves(line(t), new(t), 0, i, x) /\ line(t) \in Lines /\ new(t) \in Lines BY <1>9
  <2>5. Once(new(t), spilled, e) BY <2>1, <2>3, <2>4, OnceMoves
  <2> QED BY <2>5 DEF e
<1>15. ASSUME ~overlapped PROVE SortedOf(wire', queues, delivered, polls')
  <2> SUFFICES ASSUME NEW t \in Sessions PROVE Sorted(new(t), t)
    BY DEF SortedOf, new
  <2>1. Sorted(line(t), t) BY <1>15 DEF Content, SortedInv, SortedOf, line
  <2>2. ASSUME NEW a \in PlaceNumbers, 0 < a, a < i PROVE NoneOf(line(t)[a], t)
    <3>1. a \in 1 .. MaxPolls /\ a # i BY <2>2, RoutingAssumption DEF PlaceNumbers
    <3>2. polls[a] = Nobody BY <1>1, <1>15, <3>1 DEF Apart
    <3>3. line(t)[a] = <<>> BY <1>5, <3>1, <3>2 DEF LineOf, Held
    <3> QED BY <3>3, EmptyFacts
  <2>3. Ordered(line(t)[0], x, new(t)[0], t) BY <1>12
  <2>4. Moves(line(t), new(t), 0, i, x) /\ line(t) \in Lines /\ new(t) \in Lines BY <1>9
  <2> QED BY <2>1, <2>2, <2>3, <2>4, SortedMoves
<1> QED BY <1>13, <1>14, <1>15

(* Some polls end, and what they hold is recorded as spilled.               *)
Spills(hit) ==
  /\ hit \subseteq 1 .. MaxPolls
  /\ \A i \in hit : polls[i] # Nobody
  /\ \A i \in 1 .. MaxPolls : Held(polls', i) = IF i \in hit THEN <<>> ELSE Held(polls, i)
  /\ spilled' = spilled \cup UNION {Spill(polls[i]) : i \in hit}

LEMMA PollsSpill ==
  ASSUME Shape, Content, Shape', NEW hit, Spills(hit), NEW state,
         \A s \in Sessions : state[s] = "open" => session[s] = "open"
  PROVE  /\ SentOf(wire, queues, delivered, unclaimed, polls', arrived, spilled')
         /\ OnceOf(state, wire, queues, delivered, polls', arrived, spilled')
         /\ ~overlapped => SortedOf(wire, queues, delivered, polls')
<1> DEFINE line(t) == Line(wire, queues, delivered, polls, t)
           new(t) == Line(wire, queues, delivered, polls', t)
           h == [i \in hit |-> polls[i].for]
<1>1. Basic /\ Queues /\ GoodPolls(polls, session, opened, asking) /\ Apart(polls, overlapped) /\ RoutesInv
  BY ShapeParts
<1>2. /\ wire \in [Sessions -> Seq(Events)] /\ queues \in [Sessions -> Seq(Events)]
      /\ delivered \in [Sessions -> Seq(Events)] /\ polls \in [1 .. MaxPolls -> Poll \cup {Nobody}]
      /\ polls' \in [1 .. MaxPolls -> Poll \cup {Nobody}]
  BY <1>1 DEF Queues, GoodPolls, Shape, RoutingTypeOK
<1>3. ASSUME NEW t \in Sessions
      PROVE  LineOf(line(t), wire, queues, delivered, polls, t) /\ LineOf(new(t), wire, queues, delivered, polls', t)
  BY <1>2, LineFacts
<1> HIDE DEF line, new
<1>4. hit \in SUBSET PlaceNumbers /\ \A i \in hit : i # 0 /\ i # MaxPolls + 1 /\ i # MaxPolls + 2
  BY RoutingAssumption DEF Spills, PlaceNumbers
<1>5. ASSUME NEW t \in Sessions, NEW a \in PlaceNumbers PROVE new(t)[a] = IF a \in hit THEN <<>> ELSE line(t)[a]
  BY <1>3, <1>4 DEF LineOf, Spills
<1>6. ASSUME NEW i \in hit
      PROVE  /\ Held(polls, i) \in Seq(Events) /\ i \in 1 .. MaxPolls
             /\ Spill(polls[i]) = {[event |-> Held(polls, i)[k], for |-> h[i]] : k \in 1 .. Len(Held(polls, i))}
  <2>1. polls[i] # Nobody /\ polls[i] \in Poll /\ i \in 1 .. MaxPolls BY <1>2 DEF Spills
  <2>2. Held(polls, i) = Holding(polls[i]) /\ Held(polls, i) \in Seq(Events) BY <2>1, PollFacts DEF Held
  <2>3. DOMAIN Held(polls, i) = 1 .. Len(Held(polls, i)) BY <2>2
  <2>4. ToSet(Held(polls, i)) = {Held(polls, i)[k] : k \in 1 .. Len(Held(polls, i))} BY <2>3 DEF ToSet
  <2>5. h[i] = polls[i].for OBVIOUS
  <2> HIDE DEF h
  <2> QED BY <2>1, <2>2, <2>4, <2>5 DEF Spill
<1> HIDE DEF h
<1>7. ASSUME NEW y
      PROVE  y \in spilled' <=>
               y \in spilled \/ \E i \in hit : \E k \in 1 .. Len(Held(polls, i)) : y = [event |-> Held(polls, i)[k], for |-> h[i]]
  <2>1. y \in spilled' <=> y \in spilled \/ \E i \in hit : y \in Spill(polls[i]) BY DEF Spills
  <2> QED BY <1>6, <2>1
<1>8. \A t \in Sessions : \A i \in hit : line(t)[i] = Held(polls, i)
  BY <1>3, <1>6 DEF LineOf
<1>9. SentOf(wire, queues, delivered, unclaimed, polls', arrived, spilled')
  <2>1. \A t \in Sessions : \A b \in PlaceNumbers : AllSent(line(t)[b], arrived) BY DEF Content, SentInv, SentOf, line
  <2>2. \A t \in Sessions : \A b \in PlaceNumbers : AllSent(new(t)[b], arrived) BY <1>5, <2>1, SentFacts
  <2>3. ASSUME NEW y \in spilled' PROVE SentBefore(y.event, arrived)
    <3>1. CASE y \in spilled BY <3>1 DEF Content, SentInv, SentOf
    <3>2. ASSUME NEW i \in hit, NEW k \in 1 .. Len(Held(polls, i)), y = [event |-> Held(polls, i)[k], for |-> h[i]]
          PROVE  SentBefore(y.event, arrived)
      <4>1. polls[i] \in Poll /\ polls[i].for \in Sessions BY <1>2, PollFacts DEF Spills
      <4>2. AllSent(Held(polls, i), arrived) BY <1>4, <1>8, <2>1, <4>1
      <4> QED BY <3>2, <4>2 DEF AllSent
    <3> QED BY <1>7, <3>1, <3>2
  <2> QED BY <2>2, <2>3 DEF Content, SentInv, SentOf, new
<1>10. OnceOf(state, wire, queues, delivered, polls', arrived, spilled')
  <2> SUFFICES ASSUME NEW t \in Sessions, state[t] = "open", NEW k \in 1 .. arrived[t]
               PROVE  Once(new(t), spilled', EventOf(t, k))
    BY DEF OnceOf, new
  <2>1. Once(line(t), spilled, EventOf(t, k)) BY DEF Content, OnceInv, OnceOf, line
  <2>2. line(t) \in Lines /\ new(t) \in Lines BY <1>3 DEF LineOf
  <2>3. \A y : y \in spilled' <=>
          y \in spilled \/ \E a \in hit : \E l \in 1 .. Len(line(t)[a]) : y = [event |-> line(t)[a][l], for |-> h[a]]
    BY <1>7, <1>8
  <2>4. \A a \in PlaceNumbers : new(t)[a] = IF a \in hit THEN <<>> ELSE line(t)[a] BY <1>5
  <2>5. SpillsAt(line(t), new(t), hit, h, spilled, spilled') BY <1>4, <2>3, <2>4 DEF SpillsAt
  <2> QED BY <2>1, <2>2, <2>5, OnceSpills
<1>11. ASSUME ~overlapped PROVE SortedOf(wire, queues, delivered, polls')
  <2> SUFFICES ASSUME NEW t \in Sessions PROVE Sorted(new(t), t)
    BY DEF SortedOf, new
  <2>1. Sorted(line(t), t) BY <1>11 DEF Content, SortedInv, SortedOf, line
  <2>2. line(t) \in Lines /\ new(t) \in Lines BY <1>3 DEF LineOf
  <2>3. \A a \in PlaceNumbers : new(t)[a] = <<>> \/ new(t)[a] = line(t)[a] BY <1>5
  <2> QED BY <2>1, <2>2, <2>3, SortedThins
<1> QED BY <1>9, <1>10, <1>11

-----------------------------------------------------------------------------
(* The peer sends an event, and a session is closed.                       *)
LEMMA SentLater ==
  ASSUME NEW q \in Seq(Events), NEW sent \in [Sessions -> Nat], NEW later \in [Sessions -> Nat],
         \A t \in Sessions : sent[t] <= later[t], AllSent(q, sent)
  PROVE  AllSent(q, later)
<1> SUFFICES ASSUME NEW k \in 1 .. Len(q) PROVE SentBefore(q[k], later)
  BY DEF AllSent
<1>1. q[k] \in Events
  OBVIOUS
<1>2. q[k].session \in Sessions
  BY <1>1 DEF Events
<1>3. q[k].number \in 1 .. sent[q[k].session]
  BY DEF AllSent, SentBefore
<1> QED BY <1>2, <1>3 DEF SentBefore

LEMMA ArrivesContent ==
  ASSUME Shape, Content, NEW s \in Sessions, Arrives(s)
  PROVE  Content'
<1> DEFINE x == EventOf(s, arrived[s] + 1)
           line(t) == Line(wire, queues, delivered, polls, t)
           new(t) == Line(wire', queues', delivered', polls', t)
<1>1. Basic /\ Queues /\ GoodPolls(polls, session, opened, asking) /\ Apart(polls, overlapped) /\ RoutesInv
  BY ShapeParts
<1>2. /\ session[s] = "open"
      /\ arrived' = [arrived EXCEPT ![s] = arrived[s] + 1] /\ wire' = [wire EXCEPT ![s] = Append(wire[s], x)]
      /\ session' = session /\ queues' = queues /\ unclaimed' = unclaimed
      /\ polls' = polls /\ delivered' = delivered /\ spilled' = spilled /\ overlapped' = overlapped
  BY DEF Arrives
<1>3. x \in Events /\ x.session = s /\ x.number = arrived[s] + 1 /\ arrived[s] \in Nat
  BY <1>1, ArrivesShape DEF EventOf, Basic
<1>4. /\ wire \in [Sessions -> Seq(Events)] /\ queues \in [Sessions -> Seq(Events)]
      /\ delivered \in [Sessions -> Seq(Events)] /\ polls \in [1 .. MaxPolls -> Poll \cup {Nobody}]
      /\ unclaimed \in [Ids -> Seq(Events)] /\ spilled \subseteq [event : Events, for : Sessions]
  BY <1>1 DEF Queues, Basic, GoodPolls
<1> HIDE DEF x
<1>5. /\ Append(wire[s], x) = wire[s] \o <<x>> /\ <<x>> \in Seq(Events) /\ wire[s] \in Seq(Events)
      /\ wire' \in [Sessions -> Seq(Events)] /\ wire'[s] = Append(wire[s], x)
      /\ \A t \in Sessions : t # s => wire'[t] = wire[t]
  <2>1. wire[s] \in Seq(Events) BY <1>4
  <2>2. Append(wire[s], x) = wire[s] \o <<x>> /\ <<x>> \in Seq(Events) /\ Append(wire[s], x) \in Seq(Events)
    BY <1>3, <2>1, AppendFacts
  <2> QED BY <1>2, <1>4, <2>1, <2>2
<1>6. /\ arrived \in [Sessions -> Nat] /\ arrived' \in [Sessions -> Nat] /\ arrived'[s] = arrived[s] + 1
      /\ \A t \in Sessions : t # s => arrived'[t] = arrived[t]
      /\ \A t \in Sessions : arrived[t] <= arrived'[t]
  BY <1>1, <1>2 DEF Basic
<1>7. ASSUME NEW t \in Sessions
      PROVE  LineOf(line(t), wire, queues, delivered, polls, t) /\ LineOf(new(t), wire', queues', delivered', polls', t)
  BY <1>2, <1>4, <1>5, LineFacts
<1>8. ASSUME NEW t \in Sessions, t # s PROVE new(t) = line(t)
  <2>1. SameLine(wire', queues', delivered', polls', wire, queues, delivered, polls, t)
    BY <1>2, <1>5, <1>8 DEF SameLine, SameHeld
  <2> QED BY <2>1, LineSame
<1> HIDE DEF line, new
<1>9. new(s)[0] = Append(line(s)[0], x) /\ \A a \in PlaceNumbers \ {0} : new(s)[a] = line(s)[a]
  <2>1. LineOf(line(s), wire, queues, delivered, polls, s) /\ LineOf(new(s), wire', queues, delivered, polls, s)
    BY <1>2, <1>7
  <2>2. new(s)[0] = Append(line(s)[0], x) BY <1>5, <2>1 DEF LineOf
  <2>3. ASSUME NEW a \in PlaceNumbers, a # 0 PROVE new(s)[a] = line(s)[a] BY <2>1, <2>3 DEF LineOf
  <2> QED BY <2>2, <2>3
<1>10. ASSUME NEW t \in Sessions, NEW b \in PlaceNumbers PROVE AllSent(line(t)[b], arrived)
  BY DEF Content, SentInv, SentOf, line
<1>11. SentInv'
  <2>1. ASSUME NEW t \in Sessions, NEW b \in PlaceNumbers PROVE AllSent(line(t)[b], arrived')
    <3>1. line(t)[b] \in Seq(Events) BY <1>7 DEF LineOf, Lines
    <3> QED BY <1>6, <1>10, <3>1, SentLater
  <2>2. SentBefore(x, arrived') BY <1>3, <1>6 DEF SentBefore
  <2>3. ASSUME NEW t \in Sessions, NEW b \in PlaceNumbers PROVE AllSent(new(t)[b], arrived')
    <3>1. CASE t # s BY <1>8, <2>1, <3>1
    <3>2. CASE t = s /\ b # 0 BY <1>9, <2>1, <3>2
    <3>3. CASE t = s /\ b = 0
      <4>1. line(s)[0] = wire[s] /\ AllSent(wire[s], arrived') BY <1>7, <2>1, <3>3 DEF LineOf
      <4>2. AllSent(<<x>>, arrived') BY <1>3, <2>2, SentFacts
      <4>3. AllSent(wire[s] \o <<x>>, arrived') BY <1>5, <4>1, <4>2, SentFacts
      <4> QED BY <1>5, <1>9, <3>3, <4>1, <4>3
    <3> QED BY <3>1, <3>2, <3>3
  <2>4. ASSUME NEW u \in Sessions, NEW t \in Sessions \ {u} PROVE NoneOf(wire'[t], u)
    <3>1. NoneOf(wire[t], u) BY DEF Content, SentInv, SentOf
    <3>2. CASE t # s BY <1>5, <3>1, <3>2
    <3>3. CASE t = s
      <4>1. NoneOf(<<x>>, u) BY <1>3, <3>3, UnitFacts
      <4>2. NoneOf(wire[s] \o <<x>>, u) BY <1>5, <3>1, <3>3, <4>1, ConcatFacts
      <4> QED BY <1>5, <3>3, <4>2
    <3> QED BY <3>2, <3>3
  <2>5. ASSUME NEW id \in Ids PROVE AllSent(unclaimed[id], arrived')
    <3>1. AllSent(unclaimed[id], arrived) /\ unclaimed[id] \in Seq(Events) BY <1>4 DEF Content, SentInv, SentOf
    <3> QED BY <1>6, <3>1, SentLater
  <2>6. ASSUME NEW y \in spilled PROVE SentBefore(y.event, arrived')
    <3>1. SentBefore(y.event, arrived) BY DEF Content, SentInv, SentOf
    <3>2. y.event \in Events BY <1>4
    <3>3. y.event.session \in Sessions BY <3>2 DEF Events
    <3> QED BY <1>6, <3>1, <3>3 DEF SentBefore
  <2> QED BY <1>2, <2>3, <2>4, <2>5, <2>6 DEF SentInv, SentOf, new
<1>12. AtHomeInv'
  BY <1>2 DEF Content, AtHomeInv
<1>13. OnceInv'
  <2> SUFFICES ASSUME NEW t \in Sessions, session[t] = "open", NEW k \in 1 .. arrived'[t]
               PROVE  Once(new(t), spilled, EventOf(t, k))
    BY <1>2 DEF OnceInv, OnceOf, new
  <2>1. ASSUME k \in 1 .. arrived[t] PROVE Once(line(t), spilled, EventOf(t, k))
    BY <2>1 DEF Content, OnceInv, OnceOf, line
  <2>2. CASE t # s BY <1>6, <1>8, <2>1, <2>2
  <2>3. CASE t = s /\ k # arrived[s] + 1
    <3>1. k \in 1 .. arrived[t] BY <1>3, <1>6, <2>3
    <3>2. x # EventOf(t, k) BY <1>3, <2>3 DEF EventOf
    <3>3. line(s) \in Lines /\ new(s) \in Lines BY <1>7 DEF LineOf
    <3> QED BY <1>3, <1>9, <2>1, <2>3, <3>1, <3>2, <3>3, OnceArrives
  <2>4. CASE t = s /\ k = arrived[s] + 1
    <3>1. x = EventOf(t, k) BY <2>4 DEF x
    <3>2. line(s) \in Lines /\ new(s) \in Lines BY <1>7 DEF LineOf
    <3>3. ~SentBefore(x, arrived) BY <1>3 DEF SentBefore
    <3>4. ASSUME NEW b \in PlaceNumbers PROVE Absent(line(s)[b], x)
      BY <1>10, <3>3 DEF AllSent, Absent
    <3>5. Nowhere(line(s), x) BY <3>4 DEF Nowhere
    <3>6. Unspilled(spilled, x) BY <3>3 DEF Content, SentInv, SentOf, Unspilled
    <3>7. Once(new(s), spilled, x) BY <1>3, <1>9, <3>2, <3>5, <3>6, OnceArrives
    <3> QED BY <2>4, <3>1, <3>7
  <2> QED BY <2>2, <2>3, <2>4
<1>14. SortedInv'
  <2> SUFFICES ASSUME ~overlapped, NEW t \in Sessions PROVE Sorted(new(t), t)
    BY <1>2 DEF SortedInv, SortedOf, new
  <2>1. Sorted(line(t), t) BY DEF Content, SortedInv, SortedOf, line
  <2>2. CASE t # s BY <1>8, <2>1, <2>2
  <2>3. CASE t = s
    <3>1. line(s) \in Lines /\ new(s) \in Lines BY <1>7 DEF LineOf
    <3>2. \A a \in PlaceNumbers : \A k \in 1 .. Len(line(s)[a]) :
            line(s)[a][k].session = s => line(s)[a][k].number < x.number
      <4> SUFFICES ASSUME NEW a \in PlaceNumbers, NEW k \in 1 .. Len(line(s)[a]), line(s)[a][k].session = s
                   PROVE  line(s)[a][k].number < x.number
        OBVIOUS
      <4>1. line(s)[a][k].number \in 1 .. arrived[s] BY <1>10 DEF AllSent, SentBefore
      <4> QED BY <1>3, <4>1
    <3> QED BY <1>3, <1>9, <2>1, <2>3, <3>1, <3>2, SortedArrives
  <2> QED BY <2>2, <2>3
<1> QED BY <1>11, <1>12, <1>13, <1>14 DEF Content

LEMMA CloseEndsContent ==
  ASSUME Shape, Content, NEW s \in Sessions, CloseEnds(s)
  PROVE  Content'
<1> DEFINE line(t) == Line(wire, queues, delivered, polls, t)
           new(t) == Line(wire', queues', delivered', polls', t)
<1>1. Basic /\ Queues /\ GoodPolls(polls, session, opened, asking) /\ mapped[WireId[s]] = s
  BY ShapeParts, CloseEndsShape
<1>2. /\ session[s] = "closing" /\ session' = [session EXCEPT ![s] = "closed"]
      /\ queues' = [t \in Sessions |-> IF t \in {s, mapped[WireId[s]]} THEN <<>> ELSE queues[t]]
      /\ unclaimed' = [unclaimed EXCEPT ![WireId[s]] = <<>>] /\ wire' = [wire EXCEPT ![s] = <<>>]
      /\ polls' = polls /\ arrived' = arrived /\ delivered' = delivered
      /\ spilled' = spilled /\ overlapped' = overlapped
  BY DEF CloseEnds
<1>3. /\ wire \in [Sessions -> Seq(Events)] /\ queues \in [Sessions -> Seq(Events)]
      /\ delivered \in [Sessions -> Seq(Events)] /\ polls \in [1 .. MaxPolls -> Poll \cup {Nobody}]
      /\ wire' \in [Sessions -> Seq(Events)] /\ queues' \in [Sessions -> Seq(Events)]
  <2>1. Queues' BY CloseEndsShape, ShapeParts, <1>2 DEF Shape, RoutingTypeOK, Queues
  <2> QED BY <1>1, <2>1 DEF Queues, GoodPolls
<1>4. /\ wire'[s] = <<>> /\ queues'[s] = <<>> /\ session'[s] = "closed"
      /\ \A t \in Sessions : t # s => wire'[t] = wire[t] /\ queues'[t] = queues[t] /\ session'[t] = session[t]
      /\ \A id \in Ids : unclaimed'[id] = <<>> \/ unclaimed'[id] = unclaimed[id]
  BY <1>1, <1>2, <1>3 DEF Basic, Queues
<1>5. ASSUME NEW t \in Sessions
      PROVE  LineOf(line(t), wire, queues, delivered, polls, t) /\ LineOf(new(t), wire', queues', delivered', polls', t)
  BY <1>2, <1>3, LineFacts
<1>6. ASSUME NEW t \in Sessions, t # s PROVE new(t) = line(t)
  <2>1. SameLine(wire', queues', delivered', polls', wire, queues, delivered, polls, t)
    BY <1>2, <1>4, <1>6 DEF SameLine, SameHeld
  <2> QED BY <2>1, LineSame
<1> HIDE DEF line, new
<1>7. ASSUME NEW t \in Sessions, NEW a \in PlaceNumbers PROVE new(t)[a] = <<>> \/ new(t)[a] = line(t)[a]
  <2>1. CASE t # s BY <1>6, <2>1
  <2>2. CASE t = s BY <1>2, <1>4, <1>5, <2>2 DEF LineOf
  <2> QED BY <2>1, <2>2
<1>8. SentInv'
  <2>1. \A t \in Sessions : \A b \in PlaceNumbers : AllSent(line(t)[b], arrived) BY DEF Content, SentInv, SentOf, line
  <2>2. \A t \in Sessions : \A b \in PlaceNumbers : AllSent(new(t)[b], arrived) BY <1>7, <2>1, SentFacts
  <2>3. ASSUME NEW u \in Sessions, NEW t \in Sessions \ {u} PROVE NoneOf(wire'[t], u)
    <3>1. NoneOf(wire[t], u) BY DEF Content, SentInv, SentOf
    <3> QED BY <1>4, <3>1, EmptyFacts
  <2>4. \A id \in Ids : AllSent(unclaimed'[id], arrived) BY <1>4, SentFacts DEF Content, SentInv, SentOf
  <2>5. \A y \in spilled : SentBefore(y.event, arrived) BY DEF Content, SentInv, SentOf
  <2> QED BY <1>2, <2>2, <2>3, <2>4, <2>5 DEF SentInv, SentOf, new
<1>9. AtHomeInv'
  <2> SUFFICES ASSUME NEW u \in Sessions, session'[u] = "open"
               PROVE  /\ \A t \in Sessions \ {u} : NoneOf(queues'[t], u) /\ NoneOf(delivered[t], u)
                      /\ \A id \in Ids : NoneOf(unclaimed'[id], u)
    BY <1>2 DEF AtHomeInv, AtHomeOf
  <2>1. /\ \A t \in Sessions \ {u} : NoneOf(queues[t], u) /\ NoneOf(delivered[t], u)
        /\ \A id \in Ids : NoneOf(unclaimed[id], u)
    BY <1>4 DEF Content, AtHomeInv, AtHomeOf
  <2> QED BY <1>4, <2>1, EmptyFacts
<1>10. OnceInv'
  <2> SUFFICES ASSUME NEW t \in Sessions, session'[t] = "open", NEW k \in 1 .. arrived[t]
               PROVE  Once(new(t), spilled, EventOf(t, k))
    BY <1>2 DEF OnceInv, OnceOf, new
  <2>1. t # s /\ session[t] = "open" BY <1>4
  <2>2. Once(line(t), spilled, EventOf(t, k)) BY <2>1 DEF Content, OnceInv, OnceOf, line
  <2> QED BY <1>6, <2>1, <2>2
<1>11. SortedInv'
  <2> SUFFICES ASSUME ~overlapped, NEW t \in Sessions PROVE Sorted(new(t), t)
    BY <1>2 DEF SortedInv, SortedOf, new
  <2>1. Sorted(line(t), t) BY DEF Content, SortedInv, SortedOf, line
  <2>2. line(t) \in Lines /\ new(t) \in Lines BY <1>5 DEF LineOf
  <2> QED BY <1>7, <2>1, <2>2, SortedThins
<1> QED BY <1>8, <1>9, <1>10, <1>11 DEF Content

-----------------------------------------------------------------------------
(* Every step keeps the places of the events.                              *)
Kept ==
  /\ wire' = wire /\ queues' = queues /\ unclaimed' = unclaimed /\ delivered' = delivered
  /\ arrived' = arrived /\ overlapped' = overlapped

LEMMA StayedContent ==
  ASSUME Shape, Content, Kept, spilled' = spilled, SameHeld(polls', polls),
         \A s \in Sessions : session'[s] = "open" => session[s] = "open" \/ arrived[s] = 0
  PROVE  Content'
<1>1. /\ SentOf(wire, queues, delivered, unclaimed, polls', arrived, spilled)
      /\ AtHomeOf(session', queues, delivered, unclaimed)
      /\ OnceOf(session', wire, queues, delivered, polls', arrived, spilled)
      /\ ~overlapped => SortedOf(wire, queues, delivered, polls')
  BY NothingMoves
<1> QED BY <1>1 DEF Kept, Content, SentInv, AtHomeInv, OnceInv, SortedInv

LEMMA SpillsContent ==
  ASSUME Shape, Content, Shape', Kept, NEW hit, Spills(hit),
         \A s \in Sessions : session'[s] = "open" => session[s] = "open"
  PROVE  Content'
<1>1. /\ SentOf(wire, queues, delivered, unclaimed, polls', arrived, spilled')
      /\ OnceOf(session', wire, queues, delivered, polls', arrived, spilled')
      /\ ~overlapped => SortedOf(wire, queues, delivered, polls')
  BY PollsSpill
<1>2. AtHomeOf(session', queues, delivered, unclaimed)
  BY DEF Content, AtHomeInv, AtHomeOf
<1> QED BY <1>1, <1>2 DEF Kept, Content, SentInv, AtHomeInv, OnceInv, SortedInv

LEMMA RejectedContent ==
  ASSUME Shape, Content, Shape', Kept, session' = session, NEW i \in 1 .. MaxPolls, polls[i] # Nobody, Rejected(i)
  PROVE  Content'
<1>1. polls \in [1 .. MaxPolls -> Poll \cup {Nobody}]
  BY ShapeParts DEF GoodPolls
<1>2. polls' = [polls EXCEPT ![i] = Nobody] /\ spilled' = spilled \cup Spill(polls[i])
  BY DEF Rejected
<1>3. ASSUME NEW j \in 1 .. MaxPolls PROVE Held(polls', j) = IF j \in {i} THEN <<>> ELSE Held(polls, j)
  BY <1>1, <1>2 DEF Held
<1>4. UNION {Spill(polls[j]) : j \in {i}} = Spill(polls[i])
  OBVIOUS
<1>5. Spills({i})
  BY <1>2, <1>3, <1>4 DEF Spills
<1> QED BY <1>5, SpillsContent

LEMMA OpenFailsContent ==
  ASSUME Shape, Content, Shape', NEW s \in Sessions, OpenFails(s)
  PROVE  Content'
<1> DEFINE hit == {i \in UnderWay : opened[polls[i].at] = s}
<1>1. /\ session' = [session EXCEPT ![s] = "failed"]
      /\ spilled' = spilled \cup UNION {Spill(polls[i]) : i \in hit}
      /\ polls' = [i \in DOMAIN polls |-> IF i \in hit THEN Nobody ELSE polls[i]]
      /\ Kept
  BY DEF OpenFails, Kept
<1>2. polls \in [1 .. MaxPolls -> Poll \cup {Nobody}] /\ session \in [Sessions -> States]
  BY ShapeParts DEF GoodPolls, Basic
<1>3. hit \subseteq 1 .. MaxPolls /\ \A i \in hit : polls[i] # Nobody
  BY <1>2 DEF UnderWay
<1> HIDE DEF hit
<1>4. \A i \in 1 .. MaxPolls : polls'[i] = IF i \in hit THEN Nobody ELSE polls[i]
  BY <1>1, <1>2
<1>5. ASSUME NEW i \in 1 .. MaxPolls PROVE Held(polls', i) = IF i \in hit THEN <<>> ELSE Held(polls, i)
  BY <1>4 DEF Held
<1>6. Spills(hit)
  BY <1>1, <1>3, <1>5 DEF Spills
<1>7. \A t \in Sessions : session'[t] = "open" => session[t] = "open"
  BY <1>1, <1>2
<1> QED BY <1>1, <1>6, <1>7, SpillsContent

LEMMA OpenEndsContent ==
  ASSUME Shape, Content, NEW s \in Sessions, OpenEnds(s)
  PROVE  Content'
<1>1. /\ session[s] = "opening" /\ session' = [session EXCEPT ![s] = "open"]
      /\ polls' = [i \in DOMAIN polls |->
           IF i \in UnderWay /\ opened[polls[i].at] = s THEN [polls[i] EXCEPT !.stage = "native"] ELSE polls[i]]
      /\ Kept /\ spilled' = spilled
  BY DEF OpenEnds, Kept
<1>2. polls \in [1 .. MaxPolls -> Poll \cup {Nobody}] /\ session \in [Sessions -> States] /\ arrived[s] = 0
  BY <1>1, ShapeParts DEF GoodPolls, Basic, RoutesInv
<1>3. ASSUME NEW i \in 1 .. MaxPolls PROVE Held(polls', i) = Held(polls, i)
  <2>1. CASE polls'[i] = polls[i] BY <2>1 DEF Held
  <2>2. CASE i \in UnderWay /\ polls'[i] = [polls[i] EXCEPT !.stage = "native"]
    <3>1. polls[i] # Nobody /\ polls[i] \in Poll BY <1>2, <2>2 DEF UnderWay
    <3>2. polls'[i] \in Poll /\ polls'[i].batch = polls[i].batch /\ polls'[i].fresh = polls[i].fresh
      BY <2>2, <3>1 DEF Poll
    <3>3. polls'[i] # Nobody BY <3>2, NobodyAssumption
    <3> QED BY <3>1, <3>2, <3>3 DEF Held, Holding
  <2> QED BY <1>1, <1>2, <2>1, <2>2
<1>4. SameHeld(polls', polls)
  BY <1>3 DEF SameHeld
<1>5. \A t \in Sessions : session'[t] = "open" => session[t] = "open" \/ arrived[t] = 0
  BY <1>1, <1>2
<1> QED BY <1>1, <1>4, <1>5, StayedContent

(* A caller takes an event, or starts a poll that holds nothing.           *)
LEMMA TakeOrPollEmpties ==
  ASSUME Shape, Shape', NEW r, NEW s, NEW limited, NEW i \in 1 .. MaxPolls, NEW held,
         TakeOrPoll(r, s, limited, i, held)
  PROVE  Emptied(polls', i) /\ (~overlapped' => ~overlapped)
<1>1. polls \in [1 .. MaxPolls -> Poll \cup {Nobody}] /\ polls' \in [1 .. MaxPolls -> Poll \cup {Nobody}]
  BY ShapeParts DEF GoodPolls, Shape, RoutingTypeOK
<1>2. /\ \/ polls' = [polls EXCEPT ![i] = Nobody]
         \/ polls' = [polls EXCEPT ![i] = Visiting(NextEntry(0), <<>>, r, s)]
      /\ ~overlapped' => ~overlapped
  BY DEF TakeOrPoll
<1> DEFINE v == Visiting(NextEntry(0), <<>>, r, s)
<1>3. Holding(v) = <<>>
  BY DEF Visiting, Holding
<1>4. /\ polls'[i] \in {Nobody, v}
      /\ \A j \in 1 .. MaxPolls : j # i => polls'[j] = polls[j]
  BY <1>1, <1>2
<1> HIDE DEF v
<1>5. Held(polls', i) = <<>>
  BY <1>3, <1>4 DEF Held
<1>6. \A j \in 1 .. MaxPolls : j # i => Held(polls', j) = Held(polls, j)
  BY <1>4 DEF Held
<1> QED BY <1>1, <1>2, <1>5, <1>6 DEF Emptied

LEMMA TakeOrPollContent ==
  ASSUME Shape, Shape', NEW r, NEW s \in Sessions, NEW limited, NEW i \in 1 .. MaxPolls,
         NEW held \in [Sessions -> Seq(Events)], TakeOrPoll(r, s, limited, i, held),
         Still, wire' = wire, spilled' = spilled,
         SentOf(wire, held, delivered, unclaimed', polls', arrived, spilled),
         AtHomeOf(session, held, delivered, unclaimed'),
         OnceOf(session, wire, held, delivered, polls', arrived, spilled),
         ~overlapped => SortedOf(wire, held, delivered, polls')
  PROVE  Content'
<1>1. ~overlapped' => ~overlapped
  BY TakeOrPollEmpties
<1>2. /\ wire \in [Sessions -> Seq(Events)] /\ delivered \in [Sessions -> Seq(Events)]
      /\ polls' \in [1 .. MaxPolls -> Poll \cup {Nobody}]
  BY ShapeParts DEF Queues, Shape, RoutingTypeOK
<1>3. session' = session /\ arrived' = arrived
  BY DEF Still
<1>4. CASE held[s] # <<>>
  <2>1. /\ delivered' = [delivered EXCEPT ![s] = Append(delivered[s], Head(held[s]))]
        /\ queues' = [held EXCEPT ![s] = Tail(held[s])]
    BY <1>4 DEF TakeOrPoll
  <2>2. /\ SentOf(wire, queues', delivered', unclaimed', polls', arrived, spilled)
        /\ AtHomeOf(session, queues', delivered', unclaimed')
        /\ OnceOf(session, wire, queues', delivered', polls', arrived, spilled)
        /\ SortedOf(wire, held, delivered, polls') => SortedOf(wire, queues', delivered', polls')
    <3>1. TakesHead(s, held, delivered, queues', delivered') BY <1>4, <2>1 DEF TakesHead
    <3> QED BY <1>2, <3>1, HeadMoves
  <2> QED BY <1>1, <1>3, <2>2 DEF Content, SentInv, AtHomeInv, OnceInv, SortedInv
<1>5. CASE held[s] = <<>>
  <2>1. queues' = held /\ delivered' = delivered
    BY <1>5 DEF TakeOrPoll
  <2> QED BY <1>1, <1>3, <2>1 DEF Content, SentInv, AtHomeInv, OnceInv, SortedInv
<1> QED BY <1>4, <1>5

LEMMA AskContent ==
  ASSUME Shape, Content, Shape', NEW r \in Readers, NEW s \in Sessions, NEW limited \in BOOLEAN, Ask(r, s, limited)
  PROVE  Content'
<1>1. PICK i \in 1 .. MaxPolls : polls[i] = Nobody /\ TakeOrPoll(r, s, limited, i, queues)
  BY AskShape
<1>2. Still /\ wire' = wire /\ spilled' = spilled /\ unclaimed' = unclaimed
  BY DEF Ask, Still
<1>3. queues \in [Sessions -> Seq(Events)]
  BY ShapeParts DEF Queues
<1>4. Emptied(polls', i)
  BY <1>1, TakeOrPollEmpties
<1>5. ASSUME NEW j \in 1 .. MaxPolls PROVE Held(polls', j) = Held(polls, j)
  BY <1>1, <1>4 DEF Emptied, Held
<1>6. SameHeld(polls', polls)
  BY <1>5 DEF SameHeld
<1>7. /\ SentOf(wire, queues, delivered, unclaimed, polls', arrived, spilled)
      /\ AtHomeOf(session, queues, delivered, unclaimed)
      /\ OnceOf(session, wire, queues, delivered, polls', arrived, spilled)
      /\ ~overlapped => SortedOf(wire, queues, delivered, polls')
  BY <1>6, NothingMoves
<1> QED BY <1>1, <1>2, <1>3, <1>7, TakeOrPollContent

LEMMA RoutesContent ==
  ASSUME Shape, Content, Shape', Still, wire' = wire, NEW i \in 1 .. MaxPolls, polls[i] # Nobody, RoutesBatch(i)
  PROVE  Content'
<1> DEFINE held == Routed(Holding(polls[i]))
           limited == asking[polls[i].reader].limited
<1>1. /\ unclaimed' = Unrouted(Holding(polls[i])) /\ spilled' = spilled
      /\ TakeOrPoll(polls[i].reader, polls[i].for, limited, i, held)
  BY DEF RoutesBatch
<1>2. polls[i] \in Poll
  BY ShapeParts DEF GoodPolls
<1>3. polls[i].for \in Sessions /\ held \in [Sessions -> Seq(Events)]
  BY <1>2, PollFacts, ShapeParts, RoutedTypes
<1> HIDE DEF limited
<1>4. Emptied(polls', i)
  BY <1>1, TakeOrPollEmpties
<1>5. /\ SentOf(wire, held, delivered, unclaimed', polls', arrived, spilled)
      /\ AtHomeOf(session, held, delivered, unclaimed')
      /\ OnceOf(session, wire, held, delivered, polls', arrived, spilled)
      /\ ~overlapped => SortedOf(wire, held, delivered, polls')
  BY <1>1, <1>4, BatchMoves
<1> HIDE DEF held
<1> QED BY <1>1, <1>3, <1>5, TakeOrPollContent

LEMMA TakesContent ==
  ASSUME Shape, Content, Shape', NEW i \in 1 .. MaxPolls, NativePollTakes(i)
  PROVE  Content'
<1>1. polls[i] # Nobody /\ \E s, n : Takes(i, s, n)
  BY TakesShape
<1>2. /\ session' = session /\ queues' = queues /\ unclaimed' = unclaimed /\ arrived' = arrived
      /\ delivered' = delivered /\ spilled' = spilled /\ overlapped' = overlapped
  BY DEF NativePollTakes
<1>3. /\ SentOf(wire', queues, delivered, unclaimed, polls', arrived, spilled)
      /\ OnceOf(session, wire', queues, delivered, polls', arrived, spilled)
      /\ ~overlapped => SortedOf(wire', queues, delivered, polls')
  BY <1>1, WireMoves
<1> QED BY <1>2, <1>3 DEF Content, SentInv, AtHomeInv, OnceInv, SortedInv

LEMMA ResumesContent ==
  ASSUME Shape, Content, NEW i \in 1 .. MaxPolls, PollResumes(i)
  PROVE  Content'
<1>1. Shape' /\ Still /\ wire' = wire /\ polls[i] # Nobody
  BY ResumesShape
<1>2. CASE WalksOn(i)
  <2>1. ASSUME NEW j \in 1 .. MaxPolls PROVE Held(polls', j) = Held(polls, j)
    BY <1>2 DEF WalksOn, Held
  <2>2. SameHeld(polls', polls) BY <2>1 DEF SameHeld
  <2>3. Kept /\ spilled' = spilled /\ session' = session BY <1>1, <1>2 DEF WalksOn, Kept, Still
  <2> QED BY <2>2, <2>3, StayedContent
<1>3. CASE Rejected(i) /\ queues' = queues /\ unclaimed' = unclaimed /\ delivered' = delivered
             /\ overlapped' = overlapped
  <2>1. Kept /\ session' = session BY <1>1, <1>3 DEF Kept, Still
  <2> QED BY <1>1, <1>3, <2>1, RejectedContent
<1>4. CASE RoutesBatch(i)
  BY <1>1, <1>4, RoutesContent
<1> QED BY <1>2, <1>3, <1>4, ResumesShape
-----------------------------------------------------------------------------
LEMMA NextInv == IInv /\ [RoutingNext]_routingVars => IInv'
<1> SUFFICES ASSUME Shape, Content, [RoutingNext]_routingVars PROVE Shape' /\ Content'
  BY DEF IInv
<1>1. ASSUME NEW s \in Sessions, OpenBegins(s) PROVE Shape' /\ Content'
  <2>1. Kept /\ spilled' = spilled /\ polls' = polls /\ session' = [session EXCEPT ![s] = "opening"]
    BY <1>1 DEF OpenBegins, Kept
  <2>2. SameHeld(polls', polls) BY <2>1 DEF SameHeld
  <2>3. \A t \in Sessions : session'[t] = "open" => session[t] = "open" BY <2>1, ShapeParts DEF Basic
  <2> QED BY <1>1, <2>1, <2>2, <2>3, OpenBeginsShape, StayedContent
<1>2. ASSUME NEW s \in Sessions, OpenEnds(s) PROVE Shape' /\ Content'
  BY <1>2, OpenEndsShape, OpenEndsContent
<1>3. ASSUME NEW s \in Sessions, OpenFails(s) PROVE Shape' /\ Content'
  BY <1>3, OpenFailsShape, OpenFailsContent
<1>4. ASSUME NEW s \in Sessions, CloseBegins(s) PROVE Shape' /\ Content'
  <2>1. Kept /\ spilled' = spilled /\ polls' = polls /\ session' = [session EXCEPT ![s] = "closing"]
    BY <1>4 DEF CloseBegins, Kept
  <2>2. SameHeld(polls', polls) BY <2>1 DEF SameHeld
  <2>3. \A t \in Sessions : session'[t] = "open" => session[t] = "open" BY <2>1, ShapeParts DEF Basic
  <2> QED BY <1>4, <2>1, <2>2, <2>3, CloseBeginsShape, StayedContent
<1>5. ASSUME NEW s \in Sessions, CloseEnds(s) PROVE Shape' /\ Content'
  BY <1>5, CloseEndsShape, CloseEndsContent
<1>6. ASSUME NEW s \in Sessions, Arrives(s) PROVE Shape' /\ Content'
  BY <1>6, ArrivesShape, ArrivesContent
<1>7. ASSUME NEW r \in Readers, NEW s \in Sessions, NEW limited \in BOOLEAN, Ask(r, s, limited)
      PROVE  Shape' /\ Content'
  BY <1>7, AskShape, AskContent
<1>8. ASSUME NEW r \in Readers, Abandon(r) PROVE Shape' /\ Content'
  <2>1. Kept /\ spilled' = spilled /\ session' = session BY <1>8 DEF Abandon, Kept
  <2>2. Shape' /\ SameHeld(polls', polls) BY <1>8, AbandonShape DEF SameHeld
  <2> QED BY <2>1, <2>2, StayedContent
<1>9. ASSUME NEW i \in 1 .. MaxPolls, NativePollTakes(i) PROVE Shape' /\ Content'
  BY <1>9, TakesShape, TakesContent
<1>10. ASSUME NEW i \in 1 .. MaxPolls, NativePollRefuses(i) PROVE Shape' /\ Content'
  <2>1. Kept /\ session' = session /\ Rejected(i) /\ polls[i] # Nobody
    BY <1>10 DEF NativePollRefuses, Kept, UnderWay
  <2> QED BY <1>10, <2>1, RefusesShape, RejectedContent
<1>11. ASSUME NEW i \in 1 .. MaxPolls, PollResumes(i) PROVE Shape' /\ Content'
  BY <1>11, ResumesShape, ResumesContent
<1>12. CASE UNCHANGED routingVars
  BY <1>12 DEF routingVars, Shape, RoutingTypeOK, PollsInv, RoutesInv, Content, SentInv, AtHomeInv, OnceInv, SortedInv, UnderWay
<1> QED BY <1>1, <1>2, <1>3, <1>4, <1>5, <1>6, <1>7, <1>8, <1>9, <1>10, <1>11, <1>12 DEF RoutingNext

(* Each event that the peer sent to an open session is in exactly one      *)
(* place of that very session, and the session is routed, whatever the     *)
(* polls, the callers that give up and the sessions that come and go do.   *)
THEOREM EveryEventAccountedTheorem == RoutingSpec => []EveryEventAccounted
<1>1. RoutingSpec => []IInv
  BY InitInv, NextInv, PTL DEF RoutingSpec
<1> QED BY <1>1, InvAccounts, PTL

(* As long as no two polls were under way at once, the queues and the      *)
(* callers get the events of every session in the order they were sent.    *)
THEOREM OneReaderKeepsOrderTheorem == RoutingSpec => []OneReaderKeepsOrder
<1>1. RoutingSpec => []IInv
  BY InitInv, NextInv, PTL DEF RoutingSpec
<1> QED BY <1>1, InvSorts, PTL
=============================================================================
