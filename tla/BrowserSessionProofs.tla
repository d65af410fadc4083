------------------------ MODULE BrowserSessionProofs ------------------------
(***************************************************************************)
(* For any roles, frames, readers and events: whoever waits on an open     *)
(* session has a pump, events keep their order and only late results,      *)
(* second ends and the events of two defects are dropped; a pump that ends *)
(* is told to WASM, and a freed client is over.                            *)
(***************************************************************************)
EXTENDS BrowserSession, WellFoundedInduction, TLAPS

(***************************************************************************)
(* The connection                                                          *)
(***************************************************************************)
RoleStates == {"new", "connecting", "opening", "open", "closing", "closed"}

(* Before the session is open nothing has been received for it.            *)
Unopened == roles[Main] \in {"new", "connecting", "opening"}

(* Packets are kept only after the pump has ended: it starts with the      *)
(* first role, and before that there are none.                             *)
CarrierInv ==
  /\ connection \in {"none", "opening", "open"}
  /\ socket \in {"none", "open", "closing", "closed"}
  /\ protocolError \in BOOLEAN /\ told \in BOOLEAN /\ bornDeaf \in BOOLEAN
  /\ pump \in {"none", "waiting", "ended"}
  /\ closing \in {"no", "roles", "carrier", "freed"}
  /\ roles \in [Roles -> RoleStates]
  /\ roles[Main] \in {"open", "closing"} => pump # "none"
  /\ packets # <<>> => pump = "ended"
  /\ SilenceIsExplained

(* A client that is being closed opens nothing.                            *)
ClosingInv ==
  /\ closing # "no" => \A r \in Roles : roles[r] # "open"
  /\ WasmClosed => socket # "open"
  /\ closing = "freed" => pump # "waiting"

(***************************************************************************)
(* The waits                                                               *)
(***************************************************************************)
CallStates == {"none", "sending", "waiting", "detached", "answered", "failed"}

(* A submit that awaits its result has a waiter; one that is over has got  *)
(* an answer or an error.                                                  *)
CallsInv ==
  /\ call \in [Frames -> CallStates]
  /\ resultWaiters \subseteq Waited
  /\ \A f \in Frames :
       /\ call[f] = "waiting" => f \in resultWaiters
       /\ call[f] = "detached" => f \notin Waited
       /\ call[f] = "answered" => \E x \in answered : x.frame = f

PumpStates == {"off", "running", "ending"}

PumpInv ==
  /\ eventPump \in PumpStates
  /\ WaitersAreServed
  /\ Unopened => eventWaiters = <<>> /\ \A f \in Frames : call[f] = "none"

(***************************************************************************)
(* The events                                                              *)
(***************************************************************************)
Numbered(s) == \A i, j \in DOMAIN s : i < j => s[i].number < s[j].number
Precede(s, t) == \A x \in ToSet(s), y \in ToSet(t) : x.number < y.number

(* A reader waits only while nothing is queued.                            *)
ReadersInv ==
  /\ eventWaiters \in Seq(Readers)
  /\ IsInjective(eventWaiters)
  /\ eventWaiters # <<>> => eventQueue = <<>>
  /\ leaving \subseteq Readers

(* Four queues of events with numbers up to n, all of T, each of them and  *)
(* one after the other in the order of the numbers.                        *)
Ordered(Q, n, T) ==
  \A q \in 1 .. 4 :
    /\ Q[q] \in Seq(Events) /\ Numbered(Q[q])
    /\ \A e \in ToSet(Q[q]) : e \in T /\ e.number <= n
    /\ \A p \in 1 .. 4 : q < p => Precede(Q[q], Q[p])

Queues == <<delivered, eventQueue, inbox, packets>>

OrderInv ==
  /\ sent \in Seq(Events) /\ Ordered(Queues, Len(sent), ToSet(sent))
  /\ \A e \in ToSet(sent) : e.number <= Len(sent)

(* An event is in a queue, with a reader or with its submit; or it was     *)
(* the late result of a cancelled operation, a second end of its frame, or *)
(* lost by one of the two defects.                                         *)
Placed(e) ==
  e \in ToSet(packets) \cup ToSet(inbox) \cup ToSet(eventQueue) \cup ToSet(delivered) \cup answered

Excused(e) ==
  \/ e.kind = "result" /\ e.frame \in withdrawn
  \/ SecondEnd(e)
  \/ e \in refused \cup orphaned

(* A frame that is over has had an end, older than all that is to come.    *)
Ended(f) ==
  \E x \in ToSet(sent) :
    /\ IsEnd(x) /\ x.frame = f
    /\ \A y \in ToSet(inbox) \cup ToSet(packets) : x.number < y.number

EndsInv == \A f \in terminal : Ended(f)

EventsInv == \A e \in ToSet(sent) : Placed(e) \/ Excused(e)

SetsInv ==
  /\ answered \subseteq Events
  /\ remembered \subseteq Events /\ refused \subseteq Events /\ orphaned \subseteq Events

FramesInv ==
  /\ credits \in Nat
  /\ inFlight \subseteq Frames /\ terminal \subseteq Frames /\ withdrawn \subseteq Frames
  /\ cancelled \subseteq withdrawn /\ cancelling \subseteq Frames

IInv ==
  /\ CarrierInv /\ ClosingInv /\ CallsInv /\ PumpInv /\ ReadersInv
  /\ OrderInv /\ EndsInv /\ EventsInv /\ SetsInv /\ FramesInv
-----------------------------------------------------------------------------
(***************************************************************************)
(* Sequences                                                               *)
(***************************************************************************)
LEMMA AppendFacts ==
  ASSUME NEW S, NEW s \in Seq(S), NEW x \in S
  PROVE  /\ Append(s, x) \in Seq(S) /\ Append(s, x) # <<>>
         /\ Len(s) \in Nat /\ Len(Append(s, x)) = Len(s) + 1
         /\ DOMAIN s = 1 .. Len(s) /\ DOMAIN Append(s, x) = 1 .. Len(s) + 1
         /\ \A i \in 1 .. Len(s) : Append(s, x)[i] = s[i]
         /\ Append(s, x)[Len(s) + 1] = x
         /\ \A i \in 1 .. Len(s) + 1 : i \in 1 .. Len(s) \/ i = Len(s) + 1
         /\ Len(s) + 1 \in 1 .. Len(s) + 1 /\ \A i \in 1 .. Len(s) : i \in 1 .. Len(s) + 1
  OBVIOUS

LEMMA TailFacts ==
  ASSUME NEW S, NEW s \in Seq(S), s # <<>>
  PROVE  /\ Tail(s) \in Seq(S) /\ Head(s) = s[1] /\ Head(s) \in S
         /\ Len(s) \in Nat /\ 1 \in 1 .. Len(s) /\ Len(Tail(s)) = Len(s) - 1
         /\ DOMAIN s = 1 .. Len(s) /\ DOMAIN Tail(s) = 1 .. Len(s) - 1
         /\ \A i \in 1 .. Len(s) - 1 : Tail(s)[i] = s[i + 1] /\ i + 1 \in 1 .. Len(s) /\ 1 < i + 1
         /\ \A i \in 1 .. Len(s) : i = 1 \/ (i - 1 \in 1 .. Len(s) - 1 /\ (i - 1) + 1 = i)
  OBVIOUS

(* What Append adds to the elements, and Tail takes from them.             *)
LEMMA AppendedSet ==
  ASSUME NEW S, NEW s \in Seq(S), NEW x \in S
  PROVE  ToSet(Append(s, x)) = ToSet(s) \cup {x}
<1> DEFINE t == Append(s, x)
<1>1. /\ DOMAIN s = 1 .. Len(s) /\ DOMAIN t = 1 .. Len(s) + 1
      /\ \A i \in 1 .. Len(s) : t[i] = s[i]
      /\ t[Len(s) + 1] = x
      /\ \A i \in 1 .. Len(s) + 1 : i \in 1 .. Len(s) \/ i = Len(s) + 1
      /\ Len(s) + 1 \in 1 .. Len(s) + 1 /\ \A i \in 1 .. Len(s) : i \in 1 .. Len(s) + 1
  BY AppendFacts
<1> HIDE DEF t
<1>2. ToSet(t) = ToSet(s) \cup {x}
  BY <1>1 DEF ToSet
<1> QED BY <1>2 DEF t

LEMMA TailSet ==
  ASSUME NEW S, NEW s \in Seq(S), s # <<>>
  PROVE  ToSet(s) = {Head(s)} \cup ToSet(Tail(s))
<1> DEFINE t == Tail(s)
<1>1. /\ DOMAIN s = 1 .. Len(s) /\ DOMAIN t = 1 .. Len(s) - 1 /\ Head(s) = s[1] /\ 1 \in 1 .. Len(s)
      /\ \A i \in 1 .. Len(s) - 1 : t[i] = s[i + 1] /\ i + 1 \in 1 .. Len(s)
      /\ \A i \in 1 .. Len(s) : i = 1 \/ (i - 1 \in 1 .. Len(s) - 1 /\ (i - 1) + 1 = i)
  BY TailFacts
<1> HIDE DEF t
<1>2. ToSet(t) \subseteq ToSet(s)
  BY <1>1 DEF ToSet
<1>3. ASSUME NEW y \in ToSet(s), y # Head(s) PROVE y \in ToSet(t)
  <2>1. PICK i \in 1 .. Len(s) : y = s[i] BY <1>1 DEF ToSet
  <2>2. i - 1 \in 1 .. Len(s) - 1 /\ (i - 1) + 1 = i BY <2>1, <1>1, <1>3
  <2>3. t[i - 1] = y BY <2>1, <2>2, <1>1
  <2> QED BY <2>2, <2>3, <1>1 DEF ToSet
<1>4. Head(s) \in ToSet(s)
  BY <1>1 DEF ToSet
<1> QED BY <1>2, <1>3, <1>4 DEF t

LEMMA NumberedAppend ==
  ASSUME NEW S, NEW s \in Seq(S), NEW x \in S, Numbered(s), \A y \in ToSet(s) : y.number < x.number
  PROVE  Numbered(Append(s, x))
<1> DEFINE t == Append(s, x)
           n == Len(s)
<1>1. /\ DOMAIN s = 1 .. n /\ DOMAIN t = 1 .. n + 1 /\ n \in Nat
      /\ \A i \in 1 .. n : t[i] = s[i]
      /\ t[n + 1] = x
      /\ \A i \in 1 .. n + 1 : i \in 1 .. n \/ i = n + 1
  BY AppendFacts
<1> HIDE DEF t
<1>2. ASSUME NEW i \in 1 .. n + 1, NEW j \in 1 .. n + 1, i < j PROVE t[i].number < t[j].number
  <2>1. i \in 1 .. n BY <1>1, <1>2
  <2>2. CASE j \in 1 .. n BY <1>1, <1>2, <2>1, <2>2 DEF Numbered
  <2>3. CASE j = n + 1
    <3>1. s[i] \in ToSet(s) BY <1>1, <2>1 DEF ToSet
    <3> QED BY <1>1, <2>1, <2>3, <3>1
  <2> QED BY <1>1, <2>2, <2>3
<1>3. Numbered(t)
  BY <1>1, <1>2 DEF Numbered
<1> QED BY <1>3 DEF t

LEMMA NumberedTail ==
  ASSUME NEW S, NEW s \in Seq(S), s # <<>>, Numbered(s)
  PROVE  Numbered(Tail(s)) /\ \A y \in ToSet(Tail(s)) : Head(s).number < y.number
<1> DEFINE t == Tail(s)
           n == Len(s)
<1>1. /\ DOMAIN s = 1 .. n /\ DOMAIN t = 1 .. n - 1 /\ Head(s) = s[1] /\ 1 \in 1 .. n /\ n \in Nat
      /\ \A i \in 1 .. n - 1 : t[i] = s[i + 1] /\ i + 1 \in 1 .. n /\ 1 < i + 1
  BY TailFacts
<1> HIDE DEF t
<1>2. \A i, j \in 1 .. n - 1 : i < j => i + 1 < j + 1
  BY <1>1
<1>3. Numbered(t)
  BY <1>1, <1>2 DEF Numbered
<1>4. ASSUME NEW y \in ToSet(t) PROVE Head(s).number < y.number
  <2>1. PICK i \in 1 .. n - 1 : y = t[i]
    BY <1>1 DEF ToSet
  <2>2. t[i] = s[i + 1] /\ i + 1 \in 1 .. n /\ 1 < i + 1
    BY <1>1, <2>1
  <2>3. s[1].number < s[i + 1].number
    BY <1>1, <2>2 DEF Numbered
  <2> QED BY <1>1, <2>1, <2>2, <2>3
<1> QED BY <1>3, <1>4 DEF t

(* RemoveAt and RemoveFirst keep a sequence one without repetitions.       *)
LEMMA RemovedAt ==
  ASSUME NEW S, NEW s \in Seq(S), NEW k \in 1 .. Len(s)
  PROVE  /\ RemoveAt(s, k) \in Seq(S) /\ Len(RemoveAt(s, k)) = Len(s) - 1
         /\ \A i \in 1 .. Len(s) - 1 : RemoveAt(s, k)[i] = IF i < k THEN s[i] ELSE s[i + 1]
<1> DEFINE n == Len(s)
           front == SubSeq(s, 1, k - 1)
           back == SubSeq(s, k + 1, n)
<1>0. n \in Nat /\ k \in 1 .. n /\ s \in Seq(S)
  OBVIOUS
<1>1. front \in Seq(S) /\ Len(front) = k - 1 /\ \A i \in 1 .. k - 1 : front[i] = s[i]
  BY <1>0
<1>2. back \in Seq(S) /\ Len(back) = n - k /\ \A i \in 1 .. n - k : back[i] = s[i + k]
  BY <1>0
<1>3. RemoveAt(s, k) = front \o back BY DEF RemoveAt
<1> HIDE DEF front, back
<1>4. /\ front \o back \in Seq(S)
      /\ Len(front \o back) = Len(front) + Len(back)
      /\ \A i \in 1 .. Len(front) + Len(back) :
           (front \o back)[i] = IF i <= Len(front) THEN front[i] ELSE back[i - Len(front)]
  <2>1. front \in Seq(S) /\ back \in Seq(S)
    BY <1>1, <1>2
  <2> QED BY ONLY <2>1
<1> HIDE DEF n
<1>5. Len(front) + Len(back) = n - 1
  BY <1>0, <1>1, <1>2
<1>6. ASSUME NEW i \in 1 .. n - 1 PROVE (front \o back)[i] = IF i < k THEN s[i] ELSE s[i + 1]
  <2>1. CASE i < k
    <3>1. i \in 1 .. k - 1 /\ i <= Len(front) BY <2>1, <1>0, <1>1
    <3> QED BY <2>1, <3>1, <1>1, <1>4, <1>5
  <2>2. CASE ~(i < k)
    <3>1. i - (k - 1) \in 1 .. n - k /\ (i - (k - 1)) + k = i + 1 /\ ~(i <= k - 1) BY <2>2, <1>0
    <3>2. (front \o back)[i] = back[i - (k - 1)] BY <3>1, <1>1, <1>4, <1>5
    <3> QED BY <2>2, <3>1, <3>2, <1>2
  <2> QED BY <2>1, <2>2
<1> QED BY <1>3, <1>4, <1>5, <1>6 DEF n

LEMMA MinOfNats ==
  ASSUME NEW I \in SUBSET Nat, I # {}
  PROVE  Min(I) \in I
<1>1. PICK x \in I : \A y \in I : <<y, x>> \notin OpToRel(<, Nat)
  BY NatLessThanWellFounded, WFMin
<1>2. \A y \in I : ~(y < x)
  BY <1>1 DEF OpToRel
<1>3. \A y \in I : x <= y
  BY <1>2
<1> QED BY <1>3 DEF Min

LEMMA RemovedFirst ==
  ASSUME NEW S, NEW s \in Seq(S), IsInjective(s), NEW x
  PROVE  RemoveFirst(s, x) \in Seq(S) /\ IsInjective(RemoveFirst(s, x))
<1> DEFINE I == {i \in 1 .. Len(s) : s[i] = x}
<1>1. CASE I = {}
  BY <1>1 DEF RemoveFirst
<1>2. CASE I # {}
  <2> DEFINE n == Len(s)
             k == Min(I)
             t == RemoveAt(s, k)
  <2>1. RemoveFirst(s, x) = t
    BY <1>2 DEF RemoveFirst, SelectInSeq
  <2>2. I \in SUBSET Nat /\ I \subseteq 1 .. n /\ n \in Nat /\ DOMAIN s = 1 .. n
    OBVIOUS
  <2>3. k \in 1 .. n
    <3> HIDE DEF I
    <3> QED BY <1>2, <2>2, MinOfNats
  <2> HIDE DEF k
  <2>4. t \in Seq(S) /\ Len(t) = n - 1 /\ \A i \in 1 .. n - 1 : t[i] = IF i < k THEN s[i] ELSE s[i + 1]
    BY <2>3, RemovedAt
  <2> HIDE DEF t
  <2>5. DOMAIN t = 1 .. n - 1
    BY <2>4
  <2>6. \A i \in 1 .. n - 1 : i \in 1 .. n /\ i + 1 \in 1 .. n
    BY <2>2
  <2>7. ASSUME NEW i \in 1 .. n - 1, NEW j \in 1 .. n - 1, t[i] = t[j] PROVE i = j
    <3>1. CASE i < k /\ j < k BY <3>1, <2>2, <2>4, <2>6, <2>7 DEF IsInjective
    <3>2. CASE ~(i < k) /\ ~(j < k)
      <4>1. i + 1 = j + 1 BY <3>2, <2>2, <2>4, <2>6, <2>7 DEF IsInjective
      <4> QED BY <4>1
    <3>3. CASE i < k /\ ~(j < k)
      <4>1. i = j + 1 BY <3>3, <2>2, <2>4, <2>6, <2>7 DEF IsInjective
      <4> QED BY <4>1, <3>3, <2>3
    <3>4. CASE ~(i < k) /\ j < k
      <4>1. i + 1 = j BY <3>4, <2>2, <2>4, <2>6, <2>7 DEF IsInjective
      <4> QED BY <4>1, <3>4, <2>3
    <3> QED BY <3>1, <3>2, <3>3, <3>4
  <2> QED BY <2>1, <2>4, <2>5, <2>7 DEF IsInjective
<1> QED BY <1>1, <1>2
-----------------------------------------------------------------------------
(***************************************************************************)
(* The four queues                                                         *)
(***************************************************************************)
LEMMA Dropped ==
  ASSUME NEW Q, NEW R, NEW n \in Nat, NEW T, Ordered(Q, n, T), NEW q \in 1 .. 4, Q[q] # <<>>,
         R[q] = Tail(Q[q]), \A k \in 1 .. 4 \ {q} : R[k] = Q[k]
  PROVE  Ordered(R, n, T)
<1>1. \A k \in 1 .. 4 : Q[k] \in Seq(Events) /\ Numbered(Q[k])
  BY DEF Ordered
<1>2. R[q] \in Seq(Events) /\ Numbered(R[q]) /\ ToSet(R[q]) \subseteq ToSet(Q[q])
  BY <1>1, TailFacts, TailSet, NumberedTail
<1>3. \A k \in 1 .. 4 : R[k] \in Seq(Events) /\ Numbered(R[k]) /\ ToSet(R[k]) \subseteq ToSet(Q[k])
  BY <1>1, <1>2
<1> QED BY <1>3 DEF Ordered, Precede

LEMMA Moved ==
  ASSUME NEW Q, NEW R, NEW n \in Nat, NEW T, Ordered(Q, n, T),
         NEW p \in 1 .. 4, NEW q \in 1 .. 4, p < q, Q[q] # <<>>,
         \A k \in 1 .. 4 : p < k /\ k < q => Q[k] = <<>>,
         R[q] = Tail(Q[q]), R[p] = Append(Q[p], Head(Q[q])),
         \A k \in 1 .. 4 \ {p, q} : R[k] = Q[k]
  PROVE  Ordered(R, n, T)
<1> DEFINE x == Head(Q[q])
<1>1. \A k \in 1 .. 4 : Q[k] \in Seq(Events) /\ Numbered(Q[k])
  BY DEF Ordered
<1>2. /\ R[q] \in Seq(Events) /\ Numbered(R[q]) /\ ToSet(Q[q]) = {x} \cup ToSet(R[q])
      /\ \A y \in ToSet(R[q]) : x.number < y.number
      /\ x \in Events
  BY <1>1, TailFacts, TailSet, NumberedTail
<1> HIDE DEF x
<1>3. \A y \in ToSet(Q[p]) : y.number < x.number
  BY <1>2 DEF Ordered, Precede
<1>4. R[p] \in Seq(Events) /\ Numbered(R[p]) /\ ToSet(R[p]) = ToSet(Q[p]) \cup {x}
  <2>1. R[p] = Append(Q[p], x) BY DEF x
  <2>2. Q[p] \in Seq(Events) /\ Numbered(Q[p]) /\ x \in Events BY <1>1, <1>2
  <2>3. Append(Q[p], x) \in Seq(Events) BY <2>2, AppendFacts
  <2>4. ToSet(Append(Q[p], x)) = ToSet(Q[p]) \cup {x} BY <2>2, AppendedSet
  <2>5. Numbered(Append(Q[p], x)) BY <2>2, <1>3, NumberedAppend
  <2> QED BY <2>1, <2>3, <2>4, <2>5
<1>5. \A k \in 1 .. 4 : R[k] \in Seq(Events) /\ Numbered(R[k]) /\ ToSet(R[k]) \subseteq ToSet(Q[k]) \cup {x}
  BY <1>1, <1>2, <1>4
<1>6. \A k \in 1 .. 4 \ {p} : ToSet(R[k]) \subseteq ToSet(Q[k])
  BY <1>2
<1>7. \A k \in 1 .. 4 : \A e \in ToSet(R[k]) : e \in T /\ e.number <= n
  BY <1>2, <1>5 DEF Ordered
<1>8. ASSUME NEW i \in 1 .. 4, NEW j \in 1 .. 4, i < j, NEW y \in ToSet(R[i]), NEW z \in ToSet(R[j])
      PROVE  y.number < z.number
  <2>1. CASE y \in ToSet(Q[i]) /\ z \in ToSet(Q[j])
    BY <1>8, <2>1 DEF Ordered, Precede
  <2>2. CASE i = p /\ y = x
    <3>1. CASE j = q BY <1>2, <1>8, <2>2, <3>1
    <3>2. CASE j < q
      <4>1. R[j] = <<>> BY <1>8, <2>2, <3>2
      <4>2. ToSet(R[j]) = {} BY <4>1 DEF ToSet
      <4> QED BY <4>2, <1>8
    <3>3. CASE j > q
      <4>1. z \in ToSet(Q[j]) /\ x \in ToSet(Q[q]) BY <1>2, <1>6, <1>8, <2>2, <3>3
      <4> QED BY <4>1, <2>2, <3>3 DEF Ordered, Precede
    <3> QED BY <3>1, <3>2, <3>3
  <2>3. CASE j = p /\ z = x
    <3>1. y \in ToSet(Q[i]) /\ x \in ToSet(Q[q]) /\ i < q BY <1>2, <1>6, <1>8, <2>3
    <3> QED BY <3>1, <2>3 DEF Ordered, Precede
  <2> QED BY <1>4, <1>6, <1>8, <2>1, <2>2, <2>3
<1> QED BY <1>5, <1>7, <1>8 DEF Ordered, Precede

(* The queues R are the queues Q with x at the end of the q-th, the last   *)
(* one that holds anything.                                                *)
Adds(Q, R, q, x) ==
  /\ R[q] = Append(Q[q], x)
  /\ \A k \in 1 .. 4 \ {q} : R[k] = Q[k]
  /\ \A k \in 1 .. 4 : q < k => Q[k] = <<>>

LEMMA Added ==
  ASSUME NEW Q, NEW R, NEW n \in Nat, NEW T, Ordered(Q, n, T), NEW q \in 1 .. 4,
         NEW x \in Events, x.number = n + 1, Adds(Q, R, q, x)
  PROVE  Ordered(R, n + 1, T \cup {x})
<1> USE DEF Adds
<1>1. \A k \in 1 .. 4 : /\ Q[k] \in Seq(Events) /\ Numbered(Q[k])
                       /\ \A e \in ToSet(Q[k]) : e \in T /\ e.number <= n /\ e \in Events
  <2>1. \A k \in 1 .. 4 : Q[k] \in Seq(Events) BY DEF Ordered
  <2>2. \A k \in 1 .. 4 : \A e \in ToSet(Q[k]) : e \in Events BY <2>1 DEF ToSet
  <2> QED BY <2>1, <2>2 DEF Ordered
<1>2. \A k \in 1 .. 4 : \A e \in ToSet(Q[k]) : e.number \in Nat /\ e.number < x.number
  BY <1>1, EventAssumption
<1>3. R[q] \in Seq(Events) /\ Numbered(R[q]) /\ ToSet(R[q]) = ToSet(Q[q]) \cup {x}
  <2>2. Q[q] \in Seq(Events) /\ Numbered(Q[q]) /\ \A e \in ToSet(Q[q]) : e.number < x.number
    BY <1>1, <1>2
  <2>3. Append(Q[q], x) \in Seq(Events) BY <2>2, AppendFacts
  <2>4. ToSet(Append(Q[q], x)) = ToSet(Q[q]) \cup {x} BY <2>2, AppendedSet
  <2>5. Numbered(Append(Q[q], x)) BY <2>2, NumberedAppend
  <2> QED BY <2>3, <2>4, <2>5
<1>4. \A k \in 1 .. 4 : q < k => ToSet(R[k]) = {}
  BY DEF ToSet
<1>5. \A k \in 1 .. 4 : /\ R[k] \in Seq(Events) /\ Numbered(R[k])
                       /\ \A e \in ToSet(R[k]) : e \in T \cup {x} /\ e.number <= n + 1
  <2> SUFFICES ASSUME NEW k \in 1 .. 4
               PROVE  /\ R[k] \in Seq(Events) /\ Numbered(R[k])
                      /\ \A e \in ToSet(R[k]) : e \in T \cup {x} /\ e.number <= n + 1
    OBVIOUS
  <2>1. \A e \in ToSet(Q[k]) : e \in T \cup {x} /\ e.number <= n + 1
    BY <1>1, <1>2
  <2>2. CASE k = q
    <3>1. \A e \in ToSet(R[q]) : e \in ToSet(Q[q]) \/ e = x BY <1>3
    <3>2. x.number <= n + 1 OBVIOUS
    <3> QED BY <1>3, <2>1, <2>2, <3>1, <3>2
  <2>3. CASE k # q BY <1>1, <2>1, <2>3
  <2> QED BY <2>2, <2>3
<1>6. ASSUME NEW i \in 1 .. 4, NEW j \in 1 .. 4, i < j PROVE Precede(R[i], R[j])
  <2>1. CASE j > q BY <1>4, <2>1 DEF Precede
  <2>2. CASE j = q
    <3>1. R[i] = Q[i] BY <1>6, <2>2
    <3> QED BY <1>2, <1>3, <1>6, <2>2, <3>1 DEF Ordered, Precede
  <2>3. CASE j < q
    <3>1. R[i] = Q[i] /\ R[j] = Q[j] BY <1>6, <2>3
    <3> QED BY <1>6, <3>1 DEF Ordered
  <2> QED BY <2>1, <2>2, <2>3
<1> QED BY <1>5, <1>6 DEF Ordered
-----------------------------------------------------------------------------
(***************************************************************************)
(* The steps                                                               *)
(***************************************************************************)
(* What a step of the session does to the connection.                      *)
LEMMA SessionOnConnection ==
  ASSUME SessionSteps
  PROVE  \/ UNCHANGED <<connection, socket, protocolError, packets, pump, told, closing, roles, bornDeaf>>
         \/ CloseRole(Main)
         \/ CloseClient
  BY DEF SessionSteps, Submit, SubmitSent, SubmitFails, SubmitCancelled, CancelCalled, CancelSent,
         PumpTurn, PumpFails, PumpStops, NextEventPassesOver, NextEventThrows, NextEventTakes,
         NextEventWaits, ReaderGivesUp, ReaderLeaves, CloseSession, Close, connectionVars

LEMMA ConnectionStep ==
  ASSUME CarrierInv, ClosingInv, [Next]_vars
  PROVE  /\ CarrierInv' /\ ClosingInv'
         /\ Unopened' => Unopened
         /\ SessionOpen' => SessionOpen \/ Unopened
<1> DEFINE Kept == /\ CarrierInv' /\ ClosingInv'
                   /\ Unopened' => Unopened
                   /\ SessionOpen' => SessionOpen \/ Unopened
<1> USE ConnectionAssumption
        DEF CarrierInv, ClosingInv, Unopened, SessionOpen, WasmClosed, SilenceIsExplained, RoleStates
<1>1. CASE UNCHANGED <<connection, socket, protocolError, packets, pump, told, closing, roles, bornDeaf>>
  BY <1>1
<1>2. ASSUME NEW r \in Roles, CloseRole(r) PROVE Kept
  BY <1>2 DEF CloseRole
<1>3. CASE CloseClient
  BY <1>3 DEF CloseClient
<1>4. CASE PeerSends
  <2>1. PICK e \in Events : PacketArrives(e) BY <1>4 DEF PeerSends
  <2> QED BY <2>1 DEF PacketArrives
<1>5. CASE SocketFails
  BY <1>5 DEF SocketFails, PumpEnds
<1>6. CASE SocketCloses
  BY <1>6 DEF SocketCloses, PumpEnds
<1>7. CASE ReceiveTimesOut
  BY <1>7 DEF ReceiveTimesOut, PumpEnds
<1>8. CASE ConnectionOpens
  BY <1>8 DEF ConnectionOpens
<1>9. CASE ConnectionFails
  BY <1>9 DEF ConnectionFails
<1>10. CASE CloseCarrier
  BY <1>10 DEF CloseCarrier
<1>11. CASE FreeBinding
  BY <1>11 DEF FreeBinding
<1>12. ASSUME NEW r \in Roles, OpenSession(r) PROVE Kept
  BY <1>12 DEF OpenSession
<1>13. ASSUME NEW r \in Roles, RoleOpens(r) PROVE Kept
  BY <1>13 DEF RoleOpens, PumpStarts, PumpEnds
<1>14. ASSUME NEW r \in Roles, RoleOpenFails(r) PROVE Kept
  BY <1>14 DEF RoleOpenFails
<1>15. ASSUME NEW r \in Roles, RoleCloses(r) PROVE Kept
  BY <1>15 DEF RoleCloses
<1>16. CASE ConnectionSteps
  BY <1>2, <1>5, <1>6, <1>7, <1>8, <1>9, <1>10, <1>11, <1>12, <1>13, <1>14, <1>15, <1>16
  DEF ConnectionSteps
<1>17. CASE SessionSteps
  BY <1>1, <1>2, <1>3, <1>17, SessionOnConnection
<1>18. CASE UNCHANGED vars
  BY <1>1, <1>18 DEF vars, connectionVars
<1> QED BY <1>4, <1>16, <1>17, <1>18 DEF Next

(* Connection and peer leave the waits alone, and no wait is older than    *)
(* its session.                                                            *)
LEMMA WaitsStay ==
  ASSUME CarrierInv, ClosingInv, CallsInv, PumpInv, [Next]_vars,
         UNCHANGED <<call, resultWaiters, eventPump, eventWaiters, answered>>
  PROVE  CallsInv' /\ PumpInv'
<1>1. CallsInv'
  BY DEF CallsInv
<1>2. Unopened' => Unopened
  BY ConnectionStep
<1>3. SessionOpen' => SessionOpen \/ Unopened
  BY ConnectionStep
<1>4. WaitersAreServed'
  BY <1>3 DEF PumpInv, WaitersAreServed, Waiting
<1> QED BY <1>1, <1>2, <1>4 DEF PumpInv

(* An event that is next in the inbox, and the frame it ends.              *)
LEMMA NextEvent ==
  ASSUME OrderInv, inbox # <<>>
  PROVE  /\ Head(inbox) \in Events
         /\ Ends(Head(inbox)) => Head(inbox).frame \in Frames
         /\ CompletesTwice(Head(inbox)) => Head(inbox).frame \in Frames
         /\ Suppressed(Head(inbox)) => Head(inbox).frame \in Frames
<1>1. inbox \in Seq(Events)
  BY DEF OrderInv, Ordered, Queues
<1>2. Head(inbox) \in Events
  BY <1>1, TailFacts
<1> QED BY <1>2, EventAssumption DEF Ends, CompletesTwice, Suppressed, IsEnd, IsRuntimeEnd

LEMMA WaitsStep ==
  ASSUME IInv, [Next]_vars
  PROVE  CallsInv' /\ PumpInv'
<1>0. CarrierInv /\ ClosingInv /\ CallsInv /\ PumpInv /\ OrderInv
  BY DEF IInv
<1>1. (Unopened' => Unopened) /\ (SessionOpen' => SessionOpen \/ Unopened)
  BY <1>0, ConnectionStep
<1>2. CASE UNCHANGED vars
  BY <1>0, <1>2, WaitsStay DEF vars, sessionVars, callVars, readVars
<1>3. CASE ConnectionSteps
  BY <1>0, <1>3, WaitsStay DEF ConnectionSteps, sessionVars, callVars, readVars
<1>4. CASE PeerSends
  BY <1>0, <1>4, WaitsStay DEF PeerSends, callVars, readVars
<1>5. CASE NextEventPassesOver \/ NextEventThrows \/ NextEventTakes
  BY <1>0, <1>5, WaitsStay DEF NextEventPassesOver, NextEventThrows, NextEventTakes, callVars
<1>6. ASSUME NEW f \in Frames, CancelCalled(f) \/ CancelSent(f) PROVE CallsInv' /\ PumpInv'
  BY <1>0, <1>6, WaitsStay DEF CancelCalled, CancelSent, callVars, readVars
<1>7. ASSUME NEW r \in Readers, ReaderGivesUp(r) PROVE CallsInv' /\ PumpInv'
  BY <1>0, <1>7, WaitsStay DEF ReaderGivesUp, callVars
<1> USE DEF CallStates, PumpStates, Waiting
<1>8. ASSUME NEW f \in Frames, Submit(f) PROVE CallsInv' /\ PumpInv'
  <2>1. SessionOpen' /\ SessionOpen /\ ~Unopened
    BY <1>8 DEF Submit, SessionOpen, Unopened, connectionVars
  <2>2. UNCHANGED <<eventPump, eventWaiters>>
    BY <1>8 DEF Submit, readVars
  <2>3. CallsInv'
    BY <1>0, <1>8 DEF Submit, CallsInv
  <2>4. \A g \in Frames : call'[g] = "waiting" => call[g] = "waiting"
    BY <1>0, <1>8 DEF Submit, CallsInv
  <2>5. WaitersAreServed' /\ eventPump' \in PumpStates
    BY <1>0, <2>1, <2>2, <2>4 DEF PumpInv, WaitersAreServed
  <2> QED BY <1>1, <2>1, <2>3, <2>5 DEF PumpInv
<1>9. ASSUME NEW f \in Frames, SubmitSent(f) PROVE CallsInv' /\ PumpInv'
  <2>1. ~Unopened
    BY <1>0, <1>9 DEF SubmitSent, PumpInv
  <2>2. SessionOpen' = SessionOpen /\ UNCHANGED eventWaiters
    BY <1>9 DEF SubmitSent, SessionOpen, connectionVars, readVars
  <2>3. CallsInv'
    BY <1>0, <1>9 DEF SubmitSent, SubmitEnds, CallsInv
  <2>4. WaitersAreServed' /\ eventPump' \in PumpStates
    <3>1. CASE EnsureEventPump
      <4>1. eventPump' \in PumpStates /\ (SessionOpen => eventPump' # "off")
        BY <1>0, <3>1 DEF EnsureEventPump, PumpGoesOn, PumpInv
      <4> QED BY <2>2, <4>1 DEF WaitersAreServed
    <3>2. CASE call'[f] = "detached" /\ UNCHANGED eventPump
      <4>1. \A g \in Frames : call'[g] = "waiting" => call[g] = "waiting"
        BY <1>0, <1>9, <3>2 DEF SubmitSent, SubmitEnds, CallsInv
      <4> QED BY <1>0, <2>2, <3>2, <4>1 DEF PumpInv, WaitersAreServed
    <3> QED BY <1>0, <1>9, <3>1, <3>2 DEF SubmitSent, CallsInv
  <2> QED BY <1>1, <2>1, <2>3, <2>4 DEF PumpInv
<1>10. ASSUME NEW f \in Frames, SubmitFails(f) \/ SubmitCancelled(f) PROVE CallsInv' /\ PumpInv'
  <2>1. SessionOpen' = SessionOpen /\ Unopened' = Unopened /\ UNCHANGED <<eventPump, eventWaiters>>
    BY <1>10 DEF SubmitFails, SubmitCancelled, SessionOpen, Unopened, connectionVars, readVars
  <2>2. CallsInv'
    BY <1>0, <1>10 DEF SubmitFails, SubmitCancelled, SubmitEnds, CallsInv
  <2>3. call[f] # "none"
    BY <1>10 DEF SubmitFails, SubmitCancelled
  <2>4. \A g \in Frames : call'[g] = "waiting" => call[g] = "waiting"
    BY <1>0, <1>10 DEF SubmitFails, SubmitCancelled, SubmitEnds, CallsInv
  <2> QED BY <1>0, <2>1, <2>2, <2>3, <2>4 DEF PumpInv, WaitersAreServed
<1>11. CASE PumpTurn
  <2> DEFINE e == Head(inbox)
  <2>1. e \in Events /\ (Ends(e) => e.frame \in Frames)
    BY <1>0, <1>11, NextEvent DEF PumpTurn
  <2>2. SessionOpen' = SessionOpen /\ Unopened' = Unopened
    BY <1>11 DEF PumpTurn, SessionOpen, Unopened
  <2> HIDE DEF e
  <2>3. ASSUME PumpGoesOn PROVE WaitersAreServed' /\ eventPump' \in PumpStates
    BY <2>3 DEF PumpGoesOn, WaitersAreServed
  <2>4. CASE PumpSuppresses(e)
    <3>1. UNCHANGED <<call, resultWaiters, eventWaiters, answered>> /\ PumpGoesOn
      BY <2>4 DEF PumpSuppresses, callVars, readVars
    <3>2. CallsInv'
      BY <1>0, <3>1 DEF CallsInv
    <3> QED BY <1>0, <2>2, <2>3, <3>1, <3>2 DEF PumpInv
  <2>5. CASE PumpAnswers(e)
    <3>1. CallsInv'
      BY <1>0, <2>1, <2>5 DEF PumpAnswers, CallsInv
    <3>2. (\A f \in Frames : call[f] = "none") => (\A f \in Frames : call'[f] = "none")
      BY <1>0, <2>1, <2>5 DEF PumpAnswers, CallsInv
    <3>3. UNCHANGED eventWaiters /\ PumpGoesOn
      BY <2>5 DEF PumpAnswers
    <3> QED BY <1>0, <2>2, <2>3, <3>1, <3>2, <3>3 DEF PumpInv
  <2>6. CASE PumpHandsOver(e)
    <3>1. UNCHANGED <<call, resultWaiters, answered>> /\ PumpGoesOn
      BY <2>6 DEF PumpHandsOver, callVars
    <3>2. CallsInv'
      BY <1>0, <3>1 DEF CallsInv
    <3>3. eventWaiters = <<>> => eventWaiters' = <<>>
      BY <2>6 DEF PumpHandsOver, HandOver
    <3> QED BY <1>0, <2>2, <2>3, <3>1, <3>2, <3>3 DEF PumpInv
  <2>7. CASE PumpThrows(e)
    <3>1. CallsInv' /\ (\A f \in Frames : call[f] = "none") => (\A f \in Frames : call'[f] = "none")
      BY <1>0, <2>7 DEF PumpThrows, RejectWaiters, CallsInv
    <3>2. CallsInv' /\ eventWaiters' = <<>> /\ eventPump' = "ending"
      BY <1>0, <2>7 DEF PumpThrows, RejectWaiters, CallsInv
    <3> QED BY <1>0, <2>2, <3>1, <3>2 DEF WaitersAreServed, PumpInv
  <2> QED BY <1>11, <2>4, <2>5, <2>6, <2>7 DEF PumpTurn, e
<1>12. CASE PumpFails
  <2>1. CallsInv' /\ eventWaiters' = <<>> /\ eventPump' = "ending"
    BY <1>0, <1>12 DEF PumpFails, RejectWaiters, CallsInv
  <2>2. (\A f \in Frames : call[f] = "none") => (\A f \in Frames : call'[f] = "none")
    BY <1>0, <1>12 DEF PumpFails, RejectWaiters, CallsInv
  <2> QED BY <1>0, <1>1, <2>1, <2>2 DEF WaitersAreServed, PumpInv
<1>13. CASE PumpStops
  <2>1. /\ UNCHANGED <<call, resultWaiters, answered, eventWaiters>>
        /\ SessionOpen' = SessionOpen /\ Unopened' = Unopened
    BY <1>13 DEF PumpStops, callVars, readVars, connectionVars, SessionOpen, Unopened
  <2>2. CallsInv'
    BY <1>0, <2>1 DEF CallsInv
  <2>3. eventPump' = IF SessionOpen /\ (eventWaiters # <<>> \/ resultWaiters # {}) THEN "running" ELSE "off"
    BY <1>13 DEF PumpStops
  <2>4. {f \in Frames : call[f] = "waiting"} \subseteq resultWaiters
    BY <1>0 DEF CallsInv
  <2>5. WaitersAreServed'
    BY <2>1, <2>3, <2>4 DEF WaitersAreServed
  <2> QED BY <1>0, <2>1, <2>2, <2>3, <2>5 DEF PumpInv
<1>14. ASSUME NEW r \in Readers, NextEventWaits(r) PROVE CallsInv' /\ PumpInv'
  <2>1. UNCHANGED <<call, resultWaiters, answered>> /\ EnsureEventPump /\ SessionOpen
    BY <1>14 DEF NextEventWaits, callVars
  <2>2. ~Unopened
    BY <2>1 DEF SessionOpen, Unopened
  <2>3. CallsInv'
    BY <1>0, <2>1 DEF CallsInv
  <2>4. eventPump' \in PumpStates /\ eventPump' # "off"
    BY <1>0, <2>1 DEF EnsureEventPump, PumpGoesOn, PumpInv
  <2> QED BY <1>1, <2>2, <2>3, <2>4 DEF PumpInv, WaitersAreServed
<1>15. ASSUME NEW r \in Readers, ReaderLeaves(r) PROVE CallsInv' /\ PumpInv'
  <2>1. /\ UNCHANGED <<call, resultWaiters, answered, eventPump>>
        /\ SessionOpen' = SessionOpen /\ Unopened' = Unopened
        /\ eventWaiters' = RemoveFirst(eventWaiters, r)
    BY <1>15 DEF ReaderLeaves, callVars, SessionOpen, Unopened, connectionVars
  <2>2. CallsInv'
    BY <1>0, <2>1 DEF CallsInv
  <2>3. eventWaiters = <<>> => eventWaiters' = <<>>
    BY <2>1 DEF RemoveFirst
  <2> QED BY <1>0, <2>1, <2>2, <2>3 DEF PumpInv, WaitersAreServed
<1>16. CASE CloseSession \/ Close
  <2>1. CASE UNCHANGED sessionVars
    BY <1>0, <2>1, WaitsStay DEF sessionVars, callVars, readVars
  <2>2. CASE SessionForgets
    <3>1. CallsInv' /\ UNCHANGED eventPump /\ eventWaiters' = <<>> /\ \A f \in Frames : call'[f] # "waiting"
      BY <1>0, <2>2 DEF SessionForgets, CallsInv
    <3>2. (\A f \in Frames : call[f] = "none") => (\A f \in Frames : call'[f] = "none")
      BY <1>0, <2>2 DEF SessionForgets, CallsInv
    <3> QED BY <1>0, <1>1, <3>1, <3>2 DEF PumpInv, WaitersAreServed
  <2> QED BY <1>16, <2>1, <2>2 DEF CloseSession, Close
<1> QED BY <1>2, <1>3, <1>4, <1>5, <1>6, <1>7, <1>8, <1>9, <1>10, <1>11, <1>12, <1>13, <1>14, <1>15, <1>16
        DEF Next, SessionSteps

LEMMA InjectiveAppend ==
  ASSUME NEW S, NEW s \in Seq(S), IsInjective(s), NEW x \in S, x \notin ToSet(s)
  PROVE  Append(s, x) \in Seq(S) /\ IsInjective(Append(s, x))
<1> DEFINE t == Append(s, x)
           n == Len(s)
<1>1. /\ t \in Seq(S) /\ DOMAIN s = 1 .. n /\ DOMAIN t = 1 .. n + 1
      /\ \A i \in 1 .. n : t[i] = s[i]
      /\ t[n + 1] = x
      /\ \A i \in 1 .. n + 1 : i \in 1 .. n \/ i = n + 1
  BY AppendFacts
<1> HIDE DEF t
<1>2. \A i \in 1 .. n : t[i] # x
  BY <1>1 DEF ToSet
<1>3. IsInjective(t)
  BY <1>1, <1>2 DEF IsInjective
<1> QED BY <1>1, <1>3 DEF t

LEMMA InjectiveTail ==
  ASSUME NEW S, NEW s \in Seq(S), s # <<>>, IsInjective(s)
  PROVE  Tail(s) \in Seq(S) /\ IsInjective(Tail(s))
<1> DEFINE t == Tail(s)
           n == Len(s)
<1>1. /\ t \in Seq(S) /\ n \in Nat /\ DOMAIN s = 1 .. n /\ DOMAIN t = 1 .. n - 1
      /\ \A i \in 1 .. n - 1 : t[i] = s[i + 1] /\ i + 1 \in 1 .. n
  BY TailFacts
<1> HIDE DEF t
<1>2. ASSUME NEW i \in 1 .. n - 1, NEW j \in 1 .. n - 1, t[i] = t[j] PROVE i = j
  <2>1. s[i + 1] = s[j + 1] /\ i + 1 \in DOMAIN s /\ j + 1 \in DOMAIN s BY <1>1, <1>2
  <2>2. i + 1 = j + 1 BY <2>1 DEF IsInjective
  <2> QED BY <2>2
<1>3. IsInjective(t)
  BY <1>1, <1>2 DEF IsInjective
<1> QED BY <1>1, <1>3 DEF t

LEMMA ReadersStep ==
  ASSUME ReadersInv, [Next]_vars
  PROVE  ReadersInv'
<1>1. CASE UNCHANGED <<eventWaiters, eventQueue, leaving>>
  BY <1>1 DEF ReadersInv
<1>2. CASE eventWaiters' = <<>> /\ UNCHANGED leaving
  BY <1>2 DEF ReadersInv, IsInjective
<1>3. CASE PumpTurn
  <2> DEFINE e == Head(inbox)
  <2>1. UNCHANGED leaving
    BY <1>3 DEF PumpTurn, PumpSuppresses, PumpAnswers, PumpHandsOver, PumpThrows, readVars
  <2>2. \/ UNCHANGED <<eventWaiters, eventQueue>>
        \/ eventWaiters' = <<>>
        \/ eventWaiters # <<>> /\ eventWaiters' = Tail(eventWaiters) /\ UNCHANGED eventQueue
    BY <1>3 DEF PumpTurn, PumpSuppresses, PumpAnswers, PumpHandsOver, PumpThrows, RejectWaiters,
                HandOver, HandToWaiter, readVars
  <2>3. CASE eventWaiters # <<>> /\ eventWaiters' = Tail(eventWaiters) /\ UNCHANGED eventQueue
    <3>1. Tail(eventWaiters) \in Seq(Readers) /\ IsInjective(Tail(eventWaiters))
      BY <2>3, InjectiveTail DEF ReadersInv
    <3> QED BY <2>1, <2>3, <3>1 DEF ReadersInv
  <2> QED BY <1>1, <1>2, <2>1, <2>2, <2>3
<1>4. CASE NextEventPassesOver \/ NextEventThrows \/ NextEventTakes
  <2>1. eventWaiters' = <<>> /\ UNCHANGED leaving
    BY <1>4 DEF NextEventPassesOver, NextEventThrows, NextEventTakes, ReadersInv
  <2> QED BY <1>2, <2>1
<1>5. ASSUME NEW r \in Readers, NextEventWaits(r) PROVE ReadersInv'
  <2>1. r \notin ToSet(eventWaiters)
    BY <1>5 DEF NextEventWaits
  <2>2. Append(eventWaiters, r) \in Seq(Readers) /\ IsInjective(Append(eventWaiters, r))
    BY <2>1, InjectiveAppend DEF ReadersInv
  <2> QED BY <1>5, <2>2 DEF NextEventWaits, ReadersInv
<1>6. ASSUME NEW r \in Readers, ReaderGivesUp(r) PROVE ReadersInv'
  BY <1>6 DEF ReaderGivesUp, ReadersInv
<1>7. ASSUME NEW r \in Readers, ReaderLeaves(r) PROVE ReadersInv'
  <2>1. RemoveFirst(eventWaiters, r) \in Seq(Readers) /\ IsInjective(RemoveFirst(eventWaiters, r))
    BY RemovedFirst DEF ReadersInv
  <2>2. eventWaiters = <<>> => eventWaiters' = <<>>
    BY <1>7 DEF ReaderLeaves, RemoveFirst
  <2>3. UNCHANGED eventQueue /\ eventWaiters' = RemoveFirst(eventWaiters, r) /\ leaving' \subseteq leaving
    BY <1>7 DEF ReaderLeaves
  <2> QED BY <2>1, <2>2, <2>3 DEF ReadersInv
<1>8. CASE PumpFails
  BY <1>2, <1>8 DEF PumpFails, RejectWaiters
<1>9. CASE CloseSession \/ Close
  BY <1>1, <1>2, <1>9 DEF CloseSession, Close, SessionForgets, sessionVars, readVars
<1>10. CASE PeerSends \/ PumpStops
  BY <1>1, <1>10 DEF PeerSends, PumpStops, readVars
<1>11. CASE ConnectionSteps \/ UNCHANGED vars
  BY <1>1, <1>11 DEF ConnectionSteps, vars, sessionVars, readVars
<1>12. ASSUME NEW f \in Frames, \/ Submit(f) \/ SubmitSent(f) \/ SubmitFails(f) \/ SubmitCancelled(f)
                                \/ CancelCalled(f) \/ CancelSent(f)
       PROVE ReadersInv'
  BY <1>1, <1>12 DEF Submit, SubmitSent, SubmitFails, SubmitCancelled, CancelCalled, CancelSent, readVars
<1> QED BY <1>3, <1>4, <1>5, <1>6, <1>7, <1>8, <1>9, <1>10, <1>11, <1>12 DEF Next, SessionSteps

(* The queues after a step: nothing moved, or one event did.               *)
LEMMA OrderStep ==
  ASSUME IInv, [Next]_vars
  PROVE  OrderInv'
<1> DEFINE n == Len(sent)
           T == ToSet(sent)
<1>0. /\ sent \in Seq(Events) /\ Ordered(Queues, n, T) /\ n \in Nat
      /\ ReadersInv /\ CarrierInv
      /\ \A e \in T : e.number <= n
  BY DEF IInv, OrderInv
<1>1. /\ Queues[1] = delivered /\ Queues[2] = eventQueue /\ Queues[3] = inbox /\ Queues[4] = packets
      /\ Queues'[1] = delivered' /\ Queues'[2] = eventQueue' /\ Queues'[3] = inbox' /\ Queues'[4] = packets'
      /\ \A k \in 1 .. 4 : k = 1 \/ k = 2 \/ k = 3 \/ k = 4
  BY DEF Queues
<1>2. ASSUME UNCHANGED <<sent, delivered, eventQueue, inbox, packets>> PROVE OrderInv'
  BY <1>0, <1>2 DEF OrderInv, Queues
<1>in. 1 \in 1 .. 4 /\ 2 \in 1 .. 4 /\ 3 \in 1 .. 4 /\ 4 \in 1 .. 4
  OBVIOUS
<1>3. ASSUME Ordered(Queues', n, T), UNCHANGED sent PROVE OrderInv'
  BY <1>0, <1>3 DEF OrderInv
<1> HIDE DEF n, T
<1>4. CASE PumpTurn
  <2> DEFINE e == Head(inbox)
  <2>1. inbox # <<>> /\ inbox' = Tail(inbox) /\ UNCHANGED <<packets, sent>>
    BY <1>4 DEF PumpTurn
  <2>2. CASE UNCHANGED <<delivered, eventQueue>>
    <3>1. \A k \in 1 .. 4 \ {3} : Queues'[k] = Queues[k]
      BY <1>1, <2>1, <2>2
    <3>2. Queues[3] # <<>> /\ Queues'[3] = Tail(Queues[3])
      BY <1>1, <2>1
    <3>3. Ordered(Queues', n, T)
      BY <1>0, <1>in, <3>1, <3>2, Dropped
    <3> QED BY <1>3, <2>1, <3>3
  <2>3. CASE UNCHANGED delivered /\ eventQueue' = Append(eventQueue, e)
    <3>1. \A k \in 1 .. 4 \ {2, 3} : Queues'[k] = Queues[k]
      BY <1>1, <2>1, <2>3
    <3>2. \A k \in 1 .. 4 : 2 < k /\ k < 3 => Queues[k] = <<>>
      OBVIOUS
    <3>3. Queues[3] # <<>> /\ Queues'[3] = Tail(Queues[3])
      BY <1>1, <2>1
    <3>4. Queues'[2] = Append(Queues[2], Head(Queues[3]))
      BY <1>1, <2>3
    <3>5. 2 < 3
      OBVIOUS
    <3>6. Ordered(Queues', n, T)
      BY <1>0, <1>in, <3>1, <3>2, <3>3, <3>4, <3>5, Moved
    <3> QED BY <1>3, <2>1, <3>6
  <2>4. CASE UNCHANGED eventQueue /\ eventWaiters # <<>> /\ delivered' = Append(delivered, e)
    <3>1. \A k \in 1 .. 4 \ {1, 3} : Queues'[k] = Queues[k]
      BY <1>1, <2>1, <2>4
    <3>2. \A k \in 1 .. 4 : 1 < k /\ k < 3 => Queues[k] = <<>>
      BY <1>0, <1>1, <2>4 DEF ReadersInv
    <3>3. Queues[3] # <<>> /\ Queues'[3] = Tail(Queues[3])
      BY <1>1, <2>1
    <3>4. Queues'[1] = Append(Queues[1], Head(Queues[3]))
      BY <1>1, <2>4
    <3>5. 1 < 3
      OBVIOUS
    <3>6. Ordered(Queues', n, T)
      BY <1>0, <1>in, <3>1, <3>2, <3>3, <3>4, <3>5, Moved
    <3> QED BY <1>3, <2>1, <3>6
  <2> QED BY <1>4, <2>2, <2>3, <2>4
          DEF PumpTurn, PumpSuppresses, PumpAnswers, PumpHandsOver, PumpThrows, HandOver, HandToWaiter, readVars
<1>5. CASE NextEventPassesOver \/ NextEventThrows \/ NextEventTakes
  <2> DEFINE e == Head(eventQueue)
  <2>1. eventQueue # <<>> /\ eventQueue' = Tail(eventQueue) /\ UNCHANGED <<inbox, packets, sent>>
    BY <1>5 DEF NextEventPassesOver, NextEventThrows, NextEventTakes, connectionVars
  <2>2. CASE UNCHANGED delivered
    <3>1. \A k \in 1 .. 4 \ {2} : Queues'[k] = Queues[k]
      BY <1>1, <2>1, <2>2
    <3>2. Queues[2] # <<>> /\ Queues'[2] = Tail(Queues[2])
      BY <1>1, <2>1
    <3>3. Ordered(Queues', n, T)
      BY <1>0, <1>in, <3>1, <3>2, Dropped
    <3> QED BY <1>3, <2>1, <3>3
  <2>3. CASE delivered' = Append(delivered, e)
    <3>1. \A k \in 1 .. 4 \ {1, 2} : Queues'[k] = Queues[k]
      BY <1>1, <2>1, <2>3
    <3>2. \A k \in 1 .. 4 : 1 < k /\ k < 2 => Queues[k] = <<>>
      OBVIOUS
    <3>3. Queues[2] # <<>> /\ Queues'[2] = Tail(Queues[2])
      BY <1>1, <2>1
    <3>4. Queues'[1] = Append(Queues[1], Head(Queues[2]))
      BY <1>1, <2>3
    <3>5. 1 < 2
      OBVIOUS
    <3>6. Ordered(Queues', n, T)
      BY <1>0, <1>in, <3>1, <3>2, <3>3, <3>4, <3>5, Moved
    <3> QED BY <1>3, <2>1, <3>6
  <2> QED BY <1>5, <2>2, <2>3 DEF NextEventPassesOver, NextEventThrows, NextEventTakes
<1>6. CASE PeerSends
  <2>1. PICK e \in Events : e.number = n + 1 /\ sent' = Append(sent, e) /\ PacketArrives(e)
    BY <1>6 DEF PeerSends, n
  <2>2. UNCHANGED <<delivered, eventQueue>>
    BY <1>6 DEF PeerSends, readVars
  <2>3. Append(sent, e) \in Seq(Events) /\ Len(Append(sent, e)) = n + 1
    BY <1>0, AppendFacts DEF n
  <2>4. ToSet(Append(sent, e)) = T \cup {e}
    BY <1>0, AppendedSet DEF T
  <2>5. PICK q \in 1 .. 4 : Adds(Queues, Queues', q, e)
    <3>1. CASE pump = "waiting"
      <4>1. inbox' = Append(inbox, e) /\ UNCHANGED packets /\ packets = <<>>
        BY <1>0, <2>1, <3>1 DEF PacketArrives, CarrierInv
      <4>2. Adds(Queues, Queues', 3, e)
        BY <1>1, <2>2, <4>1 DEF Adds
      <4> QED BY <1>in, <4>2
    <3>2. CASE pump # "waiting"
      <4>1. packets' = Append(packets, e) /\ UNCHANGED inbox
        BY <2>1, <3>2 DEF PacketArrives
      <4>2. Adds(Queues, Queues', 4, e)
        BY <1>1, <2>2, <4>1 DEF Adds
      <4> QED BY <1>in, <4>2
    <3> QED BY <3>1, <3>2
  <2>6. Ordered(Queues', n + 1, T \cup {e})
    BY <1>0, <2>1, <2>5, Added
  <2>7. \A x \in T \cup {e} : x.number <= n + 1
    <3>1. \A x \in T : x \in Events
      BY <1>0 DEF T, ToSet
    <3> QED BY <1>0, <2>1, <3>1, EventAssumption
  <2> QED BY <2>1, <2>3, <2>4, <2>6, <2>7 DEF OrderInv
<1>7. CASE ConnectionSteps
  <2>1. UNCHANGED <<sent, delivered, eventQueue>>
    BY <1>7 DEF ConnectionSteps, sessionVars, readVars
  <2>2. UNCHANGED <<inbox, packets>>
    BY <1>7 DEF ConnectionSteps, SocketFails, SocketCloses, ReceiveTimesOut, ConnectionOpens,
       ConnectionFails, CloseCarrier, FreeBinding, OpenSession, RoleOpens, RoleOpenFails, RoleCloses, CloseRole
  <2> QED BY <1>2, <2>1, <2>2
<1>8. CASE UNCHANGED vars
  BY <1>2, <1>8 DEF vars, sessionVars, readVars, connectionVars
<1>9. ASSUME NEW f \in Frames, \/ Submit(f) \/ SubmitSent(f) \/ SubmitFails(f) \/ SubmitCancelled(f)
                               \/ CancelCalled(f) \/ CancelSent(f)
      PROVE OrderInv'
  BY <1>2, <1>9 DEF Submit, SubmitSent, SubmitFails, SubmitCancelled, CancelCalled, CancelSent,
                    readVars, connectionVars
<1>10. ASSUME NEW r \in Readers, NextEventWaits(r) \/ ReaderGivesUp(r) \/ ReaderLeaves(r) PROVE OrderInv'
  BY <1>2, <1>10 DEF NextEventWaits, ReaderGivesUp, ReaderLeaves, connectionVars
<1>11. CASE PumpFails \/ PumpStops \/ CloseSession \/ Close
  BY <1>2, <1>11 DEF PumpFails, PumpStops, CloseSession, Close, SessionForgets, sessionVars, readVars,
     CloseRole, CloseClient, connectionVars
<1> QED BY <1>4, <1>5, <1>6, <1>7, <1>8, <1>9, <1>10, <1>11 DEF Next, SessionSteps

(* The queues, and the sets of their events, as the steps below use them.  *)
LEMMA QueueFacts ==
  ASSUME OrderInv
  PROVE  /\ sent \in Seq(Events) /\ inbox \in Seq(Events) /\ eventQueue \in Seq(Events)
         /\ delivered \in Seq(Events) /\ packets \in Seq(Events)
         /\ ToSet(inbox) \subseteq ToSet(sent) /\ ToSet(eventQueue) \subseteq ToSet(sent)
         /\ ToSet(packets) \subseteq ToSet(sent) /\ ToSet(sent) \subseteq Events
         /\ Numbered(inbox) /\ Precede(inbox, packets)
         /\ Precede(eventQueue, inbox) /\ Precede(eventQueue, packets)
<1>1. /\ Queues[1] = delivered /\ Queues[2] = eventQueue /\ Queues[3] = inbox /\ Queues[4] = packets
      /\ 1 \in 1 .. 4 /\ 2 \in 1 .. 4 /\ 3 \in 1 .. 4 /\ 4 \in 1 .. 4
  BY DEF Queues
<1>2. sent \in Seq(Events) /\ Ordered(Queues, Len(sent), ToSet(sent))
  BY DEF OrderInv
<1>3. /\ delivered \in Seq(Events) /\ eventQueue \in Seq(Events)
      /\ inbox \in Seq(Events) /\ packets \in Seq(Events) /\ Numbered(inbox)
  BY <1>1, <1>2 DEF Ordered
<1>4. /\ ToSet(inbox) \subseteq ToSet(sent) /\ ToSet(eventQueue) \subseteq ToSet(sent)
      /\ ToSet(packets) \subseteq ToSet(sent)
  BY <1>1, <1>2 DEF Ordered
<1>5. Precede(inbox, packets) /\ Precede(eventQueue, inbox) /\ Precede(eventQueue, packets)
  <2>1. \A q \in 1 .. 4, p \in 1 .. 4 : q < p => Precede(Queues[q], Queues[p])
    BY <1>2 DEF Ordered
  <2> QED BY <1>1, <2>1
<1>6. ToSet(sent) \subseteq Events
  BY <1>2 DEF ToSet
<1> QED BY <1>2, <1>3, <1>4, <1>5, <1>6

(* What else reaches none of the queues of events.                         *)
LEMMA QuietSteps ==
  ASSUME Next, ~PumpTurn, ~PeerSends, ~NextEventPassesOver, ~NextEventThrows, ~NextEventTakes
  PROVE  /\ UNCHANGED <<sent, inbox, packets, eventQueue, delivered, remembered, refused, orphaned>>
         /\ withdrawn \subseteq withdrawn' /\ terminal' \subseteq terminal
         /\ answered' = answered
<1> DEFINE Quiet == /\ UNCHANGED <<sent, inbox, packets, eventQueue, delivered, remembered, refused, orphaned>>
                    /\ withdrawn \subseteq withdrawn' /\ terminal' \subseteq terminal
                    /\ answered' = answered
<1> USE DEF sessionVars, frameVars, callVars, readVars, connectionVars
<1>1. CASE ConnectionSteps
  <2>1. UNCHANGED <<inbox, packets>>
    BY <1>1 DEF ConnectionSteps, SocketFails, SocketCloses, ReceiveTimesOut, ConnectionOpens,
       ConnectionFails, CloseCarrier, FreeBinding, OpenSession, RoleOpens, RoleOpenFails, RoleCloses, CloseRole
  <2> QED BY <1>1, <2>1 DEF ConnectionSteps
<1>2. ASSUME NEW f \in Frames, \/ Submit(f) \/ SubmitSent(f) \/ SubmitFails(f) \/ SubmitCancelled(f)
                               \/ CancelCalled(f) \/ CancelSent(f)
      PROVE Quiet
  BY <1>2 DEF Submit, SubmitSent, SubmitFails, SubmitCancelled, CancelCalled, CancelSent, SubmitEnds
<1>3. ASSUME NEW r \in Readers, NextEventWaits(r) \/ ReaderGivesUp(r) \/ ReaderLeaves(r) PROVE Quiet
  BY <1>3 DEF NextEventWaits, ReaderGivesUp, ReaderLeaves
<1>4. CASE PumpFails \/ PumpStops
  BY <1>4 DEF PumpFails, PumpStops, RejectWaiters
<1>5. CASE CloseSession \/ Close
  BY <1>5 DEF CloseSession, Close, SessionForgets, CloseRole, CloseClient
<1> QED BY <1>1, <1>2, <1>3, <1>4, <1>5 DEF Next, SessionSteps

(* A frame that is over has had an end, older than what is to come.        *)
LEMMA EndsStep ==
  ASSUME IInv, [Next]_vars
  PROVE  EndsInv'
<1>0. OrderInv /\ EndsInv
  BY DEF IInv
<1>1. ASSUME ToSet(inbox') \subseteq ToSet(inbox), ToSet(packets') \subseteq ToSet(packets), UNCHANGED sent,
             \A f \in terminal' : f \in terminal \/ Ended(f)'
      PROVE  EndsInv'
  <2>1. \A f \in terminal : Ended(f) => Ended(f)'
    BY <1>1 DEF Ended
  <2> QED BY <1>0, <1>1, <2>1 DEF EndsInv
<1>2. CASE PumpTurn
  <2>1. inbox # <<>> /\ inbox' = Tail(inbox) /\ UNCHANGED <<packets, sent>>
    BY <1>2 DEF PumpTurn
  <2>2. PICK e :
          /\ e = Head(inbox)
          /\ ToSet(inbox) = {e} \cup ToSet(inbox') /\ e \in ToSet(sent)
          /\ \A y \in ToSet(inbox') : e.number < y.number
          /\ \A y \in ToSet(packets) : e.number < y.number
    BY <1>0, <2>1, QueueFacts, TailSet, NumberedTail DEF Precede
  <2>3. PumpSuppresses(e) \/ PumpAnswers(e) \/ PumpHandsOver(e) \/ PumpThrows(e)
    BY <1>2, <2>2 DEF PumpTurn
  <2>4. \A f \in terminal' : f \in terminal \/ (f = e.frame /\ IsEnd(e))
    BY <2>3 DEF PumpSuppresses, PumpAnswers, PumpHandsOver, PumpThrows, RejectWaiters, CompleteEvent,
                Suppress, Suppressed, Ends, IsEnd, IsRuntimeEnd
  <2>5. IsEnd(e) => Ended(e.frame)'
    BY <2>1, <2>2 DEF Ended, IsEnd, IsRuntimeEnd
  <2> QED BY <1>1, <2>1, <2>2, <2>4, <2>5
<1>3. CASE NextEventPassesOver \/ NextEventThrows \/ NextEventTakes
  <2>1. eventQueue # <<>> /\ UNCHANGED <<inbox, packets, sent>>
    BY <1>3 DEF NextEventPassesOver, NextEventThrows, NextEventTakes, connectionVars
  <2>2. PICK e : e = Head(eventQueue) /\ e \in ToSet(eventQueue) /\ e \in ToSet(sent)
    BY <1>0, <2>1, QueueFacts, TailSet
  <2>3. \A f \in terminal' : f \in terminal \/ (f = e.frame /\ IsEnd(e))
    BY <1>3, <2>2 DEF NextEventPassesOver, NextEventThrows, NextEventTakes, CompleteEvent, Suppress,
                Suppressed, Ends, IsEnd, IsRuntimeEnd, frameVars
  <2>4. \A y \in ToSet(inbox) \cup ToSet(packets) : e.number < y.number
    BY <1>0, <2>2, QueueFacts DEF Precede
  <2>5. IsEnd(e) => Ended(e.frame)'
    BY <2>1, <2>2, <2>4 DEF Ended, IsEnd, IsRuntimeEnd
  <2> QED BY <1>1, <2>1, <2>3, <2>5
<1>4. CASE PeerSends
  <2>1. PICK e \in Events : e.number = Len(sent) + 1 /\ sent' = Append(sent, e) /\ PacketArrives(e)
    BY <1>4 DEF PeerSends
  <2>2. UNCHANGED terminal
    BY <1>4 DEF PeerSends, frameVars
  <2>3. ToSet(sent') = ToSet(sent) \cup {e} /\ Len(sent) \in Nat
    BY <1>0, <2>1, QueueFacts, AppendedSet
  <2>4. ToSet(inbox') \cup ToSet(packets') = ToSet(inbox) \cup ToSet(packets) \cup {e}
    <3>1. CASE inbox' = Append(inbox, e) /\ UNCHANGED packets
      BY <1>0, <3>1, QueueFacts, AppendedSet
    <3>2. CASE packets' = Append(packets, e) /\ UNCHANGED inbox
      BY <1>0, <3>2, QueueFacts, AppendedSet
    <3> QED BY <2>1, <3>1, <3>2 DEF PacketArrives
  <2>5. \A x \in ToSet(sent) : x.number < e.number
    <3>1. \A x \in ToSet(sent) : x.number \in Nat /\ x.number <= Len(sent)
      BY <1>0, QueueFacts, EventAssumption DEF OrderInv
    <3> QED BY <2>1, <2>3, <3>1
  <2>6. \A f \in terminal : Ended(f) => Ended(f)'
    BY <2>3, <2>4, <2>5 DEF Ended
  <2> QED BY <1>0, <2>2, <2>6 DEF EndsInv
<1>5. CASE UNCHANGED vars
  BY <1>1, <1>5 DEF vars, sessionVars, frameVars, connectionVars
<1>6. CASE Next /\ ~PumpTurn /\ ~PeerSends /\ ~NextEventPassesOver /\ ~NextEventThrows /\ ~NextEventTakes
  BY <1>1, <1>6, QuietSteps
<1> QED BY <1>2, <1>3, <1>4, <1>5, <1>6

(* Every event is in its place after a step, or has an excuse by then.     *)
LEMMA EventsStep ==
  ASSUME IInv, [Next]_vars
  PROVE  EventsInv'
<1>0. OrderInv /\ EndsInv /\ EventsInv /\ cancelled \subseteq withdrawn
  BY DEF IInv, FramesInv
<1>1. ASSUME UNCHANGED sent, withdrawn \subseteq withdrawn', refused \subseteq refused', orphaned \subseteq orphaned',
             \A x \in ToSet(sent) : Placed(x) => Placed(x)' \/ Excused(x)'
      PROVE  EventsInv'
  <2>1. \A x \in ToSet(sent) : Excused(x) => Excused(x)'
    BY <1>1 DEF Excused, SecondEnd, IsEnd, IsRuntimeEnd
  <2> QED BY <1>0, <1>1, <2>1 DEF EventsInv
<1>2. CASE PumpTurn
  <2>1. inbox # <<>> /\ inbox' = Tail(inbox) /\ UNCHANGED <<packets, sent, withdrawn, refused>>
    BY <1>2 DEF PumpTurn, PumpSuppresses, PumpAnswers, PumpHandsOver, PumpThrows, CompleteEvent, Suppress,
                RejectWaiters, readVars
  <2>2. PICK e \in Events : e = Head(inbox) /\ ToSet(inbox) = {e} \cup ToSet(inbox')
    BY <1>0, <2>1, QueueFacts, TailFacts, TailSet
  <2>3. PumpSuppresses(e) \/ PumpAnswers(e) \/ PumpHandsOver(e) \/ PumpThrows(e)
    BY <1>2, <2>2 DEF PumpTurn
  <2>4. /\ ToSet(delivered) \subseteq ToSet(delivered') /\ ToSet(eventQueue) \subseteq ToSet(eventQueue')
        /\ answered \subseteq answered' /\ orphaned \subseteq orphaned'
        /\ e \in ToSet(delivered') \cup ToSet(eventQueue') \cup answered' \/ Excused(e)'
    <3>1. CASE PumpSuppresses(e)
      <4>1. e.kind = "result" /\ e.frame \in withdrawn'
        BY <1>0, <2>1, <3>1 DEF PumpSuppresses, Suppressed
      <4> QED BY <3>1, <4>1 DEF PumpSuppresses, callVars, readVars, Excused
    <3>2. CASE PumpAnswers(e)
      BY <3>2 DEF PumpAnswers
    <3>3. CASE PumpThrows(e)
      <4>1. IsRuntimeEnd(e) /\ e.frame \in terminal /\ e \in ToSet(inbox)
        BY <2>2, <3>3 DEF PumpThrows, CompletesTwice
      <4>2. PICK x \in ToSet(sent) : IsEnd(x) /\ x.frame = e.frame /\ x.number < e.number
        BY <1>0, <4>1 DEF EndsInv, Ended
      <4>3. SecondEnd(e)'
        BY <2>1, <4>1, <4>2 DEF SecondEnd, IsEnd, IsRuntimeEnd
      <4>4. UNCHANGED <<delivered, eventQueue, answered, orphaned>>
        BY <3>3 DEF PumpThrows, RejectWaiters
      <4> QED BY <4>3, <4>4 DEF Excused
    <3>4. CASE PumpHandsOver(e)
      <4>1. UNCHANGED answered
        BY <3>4 DEF PumpHandsOver, callVars
      <4>2. CASE eventQueue' = Append(eventQueue, e) /\ UNCHANGED <<delivered, orphaned>>
        <5>1. ToSet(eventQueue') = ToSet(eventQueue) \cup {e}
          BY <1>0, <2>2, <4>2, QueueFacts, AppendedSet
        <5> QED BY <4>1, <4>2, <5>1
      <4>3. CASE delivered' = Append(delivered, e) /\ UNCHANGED <<eventQueue, orphaned>>
        <5>1. ToSet(delivered') = ToSet(delivered) \cup {e}
          BY <1>0, <2>2, <4>3, QueueFacts, AppendedSet
        <5> QED BY <4>1, <4>3, <5>1
      <4>4. CASE orphaned' = orphaned \cup {e} /\ UNCHANGED <<eventQueue, delivered>>
        BY <4>1, <4>4 DEF Excused
      <4> QED BY <3>4, <4>2, <4>3, <4>4 DEF PumpHandsOver, HandOver, HandToWaiter
    <3> QED BY <2>3, <3>1, <3>2, <3>3, <3>4
  <2>5. ASSUME NEW x \in ToSet(sent), Placed(x) PROVE Placed(x)' \/ Excused(x)'
    BY <2>1, <2>2, <2>4, <2>5 DEF Placed
  <2> QED BY <1>1, <2>1, <2>4, <2>5
<1>3. CASE NextEventPassesOver \/ NextEventThrows \/ NextEventTakes
  <2>1. /\ eventQueue # <<>> /\ eventQueue' = Tail(eventQueue)
        /\ UNCHANGED <<inbox, packets, sent, answered, withdrawn, orphaned>>
        /\ refused \subseteq refused'
    BY <1>3 DEF NextEventPassesOver, NextEventThrows, NextEventTakes, CompleteEvent, Suppress,
                callVars, frameVars, connectionVars
  <2>2. PICK e \in Events : e = Head(eventQueue) /\ ToSet(eventQueue) = {e} \cup ToSet(eventQueue')
    BY <1>0, <2>1, QueueFacts, TailFacts, TailSet
  <2>3. ToSet(delivered) \subseteq ToSet(delivered') /\ (e \in ToSet(delivered') \/ Excused(e)')
    <3>1. CASE NextEventPassesOver
      BY <1>0, <2>2, <3>1 DEF NextEventPassesOver, Suppress, Suppressed, Excused
    <3>2. CASE NextEventThrows
      BY <2>2, <3>2 DEF NextEventThrows, Excused
    <3>3. CASE NextEventTakes
      <4>1. delivered' = Append(delivered, e)
        BY <2>2, <3>3 DEF NextEventTakes
      <4>2. ToSet(Append(delivered, e)) = ToSet(delivered) \cup {e}
        BY <1>0, <2>2, QueueFacts, AppendedSet
      <4> QED BY <4>1, <4>2
    <3> QED BY <1>3, <3>1, <3>2, <3>3
  <2>4. ASSUME NEW x \in ToSet(sent), Placed(x) PROVE Placed(x)' \/ Excused(x)'
    BY <2>1, <2>2, <2>3, <2>4 DEF Placed
  <2> QED BY <1>1, <2>1, <2>4
<1>4. CASE PeerSends
  <2>1. PICK e \in Events : sent' = Append(sent, e) /\ PacketArrives(e)
    BY <1>4 DEF PeerSends
  <2>2. UNCHANGED <<answered, delivered, eventQueue, withdrawn, refused, orphaned>>
    BY <1>4 DEF PeerSends, callVars, readVars, frameVars
  <2>3. ToSet(sent') = ToSet(sent) \cup {e}
    BY <1>0, <2>1, QueueFacts, AppendedSet
  <2>4. ToSet(packets') \cup ToSet(inbox') = ToSet(packets) \cup ToSet(inbox) \cup {e}
    <3>1. CASE inbox' = Append(inbox, e) /\ UNCHANGED packets
      BY <1>0, <3>1, QueueFacts, AppendedSet
    <3>2. CASE packets' = Append(packets, e) /\ UNCHANGED inbox
      BY <1>0, <3>2, QueueFacts, AppendedSet
    <3> QED BY <2>1, <3>1, <3>2 DEF PacketArrives
  <2>5. \A x : (Placed(x) \/ x = e) => Placed(x)'
    BY <2>2, <2>4 DEF Placed
  <2>6. \A x \in ToSet(sent) : Excused(x) => Excused(x)'
    BY <2>2, <2>3 DEF Excused, SecondEnd, IsEnd, IsRuntimeEnd
  <2> QED BY <1>0, <2>3, <2>5, <2>6 DEF EventsInv
<1>5. CASE UNCHANGED vars
  BY <1>1, <1>5 DEF vars, sessionVars, frameVars, callVars, readVars, connectionVars, Placed
<1>6. CASE Next /\ ~PumpTurn /\ ~PeerSends /\ ~NextEventPassesOver /\ ~NextEventThrows /\ ~NextEventTakes
  <2>1. /\ UNCHANGED <<sent, inbox, packets, eventQueue, delivered, refused, orphaned, answered>>
        /\ withdrawn \subseteq withdrawn'
    BY <1>6, QuietSteps
  <2>2. \A x \in ToSet(sent) : Placed(x) => Placed(x)'
    BY <2>1 DEF Placed
  <2> QED BY <1>1, <2>1, <2>2
<1> QED BY <1>2, <1>3, <1>4, <1>5, <1>6

LEMMA SetsStep ==
  ASSUME IInv, [Next]_vars
  PROVE  SetsInv'
<1>0. OrderInv /\ SetsInv
  BY DEF IInv
<1>1. CASE PumpTurn
  <2> DEFINE e == Head(inbox)
  <2>1. e \in Events
    BY <1>0, <1>1, NextEvent DEF PumpTurn
  <2>2. PumpSuppresses(e) \/ PumpAnswers(e) \/ PumpHandsOver(e) \/ PumpThrows(e)
    BY <1>1 DEF PumpTurn
  <2> HIDE DEF e
  <2>3. /\ answered' \subseteq answered \cup {e} /\ remembered' \subseteq remembered \cup {e}
        /\ orphaned' \subseteq orphaned \cup {e} /\ refused' = refused
    BY <2>2 DEF PumpSuppresses, PumpAnswers, PumpHandsOver, PumpThrows, RejectWaiters, CompleteEvent,
                HandOver, HandToWaiter, callVars, readVars
  <2> QED BY <1>0, <2>1, <2>3 DEF SetsInv
<1>2. CASE NextEventPassesOver \/ NextEventThrows \/ NextEventTakes
  <2> DEFINE e == Head(eventQueue)
  <2>1. e \in Events
    BY <1>0, <1>2, QueueFacts, TailFacts DEF NextEventPassesOver, NextEventThrows, NextEventTakes
  <2>2. /\ answered' = answered /\ remembered' \subseteq remembered \cup {e}
        /\ orphaned' = orphaned /\ refused' \subseteq refused \cup {e}
    BY <1>2 DEF NextEventPassesOver, NextEventThrows, NextEventTakes, CompleteEvent, callVars
  <2> QED BY <1>0, <2>1, <2>2 DEF SetsInv
<1>3. CASE PeerSends \/ UNCHANGED vars
  BY <1>0, <1>3 DEF PeerSends, vars, sessionVars, callVars, readVars, SetsInv
<1>4. CASE Next /\ ~PumpTurn /\ ~PeerSends /\ ~NextEventPassesOver /\ ~NextEventThrows /\ ~NextEventTakes
  BY <1>0, <1>4, QuietSteps DEF SetsInv
<1> QED BY <1>1, <1>2, <1>3, <1>4

LEMMA FramesStep ==
  ASSUME IInv, [Next]_vars
  PROVE  FramesInv'
<1>0. FramesInv /\ OrderInv
  BY DEF IInv
<1>1. ASSUME UNCHANGED <<credits, frameVars>> PROVE FramesInv'
  BY <1>0, <1>1 DEF frameVars, FramesInv
<1>2. ASSUME NEW e \in Events, CompleteEvent(e) PROVE FramesInv'
  <2>1. (Ends(e) => e.frame \in Frames) /\ (e.kind = "flow" => e.credits \in Nat)
    BY EventAssumption, SessionAssumption DEF Ends, IsEnd, IsRuntimeEnd
  <2> QED BY <1>0, <1>2, <2>1 DEF CompleteEvent, FramesInv
<1>3. ASSUME NEW e \in Events, Suppressed(e), Suppress(e), UNCHANGED credits PROVE FramesInv'
  BY <1>0, <1>3 DEF Suppressed, Suppress, FramesInv
<1>4. CASE ConnectionSteps \/ PeerSends \/ PumpStops \/ UNCHANGED vars
  BY <1>1, <1>4 DEF ConnectionSteps, PeerSends, PumpStops, vars, sessionVars, creditVars
<1>5. ASSUME NEW f \in Frames, Submit(f) PROVE FramesInv'
  BY <1>0, <1>5 DEF Submit, FramesInv
<1>6. ASSUME NEW f \in Frames, SubmitSent(f) \/ SubmitFails(f) PROVE FramesInv'
  BY <1>0, <1>6 DEF SubmitSent, SubmitFails, SubmitEnds, frameVars, creditVars, FramesInv
<1>7. ASSUME NEW f \in Frames, SubmitCancelled(f) \/ CancelCalled(f) \/ CancelSent(f) PROVE FramesInv'
  BY <1>0, <1>7 DEF SubmitCancelled, CancelCalled, CancelSent, creditVars, FramesInv
<1>8. ASSUME NEW r \in Readers, NextEventWaits(r) \/ ReaderGivesUp(r) \/ ReaderLeaves(r) PROVE FramesInv'
  BY <1>1, <1>8 DEF NextEventWaits, ReaderGivesUp, ReaderLeaves, creditVars
<1>9. CASE NextEventPassesOver \/ NextEventThrows \/ NextEventTakes
  <2>1. Head(eventQueue) \in Events
    BY <1>0, <1>9, QueueFacts, TailFacts DEF NextEventPassesOver, NextEventThrows, NextEventTakes
  <2> QED BY <1>1, <1>2, <1>3, <1>9, <2>1
          DEF NextEventPassesOver, NextEventThrows, NextEventTakes, creditVars
<1>10. CASE PumpTurn
  <2>1. Head(inbox) \in Events
    BY <1>0, <1>10, NextEvent DEF PumpTurn
  <2>2. CASE PumpSuppresses(Head(inbox))
    BY <1>3, <2>1, <2>2 DEF PumpSuppresses, creditVars
  <2>3. CASE PumpAnswers(Head(inbox)) \/ PumpHandsOver(Head(inbox))
    BY <1>2, <2>1, <2>3 DEF PumpAnswers, PumpHandsOver
  <2>4. CASE PumpThrows(Head(inbox))
    BY <1>0, <2>4 DEF PumpThrows, RejectWaiters, creditVars, FramesInv
  <2> QED BY <1>10, <2>2, <2>3, <2>4 DEF PumpTurn
<1>11. CASE PumpFails \/ CloseSession \/ Close
  BY <1>0, <1>11 DEF PumpFails, RejectWaiters, CloseSession, Close, SessionForgets, sessionVars, frameVars,
                     creditVars, FramesInv
<1> QED BY <1>4, <1>5, <1>6, <1>7, <1>8, <1>9, <1>10, <1>11 DEF Next, SessionSteps

LEMMA InitIInv == Init => IInv
<1> SUFFICES ASSUME Init PROVE IInv
  OBVIOUS
<1> USE DEF Init, ConnectionInit
<1>1. CarrierInv /\ ClosingInv
  BY ConnectionAssumption DEF CarrierInv, ClosingInv, RoleStates, WasmClosed, SilenceIsExplained
<1>2. CallsInv
  BY DEF CallsInv, CallStates
<1>3. PumpInv
  BY ConnectionAssumption DEF PumpInv, PumpStates, Unopened, WaitersAreServed, SessionOpen
<1>4. ReadersInv
  BY DEF ReadersInv, IsInjective
<1>5. OrderInv
  <2>1. \A q \in 1 .. 4 : Queues[q] = <<>>
    BY DEF Queues
  <2>2. ToSet(<<>>) = {} /\ Numbered(<<>>) /\ <<>> \in Seq(Events)
    BY DEF ToSet, Numbered
  <2> QED BY <2>1, <2>2 DEF OrderInv, Ordered, Precede
<1>6. EndsInv /\ EventsInv /\ SetsInv
  BY DEF EndsInv, EventsInv, SetsInv, ToSet
<1>7. FramesInv
  BY SessionAssumption DEF FramesInv
<1> QED BY <1>1, <1>2, <1>3, <1>4, <1>5, <1>6, <1>7 DEF IInv

LEMMA StepIInv == IInv /\ [Next]_vars => IInv'
  BY ConnectionStep, WaitsStep, ReadersStep, OrderStep, EndsStep, EventsStep, SetsStep, FramesStep DEF IInv

LEMMA Invariance == Spec => []IInv
  BY InitIInv, StepIInv, PTL DEF Spec
-----------------------------------------------------------------------------
(***************************************************************************)
(* The theorems                                                            *)
(***************************************************************************)
(* While a submit awaits its result or a reader an event on an open        *)
(* session, the event pump is running, or is about to look once more who   *)
(* waits: #ensureEventPump, the pump's own last look in its finally, and   *)
(* the rejections leave nobody behind.                                     *)
THEOREM WaitersAreServedTheorem == Spec => []WaitersAreServed
<1>1. IInv => WaitersAreServed
  BY DEF IInv, PumpInv
<1> QED BY <1>1, Invariance, PTL

(* The pump of the carrier never ends without WASM having been told, but   *)
(* for a client that was closed or a socket that was gone before.          *)
THEOREM SilenceIsExplainedTheorem == Spec => []SilenceIsExplained
<1>1. IInv => SilenceIsExplained
  BY DEF IInv, CarrierInv
<1> QED BY <1>1, Invariance, PTL

(* After close() has freed the binding no pump uses it, the socket is not  *)
(* open and no role is, whatever was being opened meanwhile.               *)
THEOREM FreedIsOverTheorem == Spec => []FreedIsOver
<1>1. IInv => FreedIsOver
  BY DEF IInv, ClosingInv, FreedIsOver, WasmClosed
<1> QED BY <1>1, Invariance, PTL

(* What the peer sent is in a queue, with a reader or with its submit, or  *)
(* is the late result of a cancelled operation, a second end of its frame, *)
(* or one of the events lost by the two defects.                           *)
THEOREM OnlyEndsVanishTheorem == Spec => []OnlyEndsVanish
<1>1. IInv => OnlyEndsVanish
  BY DEF IInv, EventsInv, Placed, Excused, OnlyEndsVanish
<1> QED BY <1>1, Invariance, PTL

(* Two queues one after the other.                                         *)
LEMMA NumberedConcat ==
  ASSUME NEW S, NEW s \in Seq(S), NEW t \in Seq(S), Numbered(s), Numbered(t), Precede(s, t)
  PROVE  s \o t \in Seq(S) /\ Numbered(s \o t) /\ ToSet(s \o t) = ToSet(s) \cup ToSet(t)
<1> DEFINE u == s \o t
           m == Len(s)
           n == Len(t)
<1>1. /\ u \in Seq(S) /\ m \in Nat /\ n \in Nat /\ Len(u) = m + n
      /\ DOMAIN s = 1 .. m /\ DOMAIN t = 1 .. n /\ DOMAIN u = 1 .. m + n
      /\ \A i \in 1 .. m + n : u[i] = IF i <= m THEN s[i] ELSE t[i - m]
  OBVIOUS
<1> HIDE DEF u, m, n
<1>2. ASSUME NEW i \in 1 .. m + n
      PROVE  \/ i \in 1 .. m /\ u[i] = s[i] /\ s[i] \in ToSet(s)
             \/ i - m \in 1 .. n /\ ~(i <= m) /\ u[i] = t[i - m] /\ t[i - m] \in ToSet(t)
  <2>1. CASE i <= m
    <3>1. i \in 1 .. m /\ u[i] = s[i] BY <1>1, <2>1
    <3> QED BY <1>1, <3>1 DEF ToSet
  <2>2. CASE ~(i <= m)
    <3>1. i - m \in 1 .. n /\ u[i] = t[i - m] BY <1>1, <2>2
    <3> QED BY <1>1, <2>2, <3>1 DEF ToSet
  <2> QED BY <2>1, <2>2
<1>3. ASSUME NEW i \in 1 .. m + n, NEW j \in 1 .. m + n, i < j PROVE u[i].number < u[j].number
  <2>1. CASE i \in 1 .. m /\ j \in 1 .. m
    <3>1. u[i] = s[i] /\ u[j] = s[j] BY <1>1, <2>1
    <3> QED BY <1>1, <1>3, <2>1, <3>1 DEF Numbered
  <2>2. CASE i \in 1 .. m /\ ~(j \in 1 .. m)
    <3>1. u[i] = s[i] /\ s[i] \in ToSet(s) BY <1>1, <1>2, <2>2
    <3>2. u[j] = t[j - m] /\ t[j - m] \in ToSet(t) BY <1>2, <2>2
    <3> QED BY <3>1, <3>2 DEF Precede
  <2>3. CASE ~(i \in 1 .. m)
    <3>1. i - m \in 1 .. n /\ u[i] = t[i - m] BY <1>2, <2>3
    <3>2. ~(j \in 1 .. m) BY <1>1, <1>3, <2>3
    <3>3. j - m \in 1 .. n /\ u[j] = t[j - m] BY <1>2, <3>2
    <3>4. i - m < j - m BY <1>1, <1>3
    <3> QED BY <1>1, <3>1, <3>3, <3>4 DEF Numbered
  <2> QED BY <2>1, <2>2, <2>3
<1>4. Numbered(u)
  BY <1>1, <1>3 DEF Numbered
<1>5. ToSet(u) = ToSet(s) \cup ToSet(t)
  <2>1. ToSet(u) \subseteq ToSet(s) \cup ToSet(t)
    <3> SUFFICES ASSUME NEW y \in ToSet(u) PROVE y \in ToSet(s) \cup ToSet(t)
      OBVIOUS
    <3>1. PICK i \in 1 .. m + n : y = u[i] BY <1>1 DEF ToSet
    <3> QED BY <1>2, <3>1
  <2>2. ASSUME NEW y \in ToSet(s) PROVE y \in ToSet(u)
    <3>1. PICK i \in 1 .. m : y = s[i] BY <1>1 DEF ToSet
    <3>2. i \in 1 .. m + n /\ u[i] = s[i] BY <1>1
    <3> QED BY <1>1, <3>1, <3>2 DEF ToSet
  <2>3. ASSUME NEW y \in ToSet(t) PROVE y \in ToSet(u)
    <3>1. PICK i \in 1 .. n : y = t[i] BY <1>1 DEF ToSet
    <3>2. i + m \in 1 .. m + n /\ ~(i + m <= m) /\ (i + m) - m = i BY <1>1
    <3>3. u[i + m] = t[i] BY <1>1, <3>2
    <3> QED BY <1>1, <3>1, <3>2, <3>3 DEF ToSet
  <2> QED BY <2>1, <2>2, <2>3
<1> QED BY <1>1, <1>4, <1>5 DEF u

(* Every variable keeps its type, and the events from the oldest with a    *)
(* reader to the newest in the socket are in the order they were sent.     *)
THEOREM EventsKeepTheirOrderTheorem == Spec => []EventsKeepTheirOrder
<1>1. ASSUME IInv PROVE EventsKeepTheirOrder
  <2>0. /\ CarrierInv /\ ClosingInv /\ CallsInv /\ PumpInv /\ ReadersInv /\ SetsInv /\ FramesInv
        /\ sent \in Seq(Events) /\ Ordered(Queues, Len(sent), ToSet(sent))
    BY <1>1 DEF IInv, OrderInv
  <2>1. /\ Queues[1] = delivered /\ Queues[2] = eventQueue /\ Queues[3] = inbox /\ Queues[4] = packets
        /\ 1 \in 1 .. 4 /\ 2 \in 1 .. 4 /\ 3 \in 1 .. 4 /\ 4 \in 1 .. 4
    BY DEF Queues
  <2>2. /\ delivered \in Seq(Events) /\ eventQueue \in Seq(Events) /\ inbox \in Seq(Events) /\ packets \in Seq(Events)
        /\ Numbered(delivered) /\ Numbered(eventQueue) /\ Numbered(inbox) /\ Numbered(packets)
    BY <2>0, <2>1 DEF Ordered
  <2>3. /\ Precede(delivered, eventQueue) /\ Precede(delivered, inbox) /\ Precede(delivered, packets)
        /\ Precede(eventQueue, inbox) /\ Precede(eventQueue, packets)
        /\ Precede(inbox, packets)
    <3>1. \A q \in 1 .. 4, p \in 1 .. 4 : q < p => Precede(Queues[q], Queues[p])
      BY <2>0 DEF Ordered
    <3> QED BY <2>1, <3>1
  <2>4. TypeOK
    <3>1. /\ ToSet(packets) \subseteq Events /\ ToSet(inbox) \subseteq Events /\ ToSet(eventQueue) \subseteq Events
          /\ ToSet(sent) \subseteq Events /\ ToSet(delivered) \subseteq Events
      BY <2>0, <2>2 DEF ToSet
    <3>2. ToSet(eventWaiters) \subseteq Readers
      BY <2>0 DEF ReadersInv, ToSet
    <3>3. ConnectionTypeOK
      BY <2>0, <3>1 DEF CarrierInv, ConnectionTypeOK, RoleStates
    <3> QED BY <2>0, <3>1, <3>2, <3>3
            DEF TypeOK, CallsInv, CallStates, PumpInv, PumpStates, ReadersInv, SetsInv, FramesInv
  <2> DEFINE early == delivered \o eventQueue
             most == early \o inbox
             line == most \o packets
  <2>5. early \in Seq(Events) /\ Numbered(early) /\ ToSet(early) = ToSet(delivered) \cup ToSet(eventQueue)
    BY <2>2, <2>3, NumberedConcat
  <2> HIDE DEF early
  <2>6. Precede(early, inbox) /\ Precede(early, packets)
    BY <2>3, <2>5 DEF Precede
  <2>7. most \in Seq(Events) /\ Numbered(most) /\ ToSet(most) = ToSet(early) \cup ToSet(inbox)
    BY <2>2, <2>5, <2>6, NumberedConcat
  <2> HIDE DEF most
  <2>8. Precede(most, packets)
    BY <2>3, <2>6, <2>7 DEF Precede
  <2>9. line \in Seq(Events) /\ Numbered(line)
    BY <2>2, <2>7, <2>8, NumberedConcat
  <2> HIDE DEF line
  <2>10. \A j, k \in 1 .. Len(line) : j < k => line[j].number < line[k].number
    BY <2>9 DEF Numbered
  <2> QED BY <2>4, <2>10 DEF EventsKeepTheirOrder, line, most, early
<1> QED BY <1>1, Invariance, PTL
=============================================================================
