------------------------ MODULE ServerRoleGroupProofs ------------------------
(***************************************************************************)
(* For every number of listeners, accept() calls and sessions: the group   *)
(* never gives a session to two holders, never loses one, never forgets a  *)
(* waiter, and keeps nothing once it is closed.                            *)
(***************************************************************************)
EXTENDS ServerRoleGroupRefinement, FiniteSetTheorems, FunctionTheorems, SequenceTheorems, TLAPS

(* The queue holds exactly the waiting calls, each once.                   *)
WaitersInv ==
  /\ \A i, j \in 1 .. Len(waiters) : waiters[i] = waiters[j] => i = j
  /\ \A c \in Callers : caller[c] = "waiting" <=> \E i \in 1 .. Len(waiters) : waiters[i] = c

(* A call holds a session exactly between the grant and its return.        *)
HandInv == \A c \in Callers : hand[c] # None <=> caller[c] \in {"granted", "registered"}

(* Nothing holds a session no listener has accepted, and a listener being  *)
(* polled parks nothing that the next session could overwrite.             *)
BirthInv ==
  /\ \A e \in Entry : settlement[e] \in Sessions => native[settlement[e]] # "unborn"
  /\ \A e \in Entry : pending[e] = "polling" => settlement[e] = None
  /\ \A c \in Callers : hand[c] # None => native[hand[c]] # "unborn"
  /\ \A s \in Sessions : native[s] = "unborn" => closers[s] = 0 /\ s \notin roleSessions

HolderInv ==
  /\ \A e, f \in Entry : settlement[e] = settlement[f] /\ settlement[e] \in Sessions => e = f
  /\ \A c, d \in Callers : hand[c] = hand[d] /\ hand[c] # None => c = d
  /\ \A e \in Entry, c \in Callers : settlement[e] \in Sessions => settlement[e] # hand[c]
  /\ \A e \in Entry : settlement[e] \in Sessions => settlement[e] \notin roleSessions
  /\ \A c \in Callers : caller[c] = "granted" => hand[c] \notin roleSessions

Held(s) ==
  \/ \E e \in Entry : settlement[e] = s
  \/ \E c \in Callers : caller[c] = "granted" /\ hand[c] = s
  \/ s \in roleSessions

KeptInv ==
  \A s \in Sessions : native[s] = "open" /\ closers[s] = 0 /\ s \notin closeFailed => Held(s)

WakeInv ==
  waiters # <<>> =>
    /\ \A e \in Entry : pending[e] = "idle" => e \in drains
    /\ (\E e \in Entry : settlement[e] # None) => drains # {} \/ \E e \in Entry : pending[e] = "settled"

ClosedInv ==
  /\ groupClosed => waiters = <<>> /\ \A e \in Entry : settlement[e] = None
  /\ terminal => groupClosed

IInv ==
  /\ TypeOK
  /\ WaitersInv
  /\ HandInv
  /\ BirthInv
  /\ HolderInv
  /\ KeptInv
  /\ WakeInv
  /\ ClosedInv
-----------------------------------------------------------------------------
(***************************************************************************)
(* The pairing that #drain computes.                                       *)
(***************************************************************************)

(* Rank numbers the ready entries from 1, without gaps or repetitions.     *)
LEMMA RankIsBijective ==
  /\ IsFiniteSet(Ready) /\ Cardinality(Ready) \in Nat
  /\ \A e \in Ready : Rank(e) \in 1 .. Cardinality(Ready)
  /\ \A e, f \in Ready : Rank(e) = Rank(f) => e = f
  /\ \A i \in 1 .. Cardinality(Ready) : \E e \in Ready : Rank(e) = i
<1> DEFINE n == Cardinality(Ready)
<1> DEFINE Upto(e) == {f \in Ready : f <= e}
<1> DEFINE rank == [e \in Ready |-> Rank(e)]
<1>1. Ready \in SUBSET Entry /\ IsFiniteSet(Entry) /\ Entry \subseteq Int
  BY NAssumption, FS_Interval DEF Ready, Entry
<1>2. IsFiniteSet(Ready) /\ n \in Nat
  BY <1>1, FS_Subset, FS_CardinalityType
<1>3. ASSUME NEW e \in Ready
      PROVE  IsFiniteSet(Upto(e)) /\ Rank(e) \in 1 .. n
  <2>1. IsFiniteSet(Upto(e)) /\ Cardinality(Upto(e)) <= n /\ Cardinality(Upto(e)) \in Nat
    BY <1>2, FS_Subset, FS_CardinalityType
  <2>2. e \in Upto(e)
    BY <1>1
  <2>3. Cardinality(Upto(e)) # 0
    BY <2>1, <2>2, FS_EmptySet
  <2> QED
    BY <1>2, <2>1, <2>3 DEF Rank
<1>4. ASSUME NEW e \in Ready, NEW f \in Ready, e < f
      PROVE  Rank(e) # Rank(f)
  <2>0. \A x \in Ready : x \in Int
    BY <1>1
  <2>1a. Upto(e) \subseteq Upto(f)
    BY <2>0, <1>4
  <2>1b. f \in Upto(f) /\ f \notin Upto(e)
    BY <2>0, <1>4
  <2>1. Upto(e) \in SUBSET Upto(f) /\ f \in Upto(f) /\ f \notin Upto(e)
    BY <2>1a, <2>1b
  <2>2. Cardinality(Upto(e)) # Cardinality(Upto(f))
    BY <1>3, <2>1, FS_Subset
  <2> QED
    BY <2>2 DEF Rank
<1>5. \A e, f \in Ready : Rank(e) = Rank(f) => e = f
  BY <1>1, <1>4
<1>6. rank \in Injection(Ready, 1 .. n)
  <2>1. rank \in [Ready -> 1 .. n]
    BY <1>3
  <2>2. \A a, b \in Ready : rank[a] = rank[b] => a = b
    BY <1>5
  <2> HIDE DEF rank
  <2> QED
    BY <2>1, <2>2, Fun_IsInj
<1>7. IsFiniteSet(1 .. n) /\ Cardinality(1 .. n) = n
  BY <1>2, FS_Interval
<1>8. rank \in Surjection(Ready, 1 .. n)
  BY <1>6, <1>7, FS_Injection
<1>9. \A i \in 1 .. n : \E e \in Ready : rank[e] = i
  <2> HIDE DEF rank
  <2> QED
    BY <1>8, Fun_SurjectionProperties
<1> QED
  BY <1>2, <1>3, <1>5, <1>9

(* The first Pairs(w) waiters are matched one to one with the served       *)
(* entries, and if a waiter is left over every ready entry was served.     *)
LEMMA DrainPairs ==
  ASSUME NEW w \in Seq(Callers)
  PROVE  /\ Pairs(w) \in 0 .. Len(w)
         /\ Served(w) \subseteq Ready
         /\ \A e \in Served(w) : Rank(e) \in 1 .. Pairs(w)
         /\ \A e, f \in Served(w) : Rank(e) = Rank(f) => e = f
         /\ \A i \in 1 .. Pairs(w) : \E e \in Served(w) : Rank(e) = i
         /\ Pairs(w) < Len(w) => Served(w) = Ready
BY RankIsBijective, LenProperties DEF Pairs, Served

(* What one #drain does to one accept() call: nothing, or it hands the     *)
(* call the settlement of the entry that the pairing gives it.             *)
LEMMA DrainOneCall ==
  ASSUME TypeOK,
         NEW w \in Seq(Callers), NEW called,
         \A i, j \in 1 .. Len(w) : w[i] = w[j] => i = j,
         Drain(w, called),
         NEW c \in Callers
  PROVE  \/ /\ \A i \in 1 .. Pairs(w) : w[i] # c
            /\ caller'[c] = called[c] /\ hand'[c] = hand[c]
         \/ \E e \in Served(w) :
              /\ w[Rank(e)] = c
              /\ \/ settlement[e] = Stale /\ caller'[c] = "refused" /\ hand'[c] = hand[c]
                 \/ /\ settlement[e] \in Sessions
                    /\ caller'[c] = "granted" /\ hand'[c] = settlement[e]
<1>1. /\ caller'[c] = IF ServedBy(w, c) = {} THEN called[c]
                     ELSE IF Given(w, c) = {} THEN "refused" ELSE "granted"
      /\ hand'[c] = IF Given(w, c) = {} THEN hand[c]
                   ELSE settlement[CHOOSE e \in Given(w, c) : TRUE]
  BY DEF Drain
<1>2. \A e \in Served(w) : settlement[e] = Stale \/ settlement[e] \in Sessions
  BY DrainPairs DEF TypeOK, Ready
<1>3. CASE ServedBy(w, c) = {}
  <2>1. Given(w, c) = {}
    BY <1>3 DEF Given
  <2>2. \A i \in 1 .. Pairs(w) : w[i] # c
    BY <1>3, DrainPairs DEF ServedBy
  <2> QED
    BY <1>1, <1>3, <2>1, <2>2
<1>4. CASE Given(w, c) # {}
  <2>1. PICK e \in Given(w, c) : e = (CHOOSE f \in Given(w, c) : TRUE)
    BY <1>4
  <2>2. e \in Served(w) /\ w[Rank(e)] = c /\ settlement[e] \in Sessions
    BY <1>2, <2>1 DEF Given, ServedBy
  <2>3. ServedBy(w, c) # {}
    BY <1>4 DEF Given
  <2> QED
    BY <1>1, <1>4, <2>1, <2>2, <2>3
<1>5. CASE ServedBy(w, c) # {} /\ Given(w, c) = {}
  <2>1. PICK e \in ServedBy(w, c) : settlement[e] = Stale
    BY <1>5 DEF Given
  <2> QED
    BY <1>1, <1>5, <2>1 DEF ServedBy
<1> QED
  BY <1>3, <1>4, <1>5

(* #drain keeps the invariant, from whatever queue its caller prepared.    *)
LEMMA DrainKeepsIInv ==
  ASSUME IInv,
         NEW w \in Seq(Callers), NEW called \in [Callers -> CallerStates],
         \A i, j \in 1 .. Len(w) : w[i] = w[j] => i = j,
         \A c \in Callers : called[c] = "waiting" <=> \E i \in 1 .. Len(w) : w[i] = c,
         \A c \in Callers : hand[c] # None <=> called[c] \in {"granted", "registered"},
         \A c \in Callers : called[c] = "granted" <=> caller[c] = "granted",
         groupClosed => w = <<>>,
         Drain(w, called),
         drains' \subseteq Entry,
         UNCHANGED <<late, groupClosed, terminal, serverVars, nativeVars>>
  PROVE  IInv'
<1> USE SlotAssumption
<1>1. /\ Pairs(w) \in 0 .. Len(w) /\ Len(w) \in Nat /\ Served(w) \subseteq Entry
      /\ \A e \in Served(w) : Rank(e) \in 1 .. Pairs(w)
      /\ \A e, f \in Served(w) : Rank(e) = Rank(f) => e = f
      /\ \A i \in 1 .. Pairs(w) : \E e \in Served(w) : Rank(e) = i
      /\ \A e \in Served(w) : w[Rank(e)] \in Callers
      /\ Pairs(w) < Len(w) => \A e \in Entry : settlement[e] # None => e \in Served(w)
  BY DrainPairs, LenProperties DEF Ready
<1>2. /\ waiters' \in Seq(Callers) /\ Len(waiters') = Len(w) - Pairs(w)
      /\ \A i \in 1 .. Len(waiters') : waiters'[i] = w[Pairs(w) + i]
  BY <1>1, SubSeqProperties, LenProperties DEF Drain
<1>3. /\ settlement' = [e \in Entry |-> IF e \in Served(w) THEN None ELSE settlement[e]]
      /\ pending' = [e \in Entry |->
                       IF Pairs(w) < Len(w) /\ ~groupClosed /\ pending[e] = "idle"
                       THEN "polling" ELSE pending[e]]
      /\ caller' = [c \in Callers |-> caller'[c]]
      /\ hand' = [c \in Callers |-> hand'[c]]
  BY DEF Drain
<1>4. ASSUME NEW c \in Callers
      PROVE  \/ /\ \A i \in 1 .. Pairs(w) : w[i] # c
                /\ caller'[c] = called[c] /\ hand'[c] = hand[c]
             \/ \E e \in Served(w) :
                  /\ w[Rank(e)] = c /\ called[c] = "waiting" /\ hand[c] = None
                  /\ \/ settlement[e] = Stale /\ caller'[c] = "refused" /\ hand'[c] = hand[c]
                     \/ /\ settlement[e] \in Sessions
                        /\ caller'[c] = "granted" /\ hand'[c] = settlement[e]
  <2>1. \A e \in Served(w) : Rank(e) \in 1 .. Len(w)
    BY <1>1
  <2>2. \A e \in Served(w) : w[Rank(e)] = c => called[c] = "waiting" /\ hand[c] = None
    BY <2>1
  <2> QED
    BY <2>2, DrainOneCall DEF IInv
<1>5. /\ UNCHANGED <<roleSessions, sessions, serverClose, serverWait, runtimeClose, runtimeWait>>
      /\ UNCHANGED <<native, closers, closeFailed>>
  BY DEF serverVars, nativeVars
<1>6. waiters' # <<>> => Pairs(w) < Len(w)
  BY <1>1, <1>2, EmptySeq
<1>7. TypeOK'
  <2>1. /\ settlement' \in [Entry -> Sessions \cup {None, Stale}]
        /\ pending' \in [Entry -> PendingStates]
    BY <1>3 DEF IInv, TypeOK, PendingStates
  <2>2. \A c \in Callers : caller'[c] \in CallerStates /\ hand'[c] \in Sessions \cup {None}
    BY <1>4 DEF IInv, TypeOK, CallerStates
  <2>3. caller' \in [Callers -> CallerStates] /\ hand' \in [Callers -> Sessions \cup {None}]
    BY <1>3, <2>2
  <2> QED
    BY <1>2, <1>5, <2>1, <2>3 DEF IInv, TypeOK
<1>8. WaitersInv'
  <2>1. ASSUME NEW i \in 1 .. Len(waiters'), NEW j \in 1 .. Len(waiters'), waiters'[i] = waiters'[j]
        PROVE  i = j
    <3>1. Pairs(w) + i \in 1 .. Len(w) /\ Pairs(w) + j \in 1 .. Len(w)
      BY <1>1, <1>2
    <3>2. w[Pairs(w) + i] = w[Pairs(w) + j]
      BY <1>2, <2>1
    <3>3. Pairs(w) + i = Pairs(w) + j
      BY <3>1, <3>2
    <3> QED
      BY <1>1, <3>3
  <2>2. ASSUME NEW c \in Callers, caller'[c] = "waiting"
        PROVE  \E i \in 1 .. Len(waiters') : waiters'[i] = c
    <3>1. called[c] = "waiting" /\ \A i \in 1 .. Pairs(w) : w[i] # c
      BY <1>4, <2>2
    <3>2. PICK i \in 1 .. Len(w) : w[i] = c
      BY <3>1
    <3>3. i - Pairs(w) \in 1 .. Len(waiters') /\ waiters'[i - Pairs(w)] = c
      BY <1>1, <1>2, <3>1, <3>2
    <3> QED
      BY <3>3
  <2>3. ASSUME NEW c \in Callers, NEW i \in 1 .. Len(waiters'), waiters'[i] = c
        PROVE  caller'[c] = "waiting"
    <3>1. Pairs(w) + i \in 1 .. Len(w) /\ w[Pairs(w) + i] = c
      BY <1>1, <1>2, <2>3
    <3>2. \A e \in Served(w) : w[Rank(e)] # c
      BY <1>1, <3>1
    <3> QED
      BY <1>4, <3>1, <3>2
  <2> QED
    BY <2>1, <2>2, <2>3 DEF WaitersInv
<1>9. HandInv'
  BY <1>4 DEF HandInv
<1>10. BirthInv'
  <2>1. \A e \in Entry : pending'[e] = "polling" => settlement'[e] = None
    BY <1>1, <1>3 DEF IInv, BirthInv, TypeOK
  <2> QED
    BY <1>1, <1>3, <1>4, <1>5, <2>1 DEF IInv, BirthInv
<1>11. HolderInv'
  <2>1. \A e, f \in Entry : settlement'[e] = settlement'[f] /\ settlement'[e] \in Sessions => e = f
    BY <1>3 DEF IInv, HolderInv
  <2>2. ASSUME NEW c \in Callers, NEW d \in Callers, hand'[c] = hand'[d], hand'[c] # None
        PROVE  c = d
    BY <1>1, <1>4, <2>2 DEF IInv, HolderInv
  <2>3. \A e \in Entry, c \in Callers : settlement'[e] \in Sessions => settlement'[e] # hand'[c]
    BY <1>1, <1>3, <1>4 DEF IInv, HolderInv
  <2>4. \A e \in Entry : settlement'[e] \in Sessions => settlement'[e] \notin roleSessions'
    BY <1>3, <1>5 DEF IInv, HolderInv
  <2>5. \A c \in Callers : caller'[c] = "granted" => hand'[c] \notin roleSessions'
    BY <1>1, <1>4, <1>5 DEF IInv, HolderInv
  <2> QED
    BY <2>1, <2>2, <2>3, <2>4, <2>5 DEF HolderInv
<1>12. KeptInv'
  <2> SUFFICES ASSUME NEW s \in Sessions, native[s] = "open" /\ closers[s] = 0 /\ s \notin closeFailed
               PROVE  Held(s)'
    BY <1>5 DEF KeptInv
  <2>1. CASE \E e \in Entry : settlement[e] = s
    <3>1. PICK e \in Entry : settlement[e] = s
      BY <2>1
    <3>2. CASE e \in Served(w)
      <4> DEFINE c == w[Rank(e)]
      <4>1. c \in Callers /\ Rank(e) \in 1 .. Pairs(w) /\ w[Rank(e)] = c
        BY <1>1, <3>2
      <4>2. PICK f \in Served(w) :
              /\ w[Rank(f)] = c
              /\ \/ settlement[f] = Stale
                 \/ caller'[c] = "granted" /\ hand'[c] = settlement[f]
        BY <1>4, <4>1
      <4>3. f = e
        BY <1>1, <3>2, <4>1, <4>2
      <4> QED
        BY <3>1, <4>1, <4>2, <4>3 DEF Held
    <3> QED
      BY <1>3, <3>1, <3>2 DEF Held
  <2>2. CASE \E c \in Callers : caller[c] = "granted" /\ hand[c] = s
    <3>1. PICK c \in Callers : caller[c] = "granted" /\ hand[c] = s
      BY <2>2
    <3>2. called[c] = "granted"
      BY <3>1
    <3> QED
      BY <1>4, <3>1, <3>2 DEF Held
  <2> QED
    BY <1>5, <2>1, <2>2 DEF IInv, KeptInv, Held
<1>13. WakeInv'
  <2> SUFFICES ASSUME waiters' # <<>>
               PROVE  /\ \A e \in Entry : pending'[e] # "idle"
                      /\ \A e \in Entry : settlement'[e] = None
    BY DEF WakeInv
  <2>1. ~groupClosed
    <3>1. w # <<>>
      BY <1>6, EmptySeq, <1>1
    <3> QED
      BY <3>1
  <2> QED
    BY <1>1, <1>3, <1>6, <2>1
<1>14. ClosedInv'
  <2>1. groupClosed => waiters' = <<>>
    BY <1>1, <1>2, EmptySeq
  <2> QED
    BY <1>3, <2>1 DEF IInv, ClosedInv
<1> QED
  BY <1>7, <1>8, <1>9, <1>10, <1>11, <1>12, <1>13, <1>14 DEF IInv
-----------------------------------------------------------------------------
(***************************************************************************)
(* The invariant is inductive: one step per action.                        *)
(***************************************************************************)
LEMMA InitIInv == Init => IInv
<1> SUFFICES ASSUME Init PROVE IInv
  OBVIOUS
<1>1. TypeOK
  BY EmptySeq DEF Init, TypeOK, PendingStates, CallerStates, CloseStates
<1>2. WaitersInv /\ HandInv /\ BirthInv /\ HolderInv
  BY SlotAssumption DEF Init, WaitersInv, HandInv, BirthInv, HolderInv
<1>3. KeptInv /\ WakeInv /\ ClosedInv
  BY DEF Init, KeptInv, WakeInv, ClosedInv
<1> QED
  BY <1>1, <1>2, <1>3 DEF IInv

(* Closing more sessions disturbs nothing but what is held.                *)
LEMMA CloseNativeType ==
  ASSUME TypeOK, NEW S, CloseNative(S)
  PROVE  /\ closers' \in [Sessions -> Nat]
         /\ \A s \in Sessions : closers'[s] >= closers[s]
         /\ \A s \in S \cap Sessions : native[s] = "open" => closers'[s] > 0
         /\ \A s \in Sessions : native[s] # "open" => closers'[s] = closers[s]
BY DEF TypeOK, CloseNative

(* Closing the group empties it and leaves no parked session unclosed.     *)
LEMMA EnsureGroupClosedKeeps ==
  ASSUME IInv, EnsureGroupClosed, terminal' \in BOOLEAN,
         pending' \in [Entry -> PendingStates],
         \A e \in Entry : pending'[e] = "polling" => pending[e] = "polling",
         UNCHANGED <<late, drains, hand, roleSessions, native>>,
         serverClose' \in CloseStates, runtimeClose' \in CloseStates, sessions' \subseteq Sessions,
         serverWait' \subseteq Sessions, runtimeWait' \subseteq Sessions,
         UNCHANGED closeFailed
  PROVE  IInv'
<1>1. /\ groupClosed' = TRUE /\ waiters' = <<>>
      /\ settlement' = [e \in Entry |-> None]
      /\ \A c \in Callers : caller'[c] = IF caller[c] = "waiting" THEN "failed" ELSE caller[c]
      /\ caller' \in [Callers -> CallerStates]
      /\ closers' \in [Sessions -> Nat]
      /\ \A s \in Sessions : closers'[s] >= closers[s]
      /\ \A s \in Sessions : native[s] # "open" => closers'[s] = closers[s]
      /\ \A e \in Entry : settlement[e] \in Sessions /\ native[settlement[e]] = "open"
                         => closers'[settlement[e]] > 0
  <2>1. CASE groupClosed
    <3>1. UNCHANGED <<groupClosed, waiters, caller, settlement, closers>>
      BY <2>1 DEF EnsureGroupClosed
    <3>2. waiters = <<>> /\ \A e \in Entry : settlement[e] = None
      BY <2>1 DEF IInv, ClosedInv
    <3>3. \A c \in Callers : caller[c] # "waiting"
      BY <3>2, EmptySeq DEF IInv, WaitersInv
    <3>4. settlement = [e \in Entry |-> None]
      BY <3>2 DEF IInv, TypeOK
    <3> QED
      BY <2>1, <3>1, <3>2, <3>3, <3>4, SlotAssumption DEF IInv, TypeOK
  <2>2. CASE ~groupClosed
    <3>1. CloseGroup
      BY <2>2 DEF EnsureGroupClosed
    <3>2. CloseNative(ReadySessions)
      BY <3>1 DEF CloseGroup
    <3>3. \A e \in Entry : settlement[e] \in Sessions => settlement[e] \in ReadySessions
      BY SlotAssumption DEF ReadySessions, Ready
    <3>4. /\ closers' \in [Sessions -> Nat]
          /\ \A s \in Sessions : closers'[s] >= closers[s]
          /\ \A s \in ReadySessions \cap Sessions : native[s] = "open" => closers'[s] > 0
          /\ \A s \in Sessions : native[s] # "open" => closers'[s] = closers[s]
      BY <3>2, CloseNativeType DEF IInv
    <3>5. caller' \in [Callers -> CallerStates]
      BY <3>1 DEF CloseGroup, IInv, TypeOK, CallerStates
    <3> QED
      BY <3>1, <3>3, <3>4, <3>5 DEF CloseGroup
  <2> QED
    BY <2>1, <2>2
<1>2. TypeOK'
  BY <1>1, EmptySeq DEF IInv, TypeOK
<1>3. WaitersInv'
  BY <1>1, EmptySeq DEF WaitersInv
<1>4. HandInv'
  BY <1>1 DEF IInv, HandInv
<1>5. BirthInv'
  BY <1>1, SlotAssumption DEF IInv, BirthInv, TypeOK
<1>6. HolderInv'
  BY <1>1, SlotAssumption DEF IInv, HolderInv
<1>7. KeptInv'
  <2> SUFFICES ASSUME NEW s \in Sessions, native[s] = "open", closers'[s] = 0, s \notin closeFailed
               PROVE  Held(s)'
    BY DEF KeptInv
  <2>1. closers[s] = 0
    BY <1>1 DEF IInv, TypeOK
  <2>2. \A e \in Entry : settlement[e] # s
    BY <1>1
  <2>3. s \in roleSessions \/ \E c \in Callers : caller[c] = "granted" /\ hand[c] = s
    BY <2>1, <2>2 DEF IInv, KeptInv, Held
  <2> QED
    BY <1>1, <2>3 DEF Held
<1>8. WakeInv' /\ ClosedInv'
  BY <1>1 DEF WakeInv, ClosedInv
<1> QED
  BY <1>2, <1>3, <1>4, <1>5, <1>6, <1>7, <1>8 DEF IInv

(* Steps that touch neither the queue, the parked settlements nor a hold.  *)
LEMMA AcceptKeepsIInv ==
  ASSUME IInv, NEW c \in Callers, Accept(c)
  PROVE  IInv'
<1> USE DEF Accept, groupVars, serverVars, nativeVars
<1>1. caller' = [caller EXCEPT ![c] = "called"] /\ caller[c] = "idle"
  OBVIOUS
<1>2. TypeOK'
  BY DEF IInv, TypeOK, CallerStates
<1>3. WaitersInv' /\ HandInv' /\ BirthInv'
  BY DEF IInv, TypeOK, WaitersInv, HandInv, BirthInv
<1>4. HolderInv' /\ WakeInv' /\ ClosedInv'
  BY DEF IInv, TypeOK, HolderInv, WakeInv, ClosedInv
<1>5. KeptInv'
  BY DEF IInv, TypeOK, KeptInv, Held
<1> QED
  BY <1>2, <1>3, <1>4, <1>5 DEF IInv

LEMMA GroupAcceptKeepsIInv ==
  ASSUME IInv, NEW c \in Callers, GroupAccept(c)
  PROVE  IInv'
<1>1. CASE terminal \/ groupClosed
  <2> USE DEF groupVars, serverVars, nativeVars
  <2>1. /\ caller' = [caller EXCEPT ![c] = "failed"] /\ caller[c] = "called"
        /\ UNCHANGED <<groupVars, hand, serverVars, nativeVars>>
    BY <1>1 DEF GroupAccept
  <2>2. TypeOK'
    BY <2>1 DEF IInv, TypeOK, CallerStates
  <2>3. WaitersInv' /\ HandInv' /\ BirthInv'
    BY <2>1 DEF IInv, TypeOK, WaitersInv, HandInv, BirthInv
  <2>4. HolderInv' /\ WakeInv' /\ ClosedInv'
    BY <2>1 DEF IInv, TypeOK, HolderInv, WakeInv, ClosedInv
  <2>5. KeptInv'
    BY <2>1 DEF IInv, TypeOK, KeptInv, Held
  <2> QED
    BY <2>2, <2>3, <2>4, <2>5 DEF IInv
<1>2. CASE ~terminal /\ ~groupClosed
  <2> DEFINE w == Append(waiters, c)
  <2> DEFINE called == [caller EXCEPT ![c] = "waiting"]
  <2>1. /\ caller[c] = "called"
        /\ Drain(w, called)
        /\ UNCHANGED <<drains, late, groupClosed, terminal, serverVars, nativeVars>>
    BY <1>2 DEF GroupAccept
  <2>2. /\ w \in Seq(Callers) /\ Len(w) = Len(waiters) + 1 /\ Len(waiters) \in Nat
        /\ \A i \in 1 .. Len(waiters) : w[i] = waiters[i]
        /\ w[Len(waiters) + 1] = c
    BY AppendProperties, LenProperties DEF IInv, TypeOK
  <2>3. called \in [Callers -> CallerStates]
    BY DEF IInv, TypeOK, CallerStates
  <2>4. \A i \in 1 .. Len(waiters) : waiters[i] # c
    BY <2>1 DEF IInv, WaitersInv
  <2> HIDE DEF w
  <2>5. ASSUME NEW i \in 1 .. Len(w), NEW j \in 1 .. Len(w), w[i] = w[j]
        PROVE  i = j
    <3>1. CASE i \in 1 .. Len(waiters) /\ j \in 1 .. Len(waiters)
      BY <2>2, <2>5, <3>1 DEF IInv, WaitersInv
    <3>2. CASE i = Len(waiters) + 1 \/ j = Len(waiters) + 1
      BY <2>2, <2>4, <2>5, <3>2
    <3> QED
      BY <2>2, <3>1, <3>2
  <2>6. \A d \in Callers : called[d] = "waiting" <=> \E i \in 1 .. Len(w) : w[i] = d
    <3> SUFFICES ASSUME NEW d \in Callers
                 PROVE  called[d] = "waiting" <=> \E i \in 1 .. Len(w) : w[i] = d
      OBVIOUS
    <3>1. CASE d = c
      BY <2>2, <3>1 DEF IInv, TypeOK
    <3>2. CASE d # c
      <4>1. called[d] = "waiting" <=> \E i \in 1 .. Len(waiters) : waiters[i] = d
        BY <3>2 DEF IInv, WaitersInv, TypeOK
      <4>2. (\E i \in 1 .. Len(w) : w[i] = d) <=> \E i \in 1 .. Len(waiters) : waiters[i] = d
        BY <2>2, <3>2
      <4> QED
        BY <4>1, <4>2
    <3> QED
      BY <3>1, <3>2
  <2>7. /\ \A d \in Callers : hand[d] # None <=> called[d] \in {"granted", "registered"}
        /\ \A d \in Callers : called[d] = "granted" <=> caller[d] = "granted"
    BY <2>1 DEF IInv, HandInv, TypeOK
  <2>8. drains' \subseteq Entry
    BY <2>1 DEF IInv, TypeOK
  <2> HIDE DEF called
  <2> QED
    BY <1>2, <2>1, <2>2, <2>3, <2>5, <2>6, <2>7, <2>8, DrainKeepsIInv
<1> QED
  BY <1>1, <1>2

LEMMA DrainMicrotaskKeepsIInv ==
  ASSUME IInv, NEW e \in Entry, DrainMicrotask(e)
  PROVE  IInv'
<1>1. /\ waiters \in Seq(Callers) /\ caller \in [Callers -> CallerStates]
      /\ Drain(waiters, caller) /\ drains' \subseteq Entry
      /\ UNCHANGED <<late, groupClosed, terminal, serverVars, nativeVars>>
  BY DEF DrainMicrotask, IInv, TypeOK
<1>2. groupClosed => waiters = <<>>
  BY DEF IInv, ClosedInv
<1>3. /\ \A i, j \in 1 .. Len(waiters) : waiters[i] = waiters[j] => i = j
      /\ \A c \in Callers : caller[c] = "waiting" <=> \E i \in 1 .. Len(waiters) : waiters[i] = c
      /\ \A c \in Callers : hand[c] # None <=> caller[c] \in {"granted", "registered"}
  BY DEF IInv, WaitersInv, HandInv
<1> QED
  BY <1>1, <1>2, <1>3, DrainKeepsIInv

LEMMA RoleAcceptsKeepsIInv ==
  ASSUME IInv, NEW e \in Entry, NEW s \in Sessions, RoleAccepts(e, s)
  PROVE  IInv'
<1> USE SlotAssumption DEF callerVars, serverVars
<1>1. /\ pending[e] = "polling" /\ settlement[e] = None /\ native[s] = "unborn" /\ closers[s] = 0
      /\ s \notin roleSessions
      /\ \A f \in Entry : settlement[f] # s
      /\ \A c \in Callers : hand[c] # s
  BY DEF RoleAccepts, IInv, BirthInv
<1>2. native' = [native EXCEPT ![s] = "open"]
  BY DEF RoleAccepts
<1>3. CASE groupClosed
  <2>1. /\ pending' = [pending EXCEPT ![e] = "closing"] /\ late' = [late EXCEPT ![e] = s]
        /\ closers' = [closers EXCEPT ![s] = @ + 1]
        /\ UNCHANGED <<settlement, drains, waiters, groupClosed, terminal, callerVars, serverVars, closeFailed>>
    BY <1>3 DEF RoleAccepts
  <2>2. TypeOK'
    BY <1>2, <2>1 DEF IInv, TypeOK, PendingStates
  <2>3. WaitersInv' /\ HandInv' /\ HolderInv' /\ ClosedInv'
    BY <2>1 DEF IInv, WaitersInv, HandInv, HolderInv, ClosedInv
  <2>4. BirthInv'
    BY <1>1, <1>2, <2>1 DEF IInv, TypeOK, BirthInv
  <2>5. KeptInv' /\ WakeInv'
    BY <1>1, <1>2, <1>3, <2>1 DEF IInv, TypeOK, KeptInv, Held, WakeInv, ClosedInv
  <2> QED
    BY <2>2, <2>3, <2>4, <2>5 DEF IInv
<1>4. CASE ~groupClosed
  <2>1. /\ pending' = [pending EXCEPT ![e] = "settled"] /\ settlement' = [settlement EXCEPT ![e] = s]
        /\ UNCHANGED <<late, closers, drains, waiters, groupClosed, terminal, callerVars, serverVars, closeFailed>>
    BY <1>4 DEF RoleAccepts
  <2>2. TypeOK'
    BY <1>2, <2>1 DEF IInv, TypeOK, PendingStates
  <2>3. WaitersInv' /\ HandInv' /\ ClosedInv'
    BY <1>4, <2>1 DEF IInv, WaitersInv, HandInv, ClosedInv
  <2>4. HolderInv'
    BY <1>1, <2>1 DEF IInv, TypeOK, HolderInv
  <2>5. BirthInv'
    BY <1>1, <1>2, <2>1 DEF IInv, TypeOK, BirthInv
  <2>6. KeptInv'
    <3> SUFFICES ASSUME NEW t \in Sessions, native'[t] = "open", closers'[t] = 0, t \notin closeFailed'
                 PROVE  Held(t)'
      BY DEF KeptInv
    <3>1. CASE t = s
      BY <2>1, <3>1 DEF IInv, TypeOK, Held
    <3>2. CASE t # s
      <4>1. Held(t)
        BY <1>2, <2>1, <3>2 DEF IInv, TypeOK, KeptInv
      <4>2. settlement[e] # t
        BY <1>1
      <4> QED
        BY <2>1, <4>1, <4>2 DEF Held, IInv, TypeOK
    <3> QED
      BY <3>1, <3>2
  <2>7. WakeInv'
    BY <2>1 DEF IInv, TypeOK, WakeInv
  <2> QED
    BY <2>2, <2>3, <2>4, <2>5, <2>6, <2>7 DEF IInv
<1> QED
  BY <1>3, <1>4

LEMMA RoleTimesOutKeepsIInv ==
  ASSUME IInv, NEW e \in Entry, RoleTimesOut(e)
  PROVE  IInv'
<1> USE SlotAssumption DEF callerVars, serverVars, nativeVars
<1>1. /\ pending[e] = "polling" /\ settlement[e] = None
      /\ pending' = [pending EXCEPT ![e] = "settled"]
      /\ settlement' = IF groupClosed THEN settlement ELSE [settlement EXCEPT ![e] = Stale]
      /\ UNCHANGED <<late, drains, waiters, groupClosed, terminal, callerVars, serverVars, nativeVars>>
  BY DEF RoleTimesOut, IInv, BirthInv
<1>2. TypeOK'
  BY <1>1 DEF IInv, TypeOK, PendingStates
<1>3. WaitersInv' /\ HandInv' /\ ClosedInv'
  BY <1>1 DEF IInv, WaitersInv, HandInv, ClosedInv
<1>4. BirthInv' /\ HolderInv'
  BY <1>1 DEF IInv, TypeOK, BirthInv, HolderInv
<1>5. KeptInv' /\ WakeInv'
  BY <1>1 DEF IInv, TypeOK, KeptInv, Held, WakeInv
<1> QED
  BY <1>2, <1>3, <1>4, <1>5 DEF IInv

LEMMA RoleFailsKeepsIInv ==
  ASSUME IInv, NEW e \in Entry, RoleFails(e)
  PROVE  IInv'
<1>1. /\ pending' = [pending EXCEPT ![e] = "settled"] /\ terminal' = (terminal \/ ~groupClosed)
      /\ EnsureGroupClosed
      /\ UNCHANGED <<late, drains, hand, serverVars, native, closeFailed>>
  BY DEF RoleFails
<1>2. /\ pending' \in [Entry -> PendingStates] /\ terminal' \in BOOLEAN
      /\ \A f \in Entry : pending'[f] = "polling" => pending[f] = "polling"
  BY <1>1 DEF IInv, TypeOK, PendingStates
<1> QED
  BY <1>1, <1>2, EnsureGroupClosedKeeps DEF IInv, TypeOK, serverVars

LEMMA EntryStepKeepsIInv ==
  ASSUME IInv, NEW e \in Entry, EntryStep(e)
  PROVE  IInv'
<1> USE SlotAssumption DEF callerVars, serverVars, nativeVars
<1>1. CASE LateClosed(e)
  <2>1. /\ pending[e] = "closing" /\ pending' = [pending EXCEPT ![e] = "settled"]
        /\ late' = [late EXCEPT ![e] = None]
        /\ UNCHANGED <<settlement, drains, waiters, groupClosed, terminal, callerVars, serverVars, nativeVars>>
    BY <1>1 DEF LateClosed
  <2>2. TypeOK'
    BY <2>1 DEF IInv, TypeOK, PendingStates
  <2>3. WaitersInv' /\ HandInv' /\ ClosedInv' /\ BirthInv' /\ HolderInv'
    BY <2>1 DEF IInv, TypeOK, WaitersInv, HandInv, ClosedInv, BirthInv, HolderInv
  <2>4. KeptInv' /\ WakeInv'
    BY <2>1 DEF IInv, TypeOK, KeptInv, Held, WakeInv
  <2> QED
    BY <2>2, <2>3, <2>4 DEF IInv
<1>2. CASE RoleAcceptDone(e)
  <2>1. /\ pending[e] = "settled" /\ pending' = [pending EXCEPT ![e] = "idle"]
        /\ drains' = drains \cup {e}
        /\ UNCHANGED <<settlement, late, waiters, groupClosed, terminal, callerVars, serverVars, nativeVars>>
    BY <1>2 DEF RoleAcceptDone
  <2>2. TypeOK'
    BY <2>1 DEF IInv, TypeOK, PendingStates
  <2>3. WaitersInv' /\ HandInv' /\ ClosedInv' /\ BirthInv' /\ HolderInv'
    BY <2>1 DEF IInv, TypeOK, WaitersInv, HandInv, ClosedInv, BirthInv, HolderInv
  <2>4. KeptInv' /\ WakeInv'
    BY <2>1 DEF IInv, TypeOK, KeptInv, Held, WakeInv
  <2> QED
    BY <2>2, <2>3, <2>4 DEF IInv
<1> QED
  BY <1>1, <1>2 DEF EntryStep

LEMMA CloseSettlesKeepsIInv ==
  ASSUME IInv, NEW s \in Sessions, CloseSettles(s)
  PROVE  IInv'
<1> USE DEF groupVars, callerVars, serverVars
<1>1. /\ closers[s] > 0 /\ closers' = [closers EXCEPT ![s] = @ - 1]
      /\ \/ native' = [native EXCEPT ![s] = "closed"] /\ UNCHANGED closeFailed
         \/ closeFailed' = closeFailed \cup {s} /\ UNCHANGED native
      /\ UNCHANGED <<groupVars, callerVars, serverVars>>
  BY DEF CloseSettles
<1>2. TypeOK'
  BY <1>1 DEF IInv, TypeOK
<1>3. WaitersInv' /\ HandInv' /\ HolderInv' /\ WakeInv' /\ ClosedInv'
  BY <1>1 DEF IInv, WaitersInv, HandInv, HolderInv, WakeInv, ClosedInv
<1>4. BirthInv'
  <2>1. \A t \in Sessions : native'[t] = "unborn" <=> native[t] = "unborn"
    BY <1>1 DEF IInv, TypeOK, BirthInv
  <2>2. native[s] # "unborn"
    BY <1>1 DEF IInv, BirthInv
  <2>3. \A t \in Sessions : t # s => closers'[t] = closers[t]
    BY <1>1 DEF IInv, TypeOK
  <2>4. \A t \in Sessions : native'[t] = "unborn" => closers'[t] = 0 /\ t \notin roleSessions'
    BY <1>1, <2>1, <2>2, <2>3 DEF IInv, BirthInv
  <2>5. /\ \A e \in Entry : settlement'[e] \in Sessions => native'[settlement'[e]] # "unborn"
        /\ \A e \in Entry : pending'[e] = "polling" => settlement'[e] = None
    BY <1>1, <2>1 DEF IInv, BirthInv
  <2>6. \A c \in Callers : hand'[c] # None => native'[hand'[c]] # "unborn"
    BY <1>1, <2>1 DEF IInv, BirthInv, TypeOK
  <2> QED
    BY <2>4, <2>5, <2>6 DEF BirthInv
<1>5. KeptInv'
  <2> SUFFICES ASSUME NEW t \in Sessions, native'[t] = "open", closers'[t] = 0, t \notin closeFailed'
               PROVE  Held(t)'
    BY DEF KeptInv
  <2>1. t # s
    BY <1>1 DEF IInv, TypeOK
  <2>2. Held(t)
    BY <1>1, <2>1 DEF IInv, TypeOK, KeptInv
  <2> QED
    BY <1>1, <2>2 DEF Held
<1> QED
  BY <1>2, <1>3, <1>4, <1>5 DEF IInv

LEMMA RegisterKeepsIInv ==
  ASSUME IInv, NEW c \in Callers, Register(c)
  PROVE  IInv'
<1> USE SlotAssumption DEF groupVars, nativeVars
<1>1. /\ caller[c] = "granted" /\ caller' = [caller EXCEPT ![c] = "registered"]
      /\ roleSessions' = roleSessions \cup {hand[c]}
      /\ UNCHANGED <<groupVars, hand, sessions, serverClose, serverWait, runtimeClose, runtimeWait,
                     nativeVars>>
  BY DEF Register
<1>2. hand[c] \in Sessions /\ native[hand[c]] # "unborn"
  BY <1>1 DEF IInv, TypeOK, HandInv, BirthInv
<1>3. TypeOK'
  BY <1>1, <1>2 DEF IInv, TypeOK, CallerStates
<1>4. WaitersInv' /\ HandInv' /\ WakeInv' /\ ClosedInv'
  BY <1>1 DEF IInv, TypeOK, WaitersInv, HandInv, WakeInv, ClosedInv
<1>5. BirthInv'
  BY <1>1, <1>2 DEF IInv, TypeOK, BirthInv
<1>6. HolderInv'
  BY <1>1, <1>2 DEF IInv, TypeOK, HolderInv
<1>7. KeptInv'
  BY <1>1 DEF IInv, TypeOK, KeptInv, Held
<1> QED
  BY <1>3, <1>4, <1>5, <1>6, <1>7 DEF IInv

(* Closing some of the registered sessions and unregistering them.         *)
LEMMA ReleaseKeepsIInv ==
  ASSUME IInv, NEW S \in SUBSET Sessions,
         CloseNative(S), roleSessions' = roleSessions \ S,
         caller' \in [Callers -> CallerStates], hand' \in [Callers -> Sessions \cup {None}],
         \A c \in Callers :
           \/ caller'[c] = caller[c] /\ hand'[c] = hand[c]
           \/ caller[c] = "failed" /\ caller'[c] = "idle" /\ hand'[c] = hand[c]
           \/ caller[c] = "registered" /\ caller'[c] = "idle" /\ hand'[c] = None,
         sessions' \subseteq Sessions, serverWait' \subseteq Sessions, runtimeWait' \subseteq Sessions,
         serverClose' \in CloseStates, runtimeClose' \in CloseStates,
         UNCHANGED <<groupVars, native, closeFailed>>
  PROVE  IInv'
<1> USE SlotAssumption DEF groupVars, callerVars
<1>1. /\ closers' \in [Sessions -> Nat]
      /\ \A s \in Sessions : closers'[s] >= closers[s]
      /\ \A s \in S \cap Sessions : native[s] = "open" => closers'[s] > 0
      /\ \A s \in Sessions : native[s] # "open" => closers'[s] = closers[s]
  BY CloseNativeType DEF IInv
<1>2. TypeOK'
  BY <1>1 DEF IInv, TypeOK, CallerStates
<1>3. WaitersInv' /\ HandInv' /\ WakeInv' /\ ClosedInv'
  <2>1. \A d \in Callers : caller'[d] = "waiting" <=> caller[d] = "waiting"
    BY DEF CallerStates
  <2>2. WaitersInv'
    BY <2>1 DEF IInv, WaitersInv
  <2>3. HandInv'
    BY DEF IInv, HandInv
  <2>4. WakeInv' /\ ClosedInv'
    BY DEF IInv, WakeInv, ClosedInv
  <2> QED
    BY <2>2, <2>3, <2>4
<1>4. BirthInv'
  BY <1>1 DEF IInv, TypeOK, BirthInv
<1>5. HolderInv'
  <2>1. /\ settlement' = settlement /\ roleSessions' \subseteq roleSessions
        /\ \A d \in Callers : hand'[d] = hand[d] \/ hand'[d] = None
        /\ \A d \in Callers : caller'[d] = "granted" => caller[d] = "granted" /\ hand'[d] = hand[d]
    BY DEF IInv, TypeOK
  <2>2. /\ \A e, f \in Entry : settlement'[e] = settlement'[f] /\ settlement'[e] \in Sessions => e = f
        /\ \A e \in Entry : settlement'[e] \in Sessions => settlement'[e] \notin roleSessions'
        /\ \A e \in Entry, d \in Callers : settlement'[e] \in Sessions => settlement'[e] # hand'[d]
    BY <2>1 DEF IInv, HolderInv
  <2>3. \A d, g \in Callers : hand'[d] = hand'[g] /\ hand'[d] # None => d = g
    BY <2>1 DEF IInv, HolderInv
  <2>4. \A d \in Callers : caller'[d] = "granted" => hand'[d] \notin roleSessions'
    BY <2>1 DEF IInv, HolderInv
  <2> QED
    BY <2>2, <2>3, <2>4 DEF HolderInv
<1>6. KeptInv'
  <2> SUFFICES ASSUME NEW s \in Sessions, native[s] = "open", closers'[s] = 0, s \notin closeFailed
               PROVE  Held(s)'
    BY DEF KeptInv
  <2>1. closers[s] = 0 /\ s \notin S
    BY <1>1 DEF IInv, TypeOK
  <2>2. Held(s)
    BY <2>1 DEF IInv, KeptInv
  <2>3. \A d \in Callers : caller[d] = "granted" => caller'[d] = "granted" /\ hand'[d] = hand[d]
    BY DEF IInv, TypeOK
  <2> QED
    BY <2>1, <2>2, <2>3 DEF Held
<1> QED
  BY <1>2, <1>3, <1>4, <1>5, <1>6 DEF IInv

LEMMA AcceptReturnsKeepsIInv ==
  ASSUME IInv, NEW c \in Callers, AcceptReturns(c)
  PROVE  IInv'
<1>1. /\ caller[c] = "registered" /\ caller' = [caller EXCEPT ![c] = "idle"]
      /\ hand' = [hand EXCEPT ![c] = None]
      /\ UNCHANGED <<groupVars, serverClose, serverWait, runtimeClose, runtimeWait, native, closeFailed>>
  BY DEF AcceptReturns
<1>2. hand[c] \in Sessions
  BY <1>1 DEF IInv, HandInv, TypeOK
<1>3. /\ serverClose' \in CloseStates /\ runtimeClose' \in CloseStates /\ sessions' \subseteq Sessions
      /\ serverWait' \subseteq Sessions /\ runtimeWait' \subseteq Sessions
  BY <1>1, <1>2 DEF AcceptReturns, IInv, TypeOK
<1>4. PICK S \in SUBSET Sessions : CloseNative(S) /\ roleSessions' = roleSessions \ S
  <2>1. CASE Closed
    <3>1. CloseNative({hand[c]}) /\ roleSessions' = roleSessions \ {hand[c]}
      BY <2>1 DEF AcceptReturns
    <3> QED
      BY <1>2, <3>1
  <2>2. CASE ~Closed
    <3>1. UNCHANGED <<roleSessions, closers>>
      BY <2>2 DEF AcceptReturns
    <3>2. CloseNative({})
      BY <3>1 DEF CloseNative, IInv, TypeOK
    <3> QED
      BY <3>1, <3>2
  <2> QED
    BY <2>1, <2>2
<1>5. /\ caller' \in [Callers -> CallerStates] /\ hand' \in [Callers -> Sessions \cup {None}]
      /\ \A d \in Callers :
           \/ caller'[d] = caller[d] /\ hand'[d] = hand[d]
           \/ caller[d] = "failed" /\ caller'[d] = "idle" /\ hand'[d] = hand[d]
           \/ caller[d] = "registered" /\ caller'[d] = "idle" /\ hand'[d] = None
  BY <1>1 DEF IInv, TypeOK, CallerStates, callerVars
<1> QED
  BY <1>1, <1>3, <1>4, <1>5, ReleaseKeepsIInv

LEMMA AcceptRefusedKeepsIInv ==
  ASSUME IInv, NEW c \in Callers, AcceptRefused(c)
  PROVE  IInv'
<1> USE DEF groupVars, serverVars, nativeVars
<1>1. /\ caller[c] = "refused" /\ caller' = [caller EXCEPT ![c] = "idle"]
      /\ UNCHANGED <<groupVars, hand, serverVars, nativeVars>>
  BY DEF AcceptRefused
<1>2. TypeOK' /\ WaitersInv' /\ HandInv' /\ BirthInv'
  BY <1>1 DEF IInv, TypeOK, CallerStates, WaitersInv, HandInv, BirthInv
<1>3. HolderInv' /\ WakeInv' /\ ClosedInv' /\ KeptInv'
  BY <1>1 DEF IInv, TypeOK, HolderInv, WakeInv, ClosedInv, KeptInv, Held
<1> QED
  BY <1>2, <1>3 DEF IInv

(* What the synchronous part of NnrpServer.close closes and unregisters.   *)
LEMMA BeginServerCloseReleases ==
  ASSUME TypeOK, BeginServerClose
  PROVE  /\ \E S \in SUBSET Sessions : CloseNative(S) /\ roleSessions' = roleSessions \ S
         /\ serverClose' \in CloseStates /\ serverWait' \subseteq Sessions
<1>1. CASE serverClose = "open"
  <2>1. /\ CloseNative(sessions \cap roleSessions) /\ roleSessions' = roleSessions \ sessions
        /\ serverClose' = "sessions" /\ serverWait' = sessions \cap roleSessions
    BY <1>1 DEF BeginServerClose
  <2>2. /\ sessions \cap roleSessions \in SUBSET Sessions
        /\ roleSessions \ sessions = roleSessions \ (sessions \cap roleSessions)
    BY DEF TypeOK
  <2>3. CloseNative(sessions \cap roleSessions)
        /\ roleSessions' = roleSessions \ (sessions \cap roleSessions)
    BY <2>1, <2>2
  <2> QED
    BY <2>1, <2>2, <2>3 DEF CloseStates
<1>2. CASE serverClose # "open"
  <2>1. UNCHANGED <<serverClose, serverWait, roleSessions, closers>>
    BY <1>2 DEF BeginServerClose
  <2>2. CloseNative({})
    BY <2>1 DEF CloseNative, TypeOK
  <2> QED
    BY <2>1, <2>2 DEF TypeOK
<1> QED
  BY <1>1, <1>2

LEMMA AcceptFailedKeepsIInv ==
  ASSUME IInv, NEW c \in Callers, AcceptFailed(c)
  PROVE  IInv'
<1>1. /\ caller[c] = "failed" /\ caller' = [caller EXCEPT ![c] = "idle"]
      /\ BeginServerClose
      /\ UNCHANGED <<groupVars, hand, sessions, runtimeClose, runtimeWait, native, closeFailed>>
  BY DEF AcceptFailed
<1>2. PICK S \in SUBSET Sessions : CloseNative(S) /\ roleSessions' = roleSessions \ S
  BY <1>1, BeginServerCloseReleases DEF IInv
<1>3. /\ serverClose' \in CloseStates /\ runtimeClose' \in CloseStates /\ sessions' \subseteq Sessions
      /\ serverWait' \subseteq Sessions /\ runtimeWait' \subseteq Sessions
  BY <1>1, BeginServerCloseReleases DEF IInv, TypeOK
<1>5. /\ caller' \in [Callers -> CallerStates] /\ hand' \in [Callers -> Sessions \cup {None}]
      /\ \A d \in Callers :
           \/ caller'[d] = caller[d] /\ hand'[d] = hand[d]
           \/ caller[d] = "failed" /\ caller'[d] = "idle" /\ hand'[d] = hand[d]
           \/ caller[d] = "registered" /\ caller'[d] = "idle" /\ hand'[d] = None
  BY <1>1 DEF IInv, TypeOK, CallerStates, callerVars
<1> QED
  BY <1>1, <1>2, <1>3, <1>5, ReleaseKeepsIInv

LEMMA ServerClosesKeepsIInv ==
  ASSUME IInv, ServerCloses
  PROVE  IInv'
<1>1. /\ BeginServerClose
      /\ UNCHANGED <<groupVars, callerVars, sessions, runtimeClose, runtimeWait, native, closeFailed>>
  BY DEF ServerCloses
<1>2. PICK S \in SUBSET Sessions : CloseNative(S) /\ roleSessions' = roleSessions \ S
  BY <1>1, BeginServerCloseReleases DEF IInv
<1>3. /\ serverClose' \in CloseStates /\ runtimeClose' \in CloseStates /\ sessions' \subseteq Sessions
      /\ serverWait' \subseteq Sessions /\ runtimeWait' \subseteq Sessions
  BY <1>1, BeginServerCloseReleases DEF IInv, TypeOK
<1>5. /\ caller' \in [Callers -> CallerStates] /\ hand' \in [Callers -> Sessions \cup {None}]
      /\ \A d \in Callers :
           \/ caller'[d] = caller[d] /\ hand'[d] = hand[d]
           \/ caller[d] = "failed" /\ caller'[d] = "idle" /\ hand'[d] = hand[d]
           \/ caller[d] = "registered" /\ caller'[d] = "idle" /\ hand'[d] = None
  BY <1>1 DEF IInv, TypeOK, CallerStates, callerVars
<1> QED
  BY <1>1, <1>2, <1>3, <1>5, ReleaseKeepsIInv

LEMMA AppClosesKeepsIInv ==
  ASSUME IInv, NEW s \in Sessions, AppCloses(s)
  PROVE  IInv'
<1>1. /\ CloseNative({s}) /\ roleSessions' = roleSessions \ {s}
      /\ UNCHANGED <<groupVars, callerVars, sessions, serverClose, serverWait, runtimeClose,
                     runtimeWait, native, closeFailed>>
  BY DEF AppCloses
<1>2. /\ serverClose' \in CloseStates /\ runtimeClose' \in CloseStates /\ sessions' \subseteq Sessions
      /\ serverWait' \subseteq Sessions /\ runtimeWait' \subseteq Sessions /\ {s} \in SUBSET Sessions
  BY <1>1 DEF IInv, TypeOK
<1>5. /\ caller' \in [Callers -> CallerStates] /\ hand' \in [Callers -> Sessions \cup {None}]
      /\ \A d \in Callers :
           \/ caller'[d] = caller[d] /\ hand'[d] = hand[d]
           \/ caller[d] = "failed" /\ caller'[d] = "idle" /\ hand'[d] = hand[d]
           \/ caller[d] = "registered" /\ caller'[d] = "idle" /\ hand'[d] = None
  BY <1>1 DEF IInv, TypeOK, CallerStates, callerVars
<1> QED
  BY <1>1, <1>2, <1>5, ReleaseKeepsIInv

LEMMA RuntimeClosesKeepsIInv ==
  ASSUME IInv, RuntimeCloses
  PROVE  IInv'
<1> USE DEF groupVars, callerVars
<1>1. /\ runtimeClose' = "sessions" /\ runtimeWait' = roleSessions
      /\ closeFailed' = closeFailed \ roleSessions
      /\ UNCHANGED <<groupVars, callerVars, roleSessions, sessions, serverClose, serverWait, native>>
  BY DEF RuntimeCloses
<1>2. /\ closers' \in [Sessions -> Nat]
      /\ \A s \in Sessions : closers'[s] >= closers[s]
      /\ \A s \in Sessions : native[s] # "open" => closers'[s] = closers[s]
  BY CloseNativeType DEF RuntimeCloses, IInv
<1>3. TypeOK'
  BY <1>1, <1>2 DEF IInv, TypeOK, CloseStates
<1>4. WaitersInv' /\ HandInv' /\ WakeInv' /\ ClosedInv' /\ HolderInv'
  BY <1>1 DEF IInv, WaitersInv, HandInv, WakeInv, ClosedInv, HolderInv
<1>5. BirthInv'
  BY <1>1, <1>2 DEF IInv, TypeOK, BirthInv
<1>6. KeptInv'
  <2>1. \A s \in Sessions : closers'[s] = 0 => closers[s] = 0
    BY <1>2 DEF IInv, TypeOK
  <2> QED
    BY <1>1, <2>1 DEF IInv, KeptInv, Held
<1> QED
  BY <1>3, <1>4, <1>5, <1>6 DEF IInv

LEMMA CloseStepKeepsIInv ==
  ASSUME IInv, CloseStep
  PROVE  IInv'
<1>1. CASE /\ ServerCloseSettles /\ serverClose' = "done" /\ sessions' = {}
           /\ EnsureGroupClosed
  <2>1. serverWait' = {} /\ UNCHANGED <<pending, late, drains, terminal, hand, roleSessions, runtimeClose,
                                        runtimeWait, native, closeFailed>>
    BY <1>1 DEF ServerCloseSettles
  <2> QED
    BY <1>1, <2>1, EnsureGroupClosedKeeps DEF IInv, TypeOK, CloseStates
<1>2. CASE /\ RuntimeCloseSettles /\ runtimeClose' = "done"
           /\ EnsureGroupClosed
  <2>1. runtimeWait' = {} /\ UNCHANGED <<pending, late, drains, terminal, hand, roleSessions, sessions,
                                         serverClose, serverWait, native, closeFailed>>
    BY <1>2 DEF RuntimeCloseSettles
  <2> QED
    BY <1>2, <2>1, EnsureGroupClosedKeeps DEF IInv, TypeOK, CloseStates
<1>3. CASE /\ \/ ServerCloseSettles /\ serverClose' = "failed" /\ UNCHANGED sessions
              \/ RuntimeCloseSettles /\ runtimeClose' = "failed"
           /\ UNCHANGED <<groupClosed, waiters, caller, settlement, closers>>
  <2>1. /\ serverClose' \in CloseStates /\ runtimeClose' \in CloseStates
        /\ serverWait' \subseteq Sessions /\ runtimeWait' \subseteq Sessions
        /\ UNCHANGED <<pending, settlement, late, drains, waiters, groupClosed, terminal, caller, hand,
                       roleSessions, sessions, native, closers, closeFailed>>
    BY <1>3 DEF ServerCloseSettles, RuntimeCloseSettles, IInv, TypeOK, CloseStates
  <2>2. TypeOK' /\ WaitersInv' /\ HandInv' /\ BirthInv'
    BY <2>1 DEF IInv, TypeOK, WaitersInv, HandInv, BirthInv
  <2>3. HolderInv' /\ WakeInv' /\ ClosedInv' /\ KeptInv'
    BY <2>1 DEF IInv, HolderInv, WakeInv, ClosedInv, KeptInv, Held
  <2> QED
    BY <2>2, <2>3 DEF IInv
<1> QED
  BY <1>1, <1>2, <1>3 DEF CloseStep, ServerCloseSettles, RuntimeCloseSettles
-----------------------------------------------------------------------------
(***************************************************************************)
(* The theorems.                                                           *)
(***************************************************************************)

(* The reachable states of the group, whatever N, Callers and Sessions.    *)
LEMMA NextKeepsIInv ==
  ASSUME IInv, [Next]_vars
  PROVE  IInv'
<1>1. CASE \E c \in Callers : Accept(c) \/ CallStep(c)
  BY <1>1, AcceptKeepsIInv, GroupAcceptKeepsIInv, RegisterKeepsIInv, AcceptReturnsKeepsIInv,
     AcceptRefusedKeepsIInv, AcceptFailedKeepsIInv DEF CallStep
<1>2. CASE \E e \in Entry : RoleSettles(e) \/ EntryStep(e) \/ DrainMicrotask(e)
  BY <1>2, RoleAcceptsKeepsIInv, RoleTimesOutKeepsIInv, RoleFailsKeepsIInv, EntryStepKeepsIInv,
     DrainMicrotaskKeepsIInv DEF RoleSettles
<1>3. CASE \E s \in Sessions : CloseSettles(s) \/ AppCloses(s)
  BY <1>3, CloseSettlesKeepsIInv, AppClosesKeepsIInv
<1>4. CASE ServerCloses
  BY <1>4, ServerClosesKeepsIInv
<1>5. CASE RuntimeCloses
  BY <1>5, RuntimeClosesKeepsIInv
<1>6. CASE CloseStep
  BY <1>6, CloseStepKeepsIInv
<1>7. CASE UNCHANGED vars
  <2>1. TypeOK' /\ WaitersInv' /\ HandInv' /\ BirthInv'
    BY <1>7 DEF vars, groupVars, callerVars, serverVars, nativeVars, IInv, TypeOK, WaitersInv, HandInv,
                BirthInv
  <2>2. HolderInv' /\ WakeInv' /\ ClosedInv' /\ KeptInv'
    BY <1>7 DEF vars, groupVars, callerVars, serverVars, nativeVars, IInv, HolderInv, WakeInv,
                ClosedInv, KeptInv, Held
  <2> QED
    BY <2>1, <2>2 DEF IInv
<1> QED
  BY <1>1, <1>2, <1>3, <1>4, <1>5, <1>6, <1>7 DEF Next

(* The inductive invariant holds of every execution.                       *)
THEOREM Invariance == Spec => []IInv
<1>1. Init => IInv
  BY InitIInv
<1>2. IInv /\ [Next]_vars => IInv'
  BY NextKeepsIInv
<1> QED
  BY <1>1, <1>2, PTL DEF Spec

(* No session has two holders, so no two accept() calls return it.         *)
THEOREM OneHolderTheorem == Spec => []OneHolder
<1>1. IInv => OneHolder
  BY SlotAssumption DEF IInv, HandInv, HolderInv, TypeOK, OneHolder, Parked, Granted, Ready
<1> QED
  BY <1>1, Invariance, PTL

(* An open native session is always held, being closed, or failed to close. *)
THEOREM NoSessionLostTheorem == Spec => []NoSessionLost
<1>1. IInv => NoSessionLost
  BY SlotAssumption DEF IInv, KeptInv, Held, NoSessionLost, Parked, Granted, Ready
<1> QED
  BY <1>1, Invariance, PTL

(* A waiting accept() call always has a poll or a drain coming.            *)
THEOREM NoLostWakeupTheorem == Spec => []NoLostWakeup
<1>1. IInv => NoLostWakeup
  BY DEF IInv, WakeInv, NoLostWakeup, Ready
<1> QED
  BY <1>1, Invariance, PTL

(* A closed group keeps neither a waiter nor a session.                    *)
THEOREM ClosedGroupIsEmptyTheorem == Spec => []ClosedGroupIsEmpty
<1>1. IInv => ClosedGroupIsEmpty
  BY DEF IInv, ClosedInv, ClosedGroupIsEmpty, Ready
<1> QED
  BY <1>1, Invariance, PTL

(* The state keeps its type: in particular close counts stay naturals.     *)
THEOREM TypeTheorem == Spec => []TypeOK
<1>1. IInv => TypeOK
  BY DEF IInv
<1> QED
  BY <1>1, Invariance, PTL

-----------------------------------------------------------------------------
(***************************************************************************)
(* The server keeps the safety part of the promise of SessionHandoff.      *)
(***************************************************************************)

(* A session of the server has been accepted and is held nowhere else, and *)
(* NnrpServer.close leaves none of them registered with the runtime.       *)
SessionsInv ==
  /\ \A s \in sessions : native[s] # "unborn"
  /\ \A e \in Entry : settlement[e] \notin sessions
  /\ \A c \in Callers : hand[c] \notin sessions
  /\ serverClose # "open" => sessions \cap roleSessions = {}

LEMMA DrainKeepsSessions ==
  ASSUME IInv, SessionsInv,
         NEW w \in Seq(Callers), NEW called,
         \A i, j \in 1 .. Len(w) : w[i] = w[j] => i = j,
         Drain(w, called),
         UNCHANGED <<serverVars, nativeVars>>
  PROVE  SessionsInv'
<1> USE SlotAssumption
<1>1. UNCHANGED <<native, sessions, serverClose, roleSessions>> /\ None \notin sessions
  BY DEF serverVars, nativeVars, IInv, TypeOK
<1>2. \A e \in Entry : settlement'[e] \notin sessions
  BY <1>1 DEF Drain, SessionsInv
<1>3. ASSUME NEW c \in Callers PROVE hand'[c] \notin sessions
  <2>1. Served(w) \subseteq Entry
    BY DrainPairs DEF Ready
  <2> QED
    BY <2>1, DrainOneCall DEF IInv, SessionsInv
<1> QED
  BY <1>1, <1>2, <1>3 DEF SessionsInv

LEMMA CallKeepsSessions ==
  ASSUME IInv, SessionsInv, NEW c \in Callers, Accept(c) \/ CallStep(c)
  PROVE  SessionsInv'
<1> USE SlotAssumption
<1>1. TypeOK /\ None \notin sessions
  BY DEF IInv, TypeOK
<1>2. CASE GroupAccept(c)
  <2>1. CASE ~terminal /\ ~groupClosed
    <3> DEFINE w == Append(waiters, c)
    <3>1. Drain(w, [caller EXCEPT ![c] = "waiting"]) /\ UNCHANGED <<serverVars, nativeVars>>
          /\ caller[c] = "called"
      BY <1>2, <2>1 DEF GroupAccept
    <3>2. w \in Seq(Callers) /\ Len(w) = Len(waiters) + 1 /\ Len(waiters) \in Nat
          /\ w[Len(waiters) + 1] = c /\ \A i \in 1 .. Len(waiters) : w[i] = waiters[i]
      BY <1>1, LenProperties, AppendProperties DEF TypeOK
    <3>3. \A i \in 1 .. Len(waiters) : waiters[i] # c
      BY <3>1 DEF IInv, WaitersInv
    <3>4. ASSUME NEW i \in 1 .. Len(w), NEW j \in 1 .. Len(w), w[i] = w[j] PROVE i = j
      BY <3>2, <3>3, <3>4 DEF IInv, WaitersInv
    <3> HIDE DEF w
    <3> QED
      BY <3>1, <3>2, <3>4, DrainKeepsSessions
  <2> QED
    BY <1>2, <2>1 DEF GroupAccept, SessionsInv, groupVars, serverVars, nativeVars
<1>3. CASE Register(c)
  <2>1. /\ roleSessions' = roleSessions \cup {hand[c]} /\ hand[c] \notin sessions
        /\ UNCHANGED <<native, sessions, settlement, hand, serverClose>>
    BY <1>3 DEF Register, SessionsInv, groupVars, nativeVars
  <2> QED
    BY <2>1 DEF SessionsInv
<1>4. CASE AcceptReturns(c) /\ Closed
  <2>1. /\ hand' = [hand EXCEPT ![c] = None] /\ roleSessions' = roleSessions \ {hand[c]}
        /\ UNCHANGED <<native, sessions, settlement, serverClose>>
    BY <1>4 DEF AcceptReturns, groupVars
  <2> QED
    BY <1>1, <2>1 DEF SessionsInv, TypeOK
<1>5. CASE AcceptReturns(c) /\ ~Closed
  <2>1. /\ hand' = [hand EXCEPT ![c] = None] /\ sessions' = sessions \cup {hand[c]}
        /\ UNCHANGED <<native, settlement, serverClose>> /\ serverClose = "open"
        /\ caller[c] = "registered"
    BY <1>5 DEF AcceptReturns, Closed, groupVars
  <2>2. hand[c] \in Sessions /\ native[hand[c]] # "unborn" /\ hand[c] # None
    BY <1>1, <2>1 DEF IInv, TypeOK, HandInv, BirthInv
  <2>3. \A e \in Entry : settlement[e] # hand[c]
    BY <2>2 DEF IInv, HolderInv
  <2>4. \A d \in Callers : hand'[d] # hand[c] /\ hand'[d] \notin sessions
    BY <1>1, <2>1, <2>2 DEF IInv, HolderInv, TypeOK, SessionsInv
  <2> QED
    BY <2>1, <2>2, <2>3, <2>4 DEF SessionsInv
<1>6. CASE AcceptFailed(c)
  <2>1. UNCHANGED <<native, sessions, settlement, hand>> /\ BeginServerClose
    BY <1>6 DEF AcceptFailed, groupVars
  <2> QED
    BY <2>1 DEF BeginServerClose, SessionsInv
<1>7. CASE Accept(c) \/ AcceptRefused(c)
  BY <1>7 DEF Accept, AcceptRefused, SessionsInv, groupVars, serverVars, nativeVars
<1> QED
  BY <1>2, <1>3, <1>4, <1>5, <1>6, <1>7 DEF CallStep

LEMMA EntryKeepsSessions ==
  ASSUME IInv, SessionsInv, NEW e \in Entry, RoleSettles(e) \/ EntryStep(e) \/ DrainMicrotask(e)
  PROVE  SessionsInv'
<1> USE SlotAssumption
<1>1. TypeOK /\ None \notin sessions /\ Stale \notin sessions
  BY DEF IInv, TypeOK
<1>2. ASSUME NEW s \in Sessions, RoleAccepts(e, s) PROVE SessionsInv'
  <2>1. s \notin sessions
    BY <1>2 DEF RoleAccepts, SessionsInv
  <2>2. UNCHANGED <<hand, sessions, serverClose, roleSessions>>
        /\ native' = [native EXCEPT ![s] = "open"]
    BY <1>2 DEF RoleAccepts, callerVars, serverVars
  <2>3. settlement' = settlement \/ settlement' = [settlement EXCEPT ![e] = s]
    BY <1>2 DEF RoleAccepts
  <2>4. \A f \in Entry : settlement'[f] \notin sessions
    BY <1>1, <2>1, <2>3 DEF SessionsInv, TypeOK
  <2>5. \A r \in sessions : native'[r] # "unborn"
    BY <1>1, <2>2 DEF SessionsInv, TypeOK
  <2> QED
    BY <2>2, <2>4, <2>5 DEF SessionsInv
<1>3. CASE RoleTimesOut(e)
  <2>1. UNCHANGED <<native, hand, sessions, serverClose, roleSessions>>
    BY <1>3 DEF RoleTimesOut, callerVars, serverVars, nativeVars
  <2>2. settlement' = settlement \/ settlement' = [settlement EXCEPT ![e] = Stale]
    BY <1>3 DEF RoleTimesOut
  <2>3. \A f \in Entry : settlement'[f] \notin sessions
    BY <1>1, <2>2 DEF SessionsInv, TypeOK
  <2> QED
    BY <2>1, <2>3 DEF SessionsInv
<1>4. CASE RoleFails(e)
  <2>1. UNCHANGED <<native, hand, sessions, serverClose, roleSessions>> /\ EnsureGroupClosed
    BY <1>4 DEF RoleFails, serverVars
  <2> QED
    BY <1>1, <2>1 DEF SessionsInv, EnsureGroupClosed, CloseGroup
<1>5. CASE EntryStep(e)
  BY <1>5 DEF EntryStep, LateClosed, RoleAcceptDone, SessionsInv, callerVars, serverVars, nativeVars
<1>6. CASE DrainMicrotask(e)
  <2>1. Drain(waiters, caller) /\ UNCHANGED <<serverVars, nativeVars>> /\ waiters \in Seq(Callers)
    BY <1>1, <1>6 DEF DrainMicrotask, TypeOK
  <2>2. \A i, j \in 1 .. Len(waiters) : waiters[i] = waiters[j] => i = j
    BY DEF IInv, WaitersInv
  <2> QED
    BY <2>1, <2>2, DrainKeepsSessions
<1> QED
  BY <1>2, <1>3, <1>4, <1>5, <1>6 DEF RoleSettles

LEMMA NextKeepsSessions ==
  ASSUME IInv, SessionsInv, [Next]_vars
  PROVE  SessionsInv'
<1> USE SlotAssumption
<1>1. CASE \E c \in Callers : Accept(c) \/ CallStep(c)
  BY <1>1, CallKeepsSessions
<1>2. CASE \E e \in Entry : RoleSettles(e) \/ EntryStep(e) \/ DrainMicrotask(e)
  BY <1>2, EntryKeepsSessions
<1>3. ASSUME NEW s \in Sessions, CloseSettles(s) PROVE SessionsInv'
  <2>1. UNCHANGED <<settlement, hand, sessions, serverClose, roleSessions>>
    BY <1>3 DEF CloseSettles, groupVars, callerVars, serverVars
  <2>2. native' = native \/ native' = [native EXCEPT ![s] = "closed"]
    BY <1>3 DEF CloseSettles
  <2> QED
    BY <2>1, <2>2 DEF SessionsInv, IInv, TypeOK
<1>4. ASSUME NEW s \in Sessions, AppCloses(s) PROVE SessionsInv'
  BY <1>4 DEF AppCloses, SessionsInv, groupVars, callerVars
<1>5. CASE ServerCloses
  <2>1. UNCHANGED <<native, sessions, settlement, hand>> /\ BeginServerClose
    BY <1>5 DEF ServerCloses, groupVars, callerVars
  <2> QED
    BY <2>1 DEF BeginServerClose, SessionsInv
<1>6. CASE RuntimeCloses
  BY <1>6 DEF RuntimeCloses, SessionsInv, groupVars, callerVars
<1>7. CASE ServerCloseSettles
  <2>1. UNCHANGED <<native, hand, roleSessions>> /\ sessions' \subseteq sessions
        /\ serverClose = "sessions"
    BY <1>7 DEF ServerCloseSettles
  <2>2. settlement' = settlement \/ settlement' = [f \in Entry |-> None]
    BY <1>7 DEF ServerCloseSettles, EnsureGroupClosed, CloseGroup
  <2>3. None \notin sessions
    BY DEF IInv, TypeOK
  <2> QED
    BY <2>1, <2>2, <2>3 DEF SessionsInv
<1>8. CASE RuntimeCloseSettles
  <2>1. UNCHANGED <<native, hand, roleSessions, sessions, serverClose>>
    BY <1>8 DEF RuntimeCloseSettles
  <2>2. settlement' = settlement \/ settlement' = [f \in Entry |-> None]
    BY <1>8 DEF RuntimeCloseSettles, EnsureGroupClosed, CloseGroup
  <2>3. None \notin sessions
    BY DEF IInv, TypeOK
  <2> QED
    BY <2>1, <2>2, <2>3 DEF SessionsInv
<1>9. CASE UNCHANGED vars
  BY <1>9 DEF vars, groupVars, callerVars, serverVars, nativeVars, SessionsInv
<1> QED
  BY <1>1, <1>2, <1>3, <1>4, <1>5, <1>6, <1>7, <1>8, <1>9 DEF Next, CloseStep

(* Whatever closes the sessions S, and takes only sessions already being   *)
(* closed off the server's list, is a giving up of S.                      *)
LEMMA ClosingGivesUp ==
  ASSUME TypeOK,
         NEW S \in SUBSET Sessions, CloseNative(S), UNCHANGED native,
         sessions' \subseteq sessions,
         \A s \in sessions \ sessions' : native[s] = "open" => closers[s] > 0,
         StageOf' \in Promise!Later(StageOf),
         StageOf' # "open" \/ S \subseteq sessions
  PROVE  Promise!Next
<1> DEFINE G == {s \in S : native[s] = "open" /\ closers[s] = 0}
<1>1. ASSUME NEW s \in Sessions
      PROVE  /\ closers[s] \in Nat
             /\ closers'[s] = IF s \in S /\ native[s] = "open" THEN closers[s] + 1 ELSE closers[s]
  BY DEF CloseNative, TypeOK
<1>2. \A s \in Sessions : FateOf(s)' = IF s \in G THEN "closing" ELSE FateOf(s)
  BY <1>1 DEF FateOf
<1>3. \A s \in G : FateOf(s) = "taken" \/ (FateOf(s) = "offered" /\ StageOf' # "open")
  BY <1>1 DEF FateOf
<1>4. StageOf' \in Promise!Stages
  BY DEF StageOf, Promise!Stages
<1> HIDE DEF G
<1>5. G \in SUBSET Sessions
  BY DEF G
<1>6. Promise!GiveUp(G, StageOf')
  BY <1>2, <1>3, <1>5 DEF Promise!GiveUp
<1> QED
  BY <1>4, <1>5, <1>6 DEF Promise!Next

(* A step that touches no session and no closed flag is no step of the     *)
(* promise.                                                                *)
LEMMA QuietStep ==
  ASSUME UNCHANGED <<native, closers, sessions, serverClose, runtimeClose, groupClosed>>
  PROVE  UNCHANGED Promise!vars
BY DEF Promise!vars, FateOf, StageOf, Closed

(* EnsureGroupClosed closes the parked sessions, or none.                  *)
LEMMA EnsureGroupClosedCloses ==
  ASSUME IInv, EnsureGroupClosed
  PROVE  groupClosed' = TRUE /\ \E S \in SUBSET Sessions : CloseNative(S)
<1>1. CASE groupClosed
  <2>1. CloseNative({}) /\ groupClosed' = groupClosed
    BY <1>1 DEF EnsureGroupClosed, CloseNative, IInv, TypeOK
  <2> QED
    BY <1>1, <2>1 DEF IInv, TypeOK
<1>2. CASE ~groupClosed
  <2>1. CloseNative(ReadySessions) /\ groupClosed' = TRUE
    BY <1>2 DEF EnsureGroupClosed, CloseGroup
  <2>2. ReadySessions \in SUBSET Sessions
    BY DEF ReadySessions, Ready, IInv, TypeOK
  <2> QED
    BY <2>1, <2>2
<1> QED
  BY <1>1, <1>2

(* RoleAccepts offers the session, or gives it up if it is late.           *)
LEMMA RoleAcceptsOffers ==
  ASSUME IInv, SessionsInv, NEW e \in Entry, NEW s \in Sessions, RoleAccepts(e, s)
  PROVE  Promise!Next
<1> DEFINE fate == [r \in Sessions |-> FateOf(r)]
<1>1. /\ native[s] = "unborn" /\ s \notin sessions /\ closers[s] = 0
      /\ native' = [native EXCEPT ![s] = "open"]
      /\ closers' = IF groupClosed THEN [closers EXCEPT ![s] = @ + 1] ELSE closers
      /\ UNCHANGED <<sessions, serverClose, runtimeClose, groupClosed>>
  BY DEF RoleAccepts, serverVars, SessionsInv, IInv, BirthInv
<1>2. \A r \in Sessions \ {s} : native'[r] = native[r] /\ closers'[r] = closers[r]
  BY <1>1 DEF IInv, TypeOK
<1>3. native'[s] = "open" /\ closers'[s] = IF groupClosed THEN 1 ELSE 0
  BY <1>1 DEF IInv, TypeOK
<1>4. /\ FateOf(s) = "unborn"
      /\ FateOf(s)' = IF groupClosed THEN "closing" ELSE "offered"
      /\ \A r \in Sessions \ {s} : FateOf(r)' = FateOf(r)
  BY <1>1, <1>2, <1>3 DEF FateOf
<1>5. StageOf' = StageOf /\ (groupClosed => StageOf # "open")
  BY <1>1 DEF StageOf, Closed
<1>6. fate' = [fate EXCEPT ![s] = IF groupClosed THEN "closing" ELSE "offered"]
  BY <1>4
<1>7. (IF groupClosed THEN "closing" ELSE "offered")
        \in {"offered"} \cup IF StageOf = "open" THEN {} ELSE {"closing"}
  BY <1>5
<1>8. Promise!Offer(s)
  BY <1>4, <1>5, <1>6, <1>7 DEF Promise!Offer
<1> QED
  BY <1>8 DEF Promise!Next

(* AcceptReturns takes the session for the server, or gives it up.         *)
LEMMA AcceptReturnsTakes ==
  ASSUME IInv, SessionsInv, NEW c \in Callers, AcceptReturns(c)
  PROVE  [Promise!Next]_(Promise!vars)
<1>0. hand[c] \in Sessions
  BY DEF AcceptReturns, IInv, TypeOK, HandInv
<1>1. PICK s \in Sessions : s = hand[c] /\ s \notin sessions
  BY <1>0 DEF SessionsInv
<1>2. UNCHANGED <<native, serverClose, runtimeClose, groupClosed>>
  BY DEF AcceptReturns, groupVars
<1>3. StageOf' = StageOf /\ StageOf \in Promise!Later(StageOf)
  BY <1>2 DEF StageOf, Closed, Promise!Later, Promise!Stages
<1>4. CASE Closed
  <2>1. CloseNative({s}) /\ sessions' = sessions
    BY <1>1, <1>4 DEF AcceptReturns
  <2>2. StageOf' # "open"
    BY <1>3, <1>4 DEF StageOf
  <2>3. {s} \in SUBSET Sessions
    BY <1>1
  <2> QED
    BY <1>2, <1>3, <2>1, <2>2, <2>3, ClosingGivesUp DEF IInv
<1>5. CASE ~Closed
  <2>1. sessions' = sessions \cup {s} /\ closers' = closers
    BY <1>1, <1>5 DEF AcceptReturns
  <2>2. \A r \in Sessions \ {s} : FateOf(r)' = FateOf(r)
    BY <1>2, <2>1 DEF FateOf
  <2>3. CASE FateOf(s) = "offered"
    <3>1. FateOf(s)' = "taken"
      BY <1>1, <1>2, <2>1, <2>3 DEF FateOf, IInv, TypeOK
    <3>2. StageOf # "closed"
      BY <1>5 DEF StageOf
    <3>3. [r \in Sessions |-> FateOf(r)]' = [[r \in Sessions |-> FateOf(r)] EXCEPT ![s] = "taken"]
      BY <1>1, <2>2, <3>1
    <3>4. Promise!Take(s)
      BY <1>1, <1>3, <2>3, <3>2, <3>3 DEF Promise!Take
    <3> QED
      BY <1>1, <3>4 DEF Promise!Next
  <2>4. CASE FateOf(s) # "offered"
    <3>1. FateOf(s)' = FateOf(s)
      BY <1>1, <1>2, <2>1, <2>4 DEF FateOf
    <3> QED
      BY <1>1, <1>3, <2>2, <3>1 DEF Promise!vars
  <2> QED
    BY <2>3, <2>4
<1> QED
  BY <1>4, <1>5

(* CloseSettles closes a session that was being closed.                    *)
LEMMA CloseSettlesCloses ==
  ASSUME IInv, CloseMayFail = FALSE, NEW s \in Sessions, CloseSettles(s)
  PROVE  [Promise!Next]_(Promise!vars)
<1>1. /\ native' = [native EXCEPT ![s] = "closed"] /\ closers' = [closers EXCEPT ![s] = @ - 1]
      /\ closers[s] > 0 /\ native[s] # "unborn"
      /\ UNCHANGED <<sessions, serverClose, runtimeClose, groupClosed>>
  BY DEF CloseSettles, groupVars, serverVars, IInv, BirthInv, TypeOK
<1>2. /\ native'[s] = "closed" /\ native[s] \in {"open", "closed"}
      /\ \A r \in Sessions \ {s} : native'[r] = native[r] /\ closers'[r] = closers[r]
  BY <1>1 DEF IInv, TypeOK
<1>3. FateOf(s)' = "closed" /\ \A r \in Sessions \ {s} : FateOf(r)' = FateOf(r)
  BY <1>1, <1>2 DEF FateOf
<1>4. StageOf' = StageOf
  BY <1>1 DEF StageOf, Closed
<1>5. CASE native[s] = "open"
  <2>1. FateOf(s) = "closing"
    BY <1>1, <1>5 DEF FateOf
  <2>2. [r \in Sessions |-> FateOf(r)]' = [[r \in Sessions |-> FateOf(r)] EXCEPT ![s] = "closed"]
    BY <1>3
  <2> QED
    BY <1>4, <2>1, <2>2 DEF Promise!Close, Promise!Next
<1>6. CASE native[s] = "closed"
  <2>1. FateOf(s)' = FateOf(s)
    BY <1>3, <1>6 DEF FateOf
  <2> QED
    BY <1>3, <1>4, <2>1 DEF Promise!vars
<1> QED
  BY <1>2, <1>5, <1>6

(* A close of the server takes no session off its list that is still open: *)
(* had its close not begun something would hold it, and nothing does.      *)
LEMMA ServerCloseForgetsNothing ==
  ASSUME IInv, SessionsInv, closeFailed = {}, serverClose # "open",
         NEW s \in sessions, native[s] = "open"
  PROVE  closers[s] > 0
<1>1. s \in Sessions /\ closers[s] \in Nat
  BY DEF IInv, TypeOK
<1>2. ~Held(s)
  BY DEF SessionsInv, Held
<1> QED
  BY <1>1, <1>2 DEF IInv, KeptInv

(* The synchronous part of NnrpServer.close gives up the server's sessions. *)
LEMMA BeginningGivesUp ==
  ASSUME TypeOK, BeginServerClose, UNCHANGED <<native, sessions, runtimeClose, groupClosed>>
  PROVE  [Promise!Next]_(Promise!vars)
<1>1. CASE serverClose = "open"
  <2>1. CloseNative(sessions \cap roleSessions) /\ serverClose' = "sessions"
    BY <1>1 DEF BeginServerClose
  <2>2. /\ sessions \cap roleSessions \in SUBSET Sessions
        /\ sessions \cap roleSessions \subseteq sessions
    BY DEF TypeOK
  <2>3. StageOf' \in Promise!Later(StageOf)
    BY <2>1 DEF StageOf, Closed, Promise!Later, Promise!Stages
  <2> QED
    BY <2>1, <2>2, <2>3, ClosingGivesUp
<1>2. CASE serverClose # "open"
  BY <1>2, QuietStep DEF BeginServerClose
<1> QED
  BY <1>1, <1>2

LEMMA NextKeepsPromise ==
  ASSUME IInv, SessionsInv, closeFailed = {}, CloseMayFail = FALSE, [Next]_vars
  PROVE  [Promise!Next]_(Promise!vars)
<1> DEFINE Kept == [Promise!Next]_(Promise!vars)
<1>1. TypeOK
  BY DEF IInv
<1>2. ASSUME NEW c \in Callers, Accept(c) \/ GroupAccept(c) \/ Register(c) \/ AcceptRefused(c)
      PROVE  Kept
  BY <1>2, QuietStep DEF Accept, GroupAccept, Register, AcceptRefused, groupVars, serverVars,
                         nativeVars
<1>3. ASSUME NEW c \in Callers, AcceptFailed(c) PROVE Kept
  <2>1. BeginServerClose /\ UNCHANGED <<native, sessions, runtimeClose, groupClosed>>
    BY <1>3 DEF AcceptFailed, groupVars
  <2> QED
    BY <1>1, <2>1, BeginningGivesUp
<1>4. CASE ServerCloses
  <2>1. BeginServerClose /\ UNCHANGED <<native, sessions, runtimeClose, groupClosed>>
    BY <1>4 DEF ServerCloses, groupVars
  <2> QED
    BY <1>1, <2>1, BeginningGivesUp
<1>5. ASSUME NEW e \in Entry,
             RoleTimesOut(e) \/ LateClosed(e) \/ RoleAcceptDone(e) \/ DrainMicrotask(e)
      PROVE  Kept
  BY <1>5, QuietStep DEF RoleTimesOut, LateClosed, RoleAcceptDone, DrainMicrotask, groupVars,
                         serverVars, nativeVars
<1>6. ASSUME NEW e \in Entry, RoleFails(e) PROVE Kept
  <2>1. EnsureGroupClosed
    BY <1>6 DEF RoleFails
  <2>2. PICK S \in SUBSET Sessions : CloseNative(S)
    BY <2>1, EnsureGroupClosedCloses
  <2>3. UNCHANGED <<native, sessions, serverClose, runtimeClose>> /\ groupClosed' = TRUE
    BY <1>6, <2>1, EnsureGroupClosedCloses DEF RoleFails, serverVars
  <2>4. StageOf' \in Promise!Later(StageOf) /\ StageOf' # "open"
    BY <2>3 DEF StageOf, Closed, Promise!Later, Promise!Stages
  <2> QED
    BY <1>1, <2>2, <2>3, <2>4, ClosingGivesUp
<1>7. ASSUME NEW s \in Sessions, AppCloses(s) PROVE Kept
  <2>1. /\ CloseNative({s}) /\ {s} \in SUBSET Sessions /\ {s} \subseteq sessions
        /\ UNCHANGED <<native, sessions, serverClose, runtimeClose, groupClosed>>
    BY <1>7 DEF AppCloses, groupVars
  <2>2. StageOf' \in Promise!Later(StageOf)
    BY <2>1 DEF StageOf, Closed, Promise!Later, Promise!Stages
  <2> QED
    BY <1>1, <2>1, <2>2, ClosingGivesUp
<1>8. CASE RuntimeCloses
  <2>1. /\ CloseNative(roleSessions) /\ runtimeClose' = "sessions"
        /\ UNCHANGED <<native, sessions, serverClose, groupClosed>>
    BY <1>8 DEF RuntimeCloses, groupVars
  <2>2. StageOf' = "closed" /\ roleSessions \in SUBSET Sessions
    BY <1>1, <2>1 DEF StageOf, Closed, TypeOK
  <2>3. StageOf' \in Promise!Later(StageOf)
    BY <2>2 DEF StageOf, Promise!Later, Promise!Stages
  <2> QED
    BY <1>1, <2>1, <2>2, <2>3, ClosingGivesUp
<1>9. CASE ServerCloseSettles
  <2>1. /\ EnsureGroupClosed /\ sessions' = {} /\ serverClose = "sessions" /\ serverClose' = "done"
        /\ UNCHANGED <<native, runtimeClose>>
    BY <1>1, <1>9 DEF ServerCloseSettles, OneFailed
  <2>2. PICK S \in SUBSET Sessions : CloseNative(S)
    BY <2>1, EnsureGroupClosedCloses
  <2>3. StageOf' = "closed" /\ StageOf' \in Promise!Later(StageOf)
    BY <2>1 DEF StageOf, Closed, Promise!Later, Promise!Stages
  <2>4. \A s \in sessions : native[s] = "open" => closers[s] > 0
    BY <2>1, ServerCloseForgetsNothing
  <2> QED
    BY <1>1, <2>1, <2>2, <2>3, <2>4, ClosingGivesUp
<1>10. CASE RuntimeCloseSettles
  <2>1. /\ EnsureGroupClosed /\ runtimeClose' = "done"
        /\ UNCHANGED <<native, sessions, serverClose>>
    BY <1>1, <1>10 DEF RuntimeCloseSettles, OneFailed
  <2>2. PICK S \in SUBSET Sessions : CloseNative(S)
    BY <2>1, EnsureGroupClosedCloses
  <2>3. StageOf' = "closed" /\ StageOf' \in Promise!Later(StageOf)
    BY <2>1 DEF StageOf, Closed, Promise!Later, Promise!Stages
  <2> QED
    BY <1>1, <2>1, <2>2, <2>3, ClosingGivesUp
<1>11. CASE UNCHANGED vars
  BY <1>11, QuietStep DEF vars, groupVars, serverVars, nativeVars
<1>12. ASSUME NEW e \in Entry, NEW s \in Sessions, RoleAccepts(e, s) PROVE Kept
  BY <1>12, RoleAcceptsOffers
<1>13. ASSUME NEW c \in Callers, AcceptReturns(c) PROVE Kept
  BY <1>13, AcceptReturnsTakes
<1>14. ASSUME NEW s \in Sessions, CloseSettles(s) PROVE Kept
  BY <1>14, CloseSettlesCloses
<1> HIDE DEF Kept
<1> QED
  BY <1>2, <1>3, <1>4, <1>5, <1>6, <1>7, <1>8, <1>9, <1>10, <1>11, <1>12, <1>13, <1>14
  DEF Next, CallStep, RoleSettles, EntryStep, CloseStep, Kept

(* The server keeps the safety part of its promise: a session is offered,  *)
(* taken by at most one accept() of a server that is not closed, given up  *)
(* untaken only when the listeners have stopped, and closed when and only  *)
(* when it was given up.  A native close that fails breaks the promise, in *)
(* the code as in the model: the session stays open.                       *)
THEOREM PromiseTheorem ==
  ASSUME CloseMayFail = FALSE
  PROVE  Spec => Promise!Safety
<1> DEFINE PInv == IInv /\ SessionsInv /\ closeFailed = {}
<1>1. Init => PInv /\ Promise!Init
  <2> SUFFICES ASSUME Init PROVE PInv /\ Promise!Init
    OBVIOUS
  <2>1. SessionsInv /\ closeFailed = {}
    BY SlotAssumption DEF Init, SessionsInv
  <2>2. Promise!Init
    BY DEF Init, Promise!Init, FateOf, StageOf, Closed
  <2> QED
    BY <2>1, <2>2, InitIInv
<1>2. PInv /\ [Next]_vars => PInv' /\ [Promise!Next]_(Promise!vars)
  <2> SUFFICES ASSUME PInv, [Next]_vars PROVE PInv' /\ [Promise!Next]_(Promise!vars)
    OBVIOUS
  <2>1. closeFailed' = {}
    BY DEF Next, vars, nativeVars, Accept, CallStep, GroupAccept, Register, AcceptReturns,
           AcceptRefused, AcceptFailed, RoleSettles, RoleAccepts, RoleTimesOut, RoleFails, EntryStep,
           LateClosed, RoleAcceptDone, DrainMicrotask, CloseSettles, AppCloses, ServerCloses,
           RuntimeCloses, CloseStep, ServerCloseSettles, RuntimeCloseSettles
  <2> QED
    BY <2>1, NextKeepsIInv, NextKeepsSessions, NextKeepsPromise
<1> HIDE DEF PInv
<1> QED
  BY <1>1, <1>2, PTL DEF Spec, Promise!Safety
=============================================================================
