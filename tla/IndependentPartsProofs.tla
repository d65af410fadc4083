----------------------- MODULE IndependentPartsProofs -----------------------
(***************************************************************************)
(* The parts that share no state with any other.  The properties of        *)
(* SchemaRegistry hold for every set of registries, descriptors and        *)
(* payloads and any number of offers, those of NativeServerRole for any    *)
(* set of accept() calls, those of TransportHosts for any providers,       *)
(* routes, policies, measurements and connect() calls, those of            *)
(* MetadataChannel for any messages and any bytes of a peer, and those of  *)
(* SubmitRequests for any tensors and typed payloads.                      *)
(***************************************************************************)
EXTENDS IndependentParts, FiniteSetTheorems, FunctionTheorems, SequenceTheorems, TLAPS

\* What install() leaves: offered descriptors of standard profiles, one for each key,
\* and as long as nothing was invalidated or in conflict one like each that was offered.
Standard(d) == d.profileId \in StandardProfiles
Installed(r) == \A d \in installed[r] : d \in offered[r] /\ Standard(d)
OneForEachKey(r) == \A d, e \in installed[r] : Key(d) = Key(e) => d = e
Represents(e, d) == Key(e) = Key(d) /\ SameSchema(e, d)
NothingMissing(r) ==
  ~forgotten[r] /\ conflicts[r] = {} =>
    \A d \in offered[r] : Standard(d) => \E e \in installed[r] : Represents(e, d)

RegistryType ==
  /\ DOMAIN installed = Registries /\ installed = [r \in Registries |-> installed[r]]
  /\ DOMAIN offered = Registries /\ offered = [r \in Registries |-> offered[r]]
  /\ DOMAIN conflicts = Registries /\ conflicts = [r \in Registries |-> conflicts[r]]
  /\ DOMAIN forgotten = Registries /\ forgotten = [r \in Registries |-> forgotten[r]]

RegistryInv ==
  /\ RegistryType
  /\ \A r \in Registries : Installed(r) /\ OneForEachKey(r) /\ NothingMissing(r)

LEMMA InitRegistry == Init => RegistryInv
BY DEF Init, RegistryInv, RegistryType, Installed, OneForEachKey, NothingMissing

\* The registry that install() works on keeps the invariant.
LEMMA InstallKeeps ==
  ASSUME RegistryInv, NEW r \in Registries, NEW d \in Descriptors, Install(r, d)
  PROVE  RegistryInv'
<1> USE DEF RegistryInv
<1>1. RegistryType'
  BY DEF RegistryType, Install
<1>2. ASSUME NEW s \in Registries, s # r
      PROVE  /\ installed'[s] = installed[s] /\ offered'[s] = offered[s]
             /\ conflicts'[s] = conflicts[s] /\ forgotten'[s] = forgotten[s]
  BY <1>2 DEF RegistryType, Install
<1>3. /\ offered'[r] = offered[r] \cup {d} /\ forgotten'[r] = forgotten[r]
      /\ installed'[r] = IF Standard(d) /\ Existing(r, Key(d)) = {} THEN installed[r] \cup {d} ELSE installed[r]
      /\ conflicts'[r] = IF Standard(d) /\ \E e \in Existing(r, Key(d)) : ~SameSchema(d, e)
                         THEN conflicts[r] \cup {Key(d)} ELSE conflicts[r]
  BY DEF RegistryType, Install, Standard
<1>4. Installed(r)'
  BY <1>3 DEF Installed, Standard
<1>5. OneForEachKey(r)'
  BY <1>3 DEF OneForEachKey, Existing
<1>6. NothingMissing(r)'
  <2> SUFFICES ASSUME ~forgotten'[r], conflicts'[r] = {},
                      NEW c \in offered'[r], Standard(c)
               PROVE  \E e \in installed'[r] : Represents(e, c)
    BY DEF NothingMissing, Represents, Standard
  <2>1. ~forgotten[r] /\ conflicts[r] = {} /\ installed[r] \subseteq installed'[r]
    BY <1>3
  <2>2. CASE c \in offered[r]
    BY <2>1, <2>2 DEF NothingMissing
  <2>3. CASE c = d /\ Existing(r, Key(d)) = {}
    BY <1>3, <2>3 DEF Represents, SameSchema
  <2>4. CASE c = d /\ Existing(r, Key(d)) # {}
    <3>1. PICK e \in Existing(r, Key(d)) : TRUE
      BY <2>4
    <3>2. SameSchema(d, e)
      BY <1>3, <2>4, <3>1
    <3> QED BY <2>1, <2>4, <3>1, <3>2 DEF Existing, Represents, SameSchema
  <2> QED BY <1>3, <2>2, <2>3, <2>4
<1>7. ASSUME NEW s \in Registries, s # r
      PROVE  (Installed(s) /\ OneForEachKey(s) /\ NothingMissing(s))'
  BY <1>2, <1>7 DEF Installed, OneForEachKey, NothingMissing
<1> QED BY <1>1, <1>4, <1>5, <1>6, <1>7

LEMMA InvalidateKeeps ==
  ASSUME RegistryInv, NEW r \in Registries, NEW key, Invalidate(r, key)
  PROVE  RegistryInv'
<1> USE DEF RegistryInv
<1>1. RegistryType'
  BY DEF RegistryType, Invalidate
<1>2. ASSUME NEW s \in Registries
      PROVE  /\ installed'[s] \subseteq installed[s] /\ offered'[s] = offered[s]
             /\ conflicts'[s] = conflicts[s]
             /\ s # r => installed'[s] = installed[s] /\ forgotten'[s] = forgotten[s]
             /\ s = r => forgotten'[s]
  BY DEF RegistryType, Invalidate
<1>3. ASSUME NEW s \in Registries
      PROVE  (Installed(s) /\ OneForEachKey(s) /\ NothingMissing(s))'
  BY <1>2 DEF Installed, OneForEachKey, NothingMissing
<1> QED BY <1>1, <1>3

LEMMA StepKeeps == RegistryInv /\ [Next]_vars => RegistryInv'
<1>1. ASSUME RegistryInv, Next PROVE RegistryInv'
  BY <1>1, InstallKeeps, InvalidateKeeps DEF Next
<1>2. ASSUME RegistryInv, UNCHANGED vars PROVE RegistryInv'
  BY <1>2 DEF vars, RegistryInv, RegistryType, Installed, OneForEachKey, NothingMissing
<1> QED BY <1>1, <1>2

\* The inductive invariant behind both theorems holds of every execution of the
\* registries (NnrpSchemaRegistry.install and invalidate).
THEOREM RegistryInvariance == Spec => []RegistryInv
BY InitRegistry, StepKeeps, PTL DEF Spec

-----------------------------------------------------------------------------
\* What one of two registries with the same offers has, the other has too.
LEMMA Transfer ==
  ASSUME RegistryInv, NEW r \in Registries, NEW s \in Registries,
         offered[r] = offered[s], ~forgotten[s], conflicts[s] = {},
         NEW d \in installed[r]
  PROVE  \E e \in installed[s] :
           e.schemaId = d.schemaId /\ e.schemaVersion = d.schemaVersion /\ e.profileId = d.profileId
<1>1. d \in offered[s] /\ Standard(d)
  BY DEF RegistryInv, Installed
<1>2. PICK e \in installed[s] : Represents(e, d)
  BY <1>1 DEF RegistryInv, NothingMissing
<1> QED BY <1>2 DEF Represents, SameSchema, Key

LEMMA SameAnswers == RegistryInv => SameOffersSameAnswers
<1> SUFFICES ASSUME RegistryInv, NEW r \in Registries, NEW s \in Registries,
                    offered[r] = offered[s], ~forgotten[r], ~forgotten[s],
                    conflicts[r] = {}, conflicts[s] = {}, NEW p \in Payloads
             PROVE  Binding(r, p) = Binding(s, p)
  BY DEF SameOffersSameAnswers
<1> DEFINE There(x, d) == \E e \in installed[x] :
             e.schemaId = d.schemaId /\ e.schemaVersion = d.schemaVersion /\ e.profileId = d.profileId
<1>1. \A d \in installed[r] : There(s, d)
  BY Transfer
<1>2. \A d \in installed[s] : There(r, d)
  BY Transfer
<1>3. LookupFailure(r, p.schemaId) = LookupFailure(s, p.schemaId)
  BY <1>1, <1>2 DEF LookupFailure
<1>4. (Existing(r, Key(p)) = {}) <=> (Existing(s, Key(p)) = {})
  BY <1>1, <1>2 DEF Existing, Key
<1>5. (\E e \in Existing(r, Key(p)) : e.profileId = p.profileId)
        <=> (\E e \in Existing(s, Key(p)) : e.profileId = p.profileId)
  BY <1>1, <1>2 DEF Existing, Key
<1> QED BY <1>3, <1>4, <1>5 DEF Binding

\* Two sides that were offered the same descriptors, however ordered, and saw no conflict
\* answer every typed payload alike (validateBinding), whatever the descriptors.
THEOREM SameAnswersTheorem == Spec => []SameOffersSameAnswers
BY RegistryInvariance, SameAnswers, PTL

LEMMA FinalStep ==
  RegistryInv /\ [Next]_vars =>
    [\A r \in Registries : \A d \in installed[r], e \in installed'[r] : Key(d) = Key(e) => d = e]_vars
<1> SUFFICES ASSUME RegistryInv, Next, NEW r \in Registries,
                    NEW d \in installed[r], NEW e \in installed'[r], Key(d) = Key(e)
             PROVE  d = e
  OBVIOUS
<1>1. CASE e \in installed[r]
  BY <1>1 DEF RegistryInv, OneForEachKey
<1>2. CASE e \notin installed[r]
  <2>1. PICK s \in Registries, c \in Descriptors : Install(s, c) \/ Invalidate(s, Key(c))
    BY DEF Next
  <2>2. CASE Install(s, c)
    BY <1>2, <2>2 DEF Install, Existing, RegistryInv, RegistryType
  <2>3. CASE Invalidate(s, Key(c))
    BY <1>2, <2>3 DEF Invalidate, RegistryInv, RegistryType
  <2> QED BY <2>1, <2>2, <2>3
<1> QED BY <1>1, <1>2

\* No step of any execution puts another descriptor in the place of an installed one: a
\* version is final until it is invalidated (install).
THEOREM VersionsAreFinalTheorem == Spec => VersionsAreFinal
BY RegistryInvariance, FinalStep, PTL DEF Spec, VersionsAreFinal

-----------------------------------------------------------------------------
(***************************************************************************)
(* Native server roles                                                     *)
(***************************************************************************)
TypeOK ==
  /\ adoption \in {"none", "binding", "adopted", "failed"}
  /\ registry \in BOOLEAN /\ listenerClosed \in BOOLEAN /\ closed \in BOOLEAN
  /\ callback \in {"none", "registered", "unregistered"}
  /\ native \in {"listening", "bound", "closed"}
  /\ accepts \subseteq Accepts
  /\ accept \in [Accepts -> {"idle", "waiting", "woken", "returned", "failed"}]
  /\ answer \in [Accepts -> {"none", "accepted", "timeout", "error"}]
  /\ ticket \in [Accepts -> {"none", "begun", "ready", "claimed", "released"}]
  /\ roleClosing \in {"no", "closing", "closed", "failed"}

Underway == {"waiting", "woken"}
Unsettled == {"begun", "ready"}

\* A call in the table is under way, and its ticket is not settled unless the library
\* has refused a release.
TableInv ==
  \A c \in accepts : accept[c] \in Underway /\ (refused = {} => ticket[c] \in Unsettled)

\* A ticket that is not settled is in the table, or its release was refused.
TicketInv ==
  \A c \in Accepts : ticket[c] \in Unsettled => c \in accepts \cup refused

\* A role that closed its tickets has an empty table.
CloseInv ==
  /\ roleClosing # "no" => closed /\ adoption = "adopted"
  /\ closed => roleClosing # "no"
  /\ roleClosing \in {"closing", "closed"} => accepts = {}

\* The callback is registered before the library knows the server.
CallbackInv ==
  /\ adoption \in {"none", "binding"} => native # "bound" /\ callback # "unregistered"
  /\ adoption = "none" => callback = "none"
  /\ CallbackLivesWithServer

RoleInv == TypeOK /\ TableInv /\ TicketInv /\ CloseInv /\ CallbackInv /\ NoneSettlesTwice

LEMMA InitRole == RoleInit => RoleInv
BY DEF RoleInit, RoleInv, TypeOK, TableInv, TicketInv, CloseInv, CallbackInv, CallbackLivesWithServer,
       NoneSettlesTwice, Unsettled

\* The steps that touch no ticket.
LEMMA AdoptionKeeps ==
  ASSUME RoleInv, Adopt \/ BindReturns \/ CloseListener
  PROVE  RoleInv'
<1> USE DEF RoleInv
<1>1. UNCHANGED <<accepts, accept, ticket, refused, again, closed, roleClosing>>
  BY DEF Adopt, BindReturns, CloseListener, closeVars
<1>2. TypeOK'
  BY DEF TypeOK, Adopt, BindReturns, CloseListener, closeVars, Unregistered
<1>3. TableInv' /\ TicketInv' /\ NoneSettlesTwice'
  BY <1>1 DEF TableInv, TicketInv, NoneSettlesTwice
<1>4. adoption # "adopted"  =>  roleClosing = "no"
  BY DEF CloseInv
<1>5. CloseInv'
  BY <1>1, <1>4 DEF CloseInv, Adopt, BindReturns, CloseListener
<1>6. CallbackInv'
  <2>1. CASE Adopt
    BY <1>1, <2>1 DEF CallbackInv, CallbackLivesWithServer, Adopt, CloseInv
  <2>2. CASE BindReturns
    BY <1>1, <1>4, <2>2 DEF CallbackInv, CallbackLivesWithServer, BindReturns, Unregistered
  <2>3. CASE CloseListener
    BY <1>1, <1>4, <2>3 DEF CallbackInv, CallbackLivesWithServer, CloseListener, TypeOK
  <2> QED BY <2>1, <2>2, <2>3
<1> QED BY <1>2, <1>3, <1>5, <1>6

\* The steps of one call.
LEMMA AcceptKeeps ==
  ASSUME RoleInv, NEW c \in Accepts, AcceptStep(c)
  PROVE  RoleInv'
<1> USE DEF RoleInv
<1>1. UNCHANGED <<adoption, registry, callback, native, listenerClosed, closed, roleClosing>>
  BY DEF AcceptStep, Accept, Begins, WaitEnds, PollsAgain, Claims, Fails, closeVars, adoptionVars
<1>2. CallbackInv'
  BY <1>1 DEF CallbackInv, CallbackLivesWithServer
<1>3. CASE Accept(c)
  <2> USE <1>3 DEF Accept, Begins
  <2>1. roleClosing = "no"
    BY DEF CloseInv, TypeOK
  <2>2. c \notin accepts
    BY DEF TableInv, Underway
  <2>3. TypeOK'
    BY <1>1 DEF TypeOK
  <2>4. TableInv' /\ TicketInv'
    BY <2>2 DEF TableInv, TicketInv, TypeOK, Underway, Unsettled
  <2>5. CloseInv' /\ NoneSettlesTwice'
    BY <1>1, <2>1 DEF CloseInv, NoneSettlesTwice
  <2> QED BY <1>2, <2>3, <2>4, <2>5
<1>4. CASE WaitEnds(c) \/ PollsAgain(c)
  <2> USE <1>4 DEF WaitEnds, PollsAgain
  <2>1. TypeOK'
    BY <1>1 DEF TypeOK
  <2>2. TableInv' /\ TicketInv'
    BY DEF TableInv, TicketInv, TypeOK, Underway, Unsettled
  <2>3. CloseInv' /\ NoneSettlesTwice'
    BY <1>1 DEF CloseInv, NoneSettlesTwice
  <2> QED BY <1>2, <2>1, <2>2, <2>3
<1>5. CASE Claims(c)
  <2> USE <1>5 DEF Claims
  <2>1. TypeOK'
    BY <1>1 DEF TypeOK
  <2>2. TableInv' /\ TicketInv'
    BY DEF TableInv, TicketInv, TypeOK, Underway, Unsettled
  <2>3. CloseInv' /\ NoneSettlesTwice'
    BY <1>1 DEF CloseInv, NoneSettlesTwice
  <2> QED BY <1>2, <2>1, <2>2, <2>3
<1>6. CASE Fails(c)
  <2> USE <1>6 DEF Fails
  <2>1. PICK failing \in SUBSET {c} : Release({c} \cap accepts, failing)
    OBVIOUS
  <2>2. TypeOK'
    BY <1>1, <2>1 DEF TypeOK, Release
  <2>3. CASE c \in accepts
    <3>1. /\ ticket' = [d \in Accepts |-> IF d \in {c} \ failing /\ ticket[d] # "claimed" THEN "released" ELSE ticket[d]]
          /\ refused' = refused \cup failing
      BY <2>1, <2>3 DEF Release
    <3>2. TableInv' /\ TicketInv'
      BY <3>1 DEF TableInv, TicketInv, TypeOK, Underway, Unsettled
    <3>3. refused' = {} => again' = {}
      <4> SUFFICES ASSUME refused' = {} PROVE again' = {}
        OBVIOUS
      <4>1. again = {} /\ ticket[c] \in Unsettled
        BY <2>3, <3>1 DEF NoneSettlesTwice, TableInv
      <4> QED BY <2>1, <2>3, <4>1 DEF Release, Settled, Unsettled
    <3> QED BY <1>1, <1>2, <2>2, <3>2, <3>3 DEF CloseInv, NoneSettlesTwice
  <2>4. CASE c \notin accepts
    <3>1. ticket' = ticket /\ again' = again /\ refused' = refused
      BY <2>1, <2>4 DEF Release, TypeOK
    <3>2. TableInv' /\ TicketInv'
      BY <2>4, <3>1 DEF TableInv, TicketInv, TypeOK, Underway
    <3> QED BY <1>1, <1>2, <2>2, <3>1, <3>2 DEF CloseInv, NoneSettlesTwice
  <2> QED BY <2>3, <2>4
<1> QED BY <1>3, <1>4, <1>5, <1>6 DEF AcceptStep

\* close() and its continuation.
LEMMA CloseKeeps ==
  ASSUME RoleInv, CloseRole \/ CloseReturns
  PROVE  RoleInv'
<1> USE DEF RoleInv
<1>1. CASE CloseReturns
  <2> USE <1>1 DEF CloseReturns, adoptionVars
  <2>1. TypeOK' /\ TableInv' /\ TicketInv' /\ NoneSettlesTwice'
    BY DEF TypeOK, TableInv, TicketInv, NoneSettlesTwice, Unregistered
  <2>2. CloseInv'
    BY DEF CloseInv
  <2>3. CallbackInv'
    BY DEF CallbackInv, CallbackLivesWithServer, CloseInv, Unregistered
  <2> QED BY <2>1, <2>2, <2>3
<1>2. CASE CloseRole
  <2> USE <1>2 DEF CloseRole, adoptionVars
  <2>1. roleClosing = "no"
    BY DEF CloseInv
  <2>2. CallbackInv'
    BY <2>1 DEF CallbackInv, CallbackLivesWithServer
  <2>3. PICK calls \in SUBSET accepts, failing \in SUBSET accepts :
          /\ Release(calls, failing)
          /\ \/ calls = accepts /\ failing = {} /\ accepts' = {} /\ roleClosing' = "closing"
             \/ failing # {} /\ failing \subseteq calls /\ accepts' = accepts /\ roleClosing' = "failed"
    <3>1. CASE Release(accepts, {}) /\ accepts' = {} /\ roleClosing' = "closing"
      BY <3>1
    <3>2. ASSUME NEW c \in accepts, NEW before \in SUBSET (accepts \ {c}),
                 Release(before \cup {c}, {c}), roleClosing' = "failed", accepts' = accepts
          PROVE  \E calls \in SUBSET accepts, failing \in SUBSET accepts :
                   /\ Release(calls, failing)
                   /\ failing # {} /\ failing \subseteq calls /\ accepts' = accepts /\ roleClosing' = "failed"
      <4> WITNESS before \cup {c} \in SUBSET accepts, {c} \in SUBSET accepts
      <4> QED BY <3>2
    <3> QED BY <3>1, <3>2
  <2>4. /\ ticket' = [d \in Accepts |-> IF d \in calls \ failing /\ ticket[d] # "claimed" THEN "released" ELSE ticket[d]]
        /\ again' = again \cup {d \in calls : ticket[d] \in Settled}
        /\ refused' = refused \cup (calls \cap failing)
    BY <2>3 DEF Release
  <2>5. TypeOK'
    BY <2>3, <2>4 DEF TypeOK
  <2>6. TableInv' /\ TicketInv'
    <3>1. CASE calls = accepts /\ failing = {} /\ accepts' = {}
      <4>1. ASSUME NEW d \in Accepts, ticket'[d] \in Unsettled
            PROVE  d \in accepts' \cup refused'
        <5>1. ticket'[d] = IF d \in accepts /\ ticket[d] # "claimed" THEN "released" ELSE ticket[d]
          BY <2>4, <3>1
        <5>2. d \notin accepts /\ ticket[d] \in Unsettled
          BY <4>1, <5>1 DEF Unsettled
        <5> QED BY <2>4, <5>2 DEF TicketInv
      <4> QED BY <3>1, <4>1 DEF TableInv, TicketInv
    <3>2. CASE failing # {} /\ failing \subseteq calls /\ accepts' = accepts
      <4>1. refused' # {} /\ refused \subseteq refused'
        BY <2>4, <3>2
      <4>2. \A d \in Accepts : ticket'[d] \in Unsettled => ticket[d] \in Unsettled
        BY <2>4 DEF Unsettled, TypeOK
      <4> QED BY <3>2, <4>1, <4>2 DEF TableInv, TicketInv
    <3> QED BY <2>3, <3>1, <3>2
  <2>7. CloseInv'
    BY <2>3 DEF CloseInv
  <2>8. NoneSettlesTwice'
    <3> SUFFICES ASSUME refused' = {} PROVE again' = {}
      BY DEF NoneSettlesTwice
    <3>1. refused = {} /\ again = {}
      BY <2>4 DEF NoneSettlesTwice
    <3>2. \A d \in calls : ticket[d] \notin Settled
      BY <2>3, <3>1 DEF TableInv, Settled, Unsettled
    <3> QED BY <2>4, <3>1, <3>2
  <2> QED BY <2>2, <2>5, <2>6, <2>7, <2>8
<1> QED BY <1>1, <1>2

LEMMA StepRole == RoleInv /\ [RoleNext]_roleVars => RoleInv'
<1> SUFFICES ASSUME RoleInv, [RoleNext]_roleVars PROVE RoleInv'
  OBVIOUS
<1>1. CASE UNCHANGED roleVars
  BY <1>1 DEF roleVars, closeVars, RoleInv, TypeOK, TableInv, TicketInv, CloseInv, CallbackInv,
              CallbackLivesWithServer, NoneSettlesTwice
<1>2. CASE RoleNext
  BY <1>2, AdoptionKeeps, AcceptKeeps, CloseKeeps DEF RoleNext
<1> QED BY <1>1, <1>2

\* The invariant holds of every execution.
THEOREM RoleInvariance == RoleSpec => []RoleInv
BY InitRole, StepRole, PTL DEF RoleSpec

\* accept() and close() settle each ticket, and once, unless the library refuses.
THEOREM TicketsSettleOnceTheorem == RoleSpec => []TicketsSettleOnce
<1>1. RoleInv => NoneSettlesTwice
  BY DEF RoleInv
<1>2. RoleInv => NoTicketLeft
  <2> SUFFICES ASSUME RoleInv, NEW c \in Accepts \ refused, ticket[c] \in Unsettled,
                      accept[c] \in {"returned", "failed"} \/ roleClosing \in {"closing", "closed"}
               PROVE  FALSE
    BY DEF NoTicketLeft, Unsettled
  <2>1. c \in accepts
    BY DEF RoleInv, TicketInv
  <2> QED BY <2>1 DEF RoleInv, TableInv, CloseInv, Underway
<1>3. RoleInv => TicketsSettleOnce
  BY <1>1, <1>2 DEF TicketsSettleOnce
<1> QED BY <1>3, RoleInvariance, PTL

\* The policy callback lives exactly as long as the library can call it.
THEOREM CallbackTheorem == RoleSpec => []CallbackLivesWithServer
<1>1. RoleInv => CallbackLivesWithServer
  BY DEF RoleInv, CallbackInv
<1> QED BY <1>1, RoleInvariance, PTL

-----------------------------------------------------------------------------
(***************************************************************************)
(* TransportHosts, for any providers, routes, policies and connect() calls.*)
(***************************************************************************)

\* A call that has not opened a carrier, or has failed, has no open one.
CarrierInv ==
  /\ call = [k \in Connects |-> call[k]] /\ carrier = [k \in Connects |-> carrier[k]]
  /\ \A k \in Connects :
       call[k] \in {"idle", "probing", "connecting", "failed"} => carrier[k] \in {"none", "closed"}

AllIn(states) == \A k \in Hosts!Kinds : listener[k] \in states
OneOpen == \E k \in Hosts!Kinds :
             listener[k] = "open" /\ \A j \in Hosts!Kinds \ {k} : listener[j] \in {"none", "adopted"}

\* While the listeners are opened at most the last one is not adopted; only a server
\* opens any, and its close ends after the opening has.
ListenerInv ==
  /\ listener = [k \in Hosts!Kinds |-> listener[k]]
  /\ opening \in {"idle", "listening", "adopting", "open", "failed"}
  /\ opening = "idle" => AllIn({"none"})
  /\ opening = "listening" => AllIn({"none", "adopted"})
  /\ opening = "adopting" => OneOpen
  /\ opening = "open" => AllIn({"none", "adopted", "closed"})
  /\ opening = "failed" => AllIn({"none", "closed"})
  /\ opening = "open" /\ closing # "closed" =>
       \A p \in Hosts!ServerProviders : listener[p.kind] = "adopted"
  /\ closing \in {"open", "closing", "closed"}
  /\ opening # "idle" => host.role = "server"
  /\ host.role = "server" /\ closing # "open" => opening # "idle"
  /\ host.role = "server" /\ closing = "closed" =>
       opening \in {"open", "failed"} /\ AllIn({"none", "closed"})

HostInv == host \in Configurations /\ CarrierInv /\ ListenerInv

LEMMA InitHost == Hosts!Init => HostInv
BY DEF Hosts!Init, HostInv, CarrierInv, ListenerInv, AllIn, OneOpen

LEMMA ProviderKinds ==
  ASSUME host \in Configurations
  PROVE  \A p \in Hosts!ServerProviders : p.kind \in Hosts!Kinds
BY HostsAssumption DEF Hosts!WellFormed, Hosts!ServerProviders

\* The steps of the client.
LEMMA CarrierStep ==
  ASSUME CarrierInv, [Hosts!Next]_hostVars
  PROVE  CarrierInv'
<1> USE DEF CarrierInv, Hosts!Goes, Hosts!ServerStays, Hosts!clientVars
<1>1. ASSUME NEW k \in Connects, Hosts!Ask(k) PROVE CarrierInv'
  BY <1>1 DEF Hosts!Ask
<1>2. ASSUME NEW k \in Connects, Hosts!Connect(k) PROVE CarrierInv'
  BY <1>2 DEF Hosts!Connect
<1>3. ASSUME NEW k \in Connects, NEW kind \in Hosts!Kinds, Hosts!ProbeSettles(k, kind) PROVE CarrierInv'
  BY <1>3 DEF Hosts!ProbeSettles
<1>4. ASSUME NEW k \in Connects, Hosts!Select(k) PROVE CarrierInv'
  BY <1>4 DEF Hosts!Select
<1>5. ASSUME NEW k \in Connects, Hosts!CarrierOpens(k) PROVE CarrierInv'
  BY <1>5 DEF Hosts!CarrierOpens
<1>6. ASSUME NEW k \in Connects, Hosts!CarrierFails(k) PROVE CarrierInv'
  BY <1>6 DEF Hosts!CarrierFails
<1>7. ASSUME NEW k \in Connects, Hosts!Adopts(k) PROVE CarrierInv'
  BY <1>7 DEF Hosts!Adopts
<1>8. ASSUME NEW k \in Connects, Hosts!AdoptionFails(k) PROVE CarrierInv'
  BY <1>8 DEF Hosts!AdoptionFails
<1>9. CASE Hosts!CloseConnection
  BY <1>9 DEF Hosts!CloseConnection
<1>10. CASE \/ Hosts!CloseClient \/ Hosts!Listen \/ Hosts!ListenerOpens \/ Hosts!ListenerFails
            \/ Hosts!ListenerAdopts \/ Hosts!ListenerRefuses \/ Hosts!CloseServer \/ Hosts!CloseListeners
  BY <1>10 DEF Hosts!CloseClient, Hosts!Listen, Hosts!ListenerOpens, Hosts!ListenerFails,
               Hosts!ListenerAdopts, Hosts!ListenerRefuses, Hosts!CloseServer, Hosts!CloseListeners
<1>11. CASE UNCHANGED hostVars
  BY <1>11 DEF hostVars
<1> QED
  BY <1>1, <1>2, <1>3, <1>4, <1>5, <1>6, <1>7, <1>8, <1>9, <1>10, <1>11 DEF Hosts!Next, Hosts!ClientStep

\* The steps of the server: a rollback leaves nothing open.
LEMMA ListenerStep ==
  ASSUME HostInv, [Hosts!Next]_hostVars
  PROVE  ListenerInv' /\ host' = host
<1> DEFINE Done == ListenerInv' /\ host' = host
<1>0. \A p \in Hosts!ServerProviders : p.kind \in Hosts!Kinds
  BY ProviderKinds DEF HostInv
<1> DEFINE Quiet ==
      /\ UNCHANGED <<host, opening, listener>>
      /\ closing' = closing \/ (host.role # "server" /\ closing' \in {"closing", "closed"})
<1>1. ASSUME Quiet PROVE Done
  <2>1. Hosts!ServerProviders' = Hosts!ServerProviders
    BY <1>1 DEF Hosts!ServerProviders, Hosts!Allowed
  <2>2. CASE closing' = closing
    BY <1>1, <2>1, <2>2 DEF HostInv, ListenerInv, AllIn, OneOpen
  <2>3. CASE host.role # "server" /\ closing' \in {"closing", "closed"}
    <3>1. opening = "idle"
      BY <2>3 DEF HostInv, ListenerInv
    <3> QED
      BY <1>1, <2>1, <2>3, <3>1 DEF HostInv, ListenerInv, AllIn, OneOpen
  <2> QED
    BY <1>1, <2>2, <2>3
<1>2. CASE \E k \in Connects : Hosts!ClientStep(k)
  <2>1. UNCHANGED <<host, opening, listener, closing>>
    BY <1>2 DEF Hosts!ClientStep, Hosts!Ask, Hosts!Connect, Hosts!Select, Hosts!CarrierOpens,
                Hosts!CarrierFails, Hosts!Adopts, Hosts!AdoptionFails, Hosts!ProbeSettles,
                Hosts!ClientStays, Hosts!serverVars
  <2> QED
    BY <1>1, <2>1
<1>3. CASE Hosts!CloseClient \/ Hosts!CloseConnection
  BY <1>1, <1>3 DEF Hosts!CloseClient, Hosts!CloseConnection, Hosts!serverVars
<1>4. CASE UNCHANGED hostVars
  BY <1>1, <1>4 DEF hostVars
<1>5. ASSUME host' = host PROVE Hosts!ServerProviders' = Hosts!ServerProviders
  BY <1>5 DEF Hosts!ServerProviders, Hosts!Allowed
<1> USE DEF HostInv, ListenerInv, AllIn, OneOpen, Hosts!ServerStays
<1>6. CASE Hosts!Listen
  BY <1>5, <1>6 DEF Hosts!Listen
<1>7. CASE Hosts!ListenerOpens
  BY <1>0, <1>5, <1>7 DEF Hosts!ListenerOpens, Hosts!Remaining
<1>8. CASE Hosts!ListenerFails
  BY <1>5, <1>8 DEF Hosts!ListenerFails, Hosts!RolledBack
<1>9. CASE Hosts!ListenerAdopts
  BY <1>0, <1>5, <1>9 DEF Hosts!ListenerAdopts, Hosts!Remaining
<1>10. CASE Hosts!ListenerRefuses
  BY <1>5, <1>10 DEF Hosts!ListenerRefuses, Hosts!RolledBack
<1>11. CASE Hosts!CloseServer
  BY <1>5, <1>11 DEF Hosts!CloseServer, Hosts!serverVars
<1>12. CASE Hosts!CloseListeners
  BY <1>5, <1>12 DEF Hosts!CloseListeners, Hosts!RolledBack
<1> QED
  BY <1>2, <1>3, <1>4, <1>6, <1>7, <1>8, <1>9, <1>10, <1>11, <1>12 DEF Hosts!Next

LEMMA HostStep == HostInv /\ [Hosts!Next]_hostVars => HostInv'
BY CarrierStep, ListenerStep DEF HostInv

\* Only the part that moves takes steps.
LEMMA HostsAlone ==
  ASSUME [PartsNext]_<<part, registryVars, channelVars, submitVars, hostVars, roleVars>>
  PROVE  part' = part /\ (part = "hosts" => [Hosts!Next]_hostVars)
BY DEF PartsNext

THEOREM HostInvariance == PartsSpec => [](part = "hosts" => HostInv)
<1>1. PartsInit => (part = "hosts" => HostInv)
  BY InitHost DEF PartsInit
<1>2. (part = "hosts" => HostInv) /\ [PartsNext]_<<part, registryVars, channelVars, submitVars, hostVars, roleVars>>
        => (part = "hosts" => HostInv)'
  BY HostsAlone, HostStep
<1> QED BY <1>1, <1>2, PTL DEF PartsSpec

\* A connect() that fails leaves no carrier, a listen() that fails no listener, one that
\* succeeds listens on every route, and after close() nothing listens.
THEOREM NothingHalfOpenTheorem == PartsSpec => []NothingHalfOpen
<1>1. HostInv => Hosts!NothingHalfOpen
  BY DEF HostInv, CarrierInv, ListenerInv, AllIn, Hosts!NothingHalfOpen,
         Hosts!FailedConnectLeavesNothing, Hosts!ListensOnAllOrNone, Hosts!ClosedServerIsSilent
<1>2. (part = "hosts" => HostInv) => NothingHalfOpen
  BY <1>1 DEF NothingHalfOpen
<1> QED BY <1>2, HostInvariance, PTL

-----------------------------------------------------------------------------
(***************************************************************************)
(* The evidence a connect() composes, and what selectTransport makes of it.*)
(***************************************************************************)

\* The instance counts as the library does.
LEMMA SameCardinality == ASSUME NEW S PROVE Hosts!Cardinality(S) = Cardinality(S)
BY DEF Cardinality, Hosts!Cardinality

\* An arrangement of a finite set has each element once.
LEMMA Arranged ==
  ASSUME NEW S, IsFiniteSet(S), NEW s \in Hosts!SetToSeqs(S)
  PROVE  /\ Cardinality(S) \in Nat
         /\ s \in [1 .. Cardinality(S) -> S]
         /\ s \in Seq(S) /\ Len(s) = Cardinality(S)
         /\ \A i, j \in DOMAIN s : s[i] = s[j] => i = j
         /\ \A x \in S : \E i \in DOMAIN s : s[i] = x
<1> DEFINE n == Cardinality(S)
<1>1. /\ s \in [1 .. n -> S]
      /\ \A i, j \in 1 .. n : i # j => s[i] # s[j]
  BY SameCardinality DEF Hosts!SetToSeqs
<1>2. n \in Nat /\ IsFiniteSet(1 .. n) /\ Cardinality(1 .. n) = n
  BY FS_CardinalityType, FS_Interval
<1> HIDE DEF n
<1>3. s \in Injection(1 .. n, S)
  BY <1>1, Fun_IsInj
<1>4. s \in Surjection(1 .. n, S)
  BY <1>2, <1>3, FS_Injection DEF n
<1>5. \A x \in S : \E i \in 1 .. n : s[i] = x
  BY <1>4 DEF Surjection
<1>6. s = [i \in 1 .. n |-> s[i]] /\ \A i \in 1 .. n : s[i] \in S
  BY <1>1
<1>7. s \in Seq(S)
  BY <1>2, <1>6, IsASeq
<1>8. Len(s) = n
  BY <1>1, <1>2, <1>7, LenProperties
<1> QED
  BY <1>1, <1>2, <1>5, <1>7, <1>8 DEF n

\* SetToSeq lists a finite set, each element once.
LEMMA Listed ==
  ASSUME NEW S, IsFiniteSet(S)
  PROVE  /\ Hosts!SetToSeq(S) \in Seq(S)
         /\ \A i, j \in DOMAIN Hosts!SetToSeq(S) : Hosts!SetToSeq(S)[i] = Hosts!SetToSeq(S)[j] => i = j
         /\ \A x \in S : \E i \in DOMAIN Hosts!SetToSeq(S) : Hosts!SetToSeq(S)[i] = x
<1> DEFINE n == Cardinality(S)
<1> DEFINE Once(f) == \A a, b \in DOMAIN f : f[a] = f[b] => a = b
<1>1. n \in Nat /\ ExistsBijection(1 .. n, S)
  BY FS_CardinalityType
<1> HIDE DEF n
<1>2. PICK g \in Bijection(1 .. n, S) : TRUE
  BY <1>1 DEF ExistsBijection
<1>3. g \in [1 .. n -> S] /\ Once(g)
  BY <1>2 DEF Bijection, Injection, IsInjective
<1>4. Hosts!SetToSeq(S) = CHOOSE f \in [1 .. n -> S] : Once(f)
  BY SameCardinality DEF Hosts!SetToSeq, Hosts!IsInjective, n
<1>5. Hosts!SetToSeq(S) \in [1 .. n -> S] /\ Once(Hosts!SetToSeq(S))
  BY <1>3, <1>4
<1>6. Hosts!SetToSeq(S) \in Hosts!SetToSeqs(S)
  BY <1>5, SameCardinality DEF Hosts!SetToSeqs, n
<1>7. \A x \in S : \E i \in DOMAIN Hosts!SetToSeq(S) : Hosts!SetToSeq(S)[i] = x
  BY <1>6, Arranged
<1>8. Hosts!SetToSeq(S) \in Seq(S)
  BY <1>1, <1>5, IsASeq
<1> QED
  BY <1>5, <1>7, <1>8

\* The elements of a sequence are finitely many.
LEMMA ElementsAreFinite ==
  ASSUME NEW T, NEW s \in Seq(T)
  PROVE  IsFiniteSet(Hosts!ToSet(s))
<1> DEFINE R == Hosts!ToSet(s)
<1>1. Len(s) \in Nat /\ s \in [1 .. Len(s) -> R] /\ \A x \in R : \E i \in 1 .. Len(s) : s[i] = x
  BY LenProperties DEF Hosts!ToSet
<1> HIDE DEF R
<1>2. s \in Surjection(1 .. Len(s), R)
  BY <1>1, Fun_IsSurj
<1>3. ExistsSurjection(1 .. Len(s), R)
  BY <1>2 DEF ExistsSurjection
<1> QED
  BY <1>1, <1>3, FS_NatSurjection DEF R

Findings == {Hosts!Failed} \cup {[state |-> "succeeded", metrics |-> m] : m \in Metrics}

\* What the probes of a connect() have found when it selects.
Finished(k) ==
  /\ DOMAIN probes[k] = IF Hosts!Several(Hosts!ProbeTargets) THEN Hosts!ProbeTargets ELSE {}
  /\ \A t \in DOMAIN probes[k] : probes[k][t] \in Findings

Missing == {Hosts!Uninstalled(k) : k \in DOMAIN host.routes \ Hosts!Installed}

\* The installed providers and one placeholder for each route without: no kind and no
\* id is there twice.
LEMMA DescriptorFacts ==
  ASSUME host \in Configurations
  PROVE  /\ Hosts!ClientDescriptors \in Seq(Hosts!ToSet(host.providers) \cup Missing)
         /\ \A i, j \in DOMAIN Hosts!ClientDescriptors :
              \/ Hosts!ClientDescriptors[i].kind = Hosts!ClientDescriptors[j].kind
              \/ Hosts!ClientDescriptors[i].id = Hosts!ClientDescriptors[j].id
              => i = j
         /\ \A p \in Hosts!ToSet(host.providers) :
              \E i \in DOMAIN Hosts!ClientDescriptors : Hosts!ClientDescriptors[i] = p
<1> DEFINE P == host.providers
           T == Hosts!ToSet(P)
           U == Hosts!SetToSeq(Missing)
           D == Hosts!ClientDescriptors
<1>1. /\ P \in Seq(T)
      /\ \A i, j \in DOMAIN P : P[i].kind = P[j].kind \/ P[i].id = P[j].id => i = j
      /\ \A p \in T : p.kind \in Hosts!Kinds /\ p.id \in 1 .. 100
      /\ DOMAIN host.routes \subseteq Hosts!Kinds
  BY HostsAssumption DEF Hosts!WellFormed
<1>2. \A k \in Hosts!Kinds : Hosts!Uninstalled(k).kind = k /\ Hosts!Uninstalled(k).id \in 101 .. 104
  BY DEF Hosts!Uninstalled, Hosts!Kinds, Hosts!transportNumericId
<1>3. \A k, m \in Hosts!Kinds : Hosts!Uninstalled(k).id = Hosts!Uninstalled(m).id => k = m
  BY DEF Hosts!Uninstalled, Hosts!Kinds, Hosts!transportNumericId
<1>4. IsFiniteSet(Missing)
  <2>1. IsFiniteSet({"quic"}) /\ IsFiniteSet({"quic", "tcp"}) /\ IsFiniteSet({"quic", "tcp", "ipc"})
    <3>1. IsFiniteSet({"quic"})
      BY FS_Singleton
    <3>2. IsFiniteSet({"quic"} \cup {"tcp"})
      BY <3>1, FS_AddElement
    <3>3. IsFiniteSet(({"quic"} \cup {"tcp"}) \cup {"ipc"})
      BY <3>2, FS_AddElement
    <3>4. {"quic"} \cup {"tcp"} = {"quic", "tcp"} /\ ({"quic"} \cup {"tcp"}) \cup {"ipc"} = {"quic", "tcp", "ipc"}
      OBVIOUS
    <3> QED
      BY <3>1, <3>2, <3>3, <3>4
  <2>2. IsFiniteSet({"quic", "tcp", "ipc"} \cup {"websocket"})
    BY <2>1, FS_AddElement
  <2>3. Hosts!Kinds = {"quic", "tcp", "ipc"} \cup {"websocket"}
    BY DEF Hosts!Kinds
  <2> DEFINE K == DOMAIN host.routes \ Hosts!Installed
             f == [k \in K |-> Hosts!Uninstalled(k)]
  <2>4. IsFiniteSet(Hosts!Kinds) /\ K \in SUBSET Hosts!Kinds
    BY <1>1, <2>2, <2>3
  <2>5. IsFiniteSet(K)
    BY <2>4, FS_Subset
  <2>6. f \in [K -> Missing] /\ \A x \in Missing : \E k \in K : f[k] = x
    BY DEF Missing
  <2> HIDE DEF K, f
  <2>7. f \in Surjection(K, Missing)
    BY <2>6, Fun_IsSurj
  <2> QED
    BY <2>5, <2>7, FS_Surjection
<1>5. U \in Seq(Missing) /\ \A i, j \in DOMAIN U : U[i] = U[j] => i = j
  BY <1>4, Listed
<1>6. D = P \o U
  BY DEF Hosts!ClientDescriptors, Missing
<1>7. \A i \in DOMAIN P : P[i] \in T /\ P[i].kind \in Hosts!Installed
  BY DEF Hosts!ToSet, Hosts!Installed
<1>8. \A x \in Missing : \E k \in Hosts!Kinds \ Hosts!Installed : x = Hosts!Uninstalled(k)
  BY <1>1 DEF Missing
<1>9. \A p \in T : \E i \in DOMAIN P : P[i] = p
  BY DEF Hosts!ToSet
<1> HIDE DEF P, T, U, D
<1>10. P \in Seq(T \cup Missing) /\ U \in Seq(T \cup Missing)
  BY <1>1, <1>5
<1>11. /\ Len(P) \in Nat /\ Len(U) \in Nat /\ DOMAIN P = 1 .. Len(P) /\ DOMAIN U = 1 .. Len(U)
       /\ D \in Seq(T \cup Missing) /\ Len(D) = Len(P) + Len(U) /\ DOMAIN D = 1 .. Len(P) + Len(U)
       /\ \A i \in DOMAIN D : D[i] = IF i <= Len(P) THEN P[i] ELSE U[i - Len(P)]
  BY <1>6, <1>10, LenProperties, ConcatProperties
<1>12. \A i \in DOMAIN U : U[i] \in Missing
  BY <1>5, ElementOfSeq, <1>11
<1>13. ASSUME NEW p \in T, NEW x \in Missing PROVE p.id # x.id
  <2>1. PICK k \in Hosts!Kinds : x = Hosts!Uninstalled(k)
    BY <1>8
  <2>2. p.id \in 1 .. 100 /\ x.id \in 101 .. 104
    BY <1>1, <1>2, <2>1
  <2> QED
    BY <2>2
<1>14. \A i \in DOMAIN P, x \in Missing : P[i].kind # x.kind
  BY <1>2, <1>7, <1>8
<1>15. \A x, y \in Missing : x.kind = y.kind \/ x.id = y.id => x = y
  BY <1>2, <1>3, <1>8
<1>16. ASSUME NEW i \in DOMAIN D, NEW j \in DOMAIN D, D[i].kind = D[j].kind \/ D[i].id = D[j].id
       PROVE  i = j
  <2>1. CASE i <= Len(P) /\ j <= Len(P)
    BY <1>1, <1>11, <1>16, <2>1 DEF P
  <2>2. CASE i <= Len(P) /\ j > Len(P)
    BY <1>7, <1>11, <1>12, <1>13, <1>14, <1>16, <2>2
  <2>3. CASE i > Len(P) /\ j <= Len(P)
    BY <1>7, <1>11, <1>12, <1>13, <1>14, <1>16, <2>3
  <2>4. CASE i > Len(P) /\ j > Len(P)
    <3>1. i - Len(P) \in DOMAIN U /\ j - Len(P) \in DOMAIN U /\ D[i] = U[i - Len(P)] /\ D[j] = U[j - Len(P)]
      BY <1>11, <2>4
    <3>2. i - Len(P) = j - Len(P)
      BY <1>5, <1>12, <1>15, <1>16, <3>1
    <3> QED
      BY <1>11, <3>2
  <2> QED
    BY <1>11, <2>1, <2>2, <2>3, <2>4
<1>17. \A p \in T : \E i \in DOMAIN D : D[i] = p
  <2> SUFFICES ASSUME NEW p \in T PROVE \E i \in DOMAIN D : D[i] = p
    OBVIOUS
  <2>1. PICK i \in DOMAIN P : P[i] = p
    BY <1>9
  <2>2. i \in DOMAIN D /\ D[i] = p
    BY <1>11, <2>1
  <2> QED
    BY <2>2
<1> QED
  BY <1>11, <1>16, <1>17 DEF P, T, D

Observation(k, p) == [kind |-> p.kind, id |-> p.id, state |-> probes[k][p.kind].state,
                      metrics |-> probes[k][p.kind].metrics]
Observed(k) == {p \in Hosts!ToSet(host.providers) : p.kind \in DOMAIN probes[k]}
Observations(k) == {Observation(k, p) : p \in Observed(k)}
DescriptorSet == Hosts!ToSet(Hosts!ClientDescriptors)

\* A descriptor has one kind and one id of its own.
LEMMA DescriptorsDiffer ==
  ASSUME host \in Configurations
  PROVE  /\ IsFiniteSet(DescriptorSet)
         /\ Hosts!ToSet(host.providers) \subseteq DescriptorSet
         /\ \A p, q \in DescriptorSet : p.kind = q.kind \/ p.id = q.id => p = q
         /\ \A p \in DescriptorSet : p \in Hosts!ToSet(host.providers) \/ p \in Missing
<1>1. Hosts!ClientDescriptors \in Seq(Hosts!ToSet(host.providers) \cup Missing)
  BY DescriptorFacts
<1>2. IsFiniteSet(DescriptorSet)
  BY <1>1, ElementsAreFinite DEF DescriptorSet
<1>3. Hosts!ToSet(host.providers) \subseteq DescriptorSet
  <2>1. \A p \in Hosts!ToSet(host.providers) :
          \E i \in DOMAIN Hosts!ClientDescriptors : Hosts!ClientDescriptors[i] = p
    BY DescriptorFacts
  <2>2. DescriptorSet = {Hosts!ClientDescriptors[i] : i \in DOMAIN Hosts!ClientDescriptors}
    BY DEF DescriptorSet, Hosts!ToSet
  <2> QED
    BY <2>1, <2>2
<1>4. \A p, q \in DescriptorSet : p.kind = q.kind \/ p.id = q.id => p = q
  BY DescriptorFacts DEF DescriptorSet, Hosts!ToSet
<1>5. \A i \in DOMAIN Hosts!ClientDescriptors :
        Hosts!ClientDescriptors[i] \in Hosts!ToSet(host.providers) \cup Missing
  BY <1>1, ElementOfSeq, LenProperties
<1>6. \A p \in DescriptorSet : p \in Hosts!ToSet(host.providers) \cup Missing
  BY <1>5 DEF DescriptorSet, Hosts!ToSet
<1> QED
  BY <1>2, <1>3, <1>4, <1>6

\* The observations are of providers, one each.
LEMMA ObservationFacts ==
  ASSUME host \in Configurations, NEW k \in Connects
  PROVE  LET o == Hosts!ClientEvidence(k).observations
         IN  /\ \A i, j \in DOMAIN o : o[i] = o[j] => i = j
             /\ Hosts!ToSet(o) = Observations(k)
<1> DEFINE f == [p \in Observed(k) |-> Observation(k, p)]
<1>1. host.providers \in Seq(Hosts!ToSet(host.providers))
  BY HostsAssumption DEF Hosts!WellFormed
<1>2. IsFiniteSet(Observed(k))
  <2>1. IsFiniteSet(Hosts!ToSet(host.providers))
    BY <1>1, ElementsAreFinite
  <2>2. Observed(k) \in SUBSET Hosts!ToSet(host.providers)
    BY DEF Observed
  <2> QED
    BY <2>1, <2>2, FS_Subset
<1>3. f \in [Observed(k) -> Observations(k)] /\ \A x \in Observations(k) : \E p \in Observed(k) : f[p] = x
  BY DEF Observations
<1> HIDE DEF f
<1>4. f \in Surjection(Observed(k), Observations(k))
  BY <1>3, Fun_IsSurj
<1>5. IsFiniteSet(Observations(k))
  BY <1>2, <1>4, FS_Surjection
<1>6. Hosts!ClientEvidence(k).observations = Hosts!SetToSeq(Observations(k))
  BY DEF Hosts!ClientEvidence, Observations, Observation, Observed
<1> DEFINE o == Hosts!SetToSeq(Observations(k))
<1>7. /\ o \in Seq(Observations(k))
      /\ \A i, j \in DOMAIN o : o[i] = o[j] => i = j
      /\ \A x \in Observations(k) : \E i \in DOMAIN o : o[i] = x
  BY <1>5, Listed
<1> HIDE DEF o
<1>8. \A i \in DOMAIN o : o[i] \in Observations(k)
  BY <1>7, ElementOfSeq, LenProperties
<1>9. Hosts!ToSet(o) = Observations(k)
  BY <1>7, <1>8 DEF Hosts!ToSet
<1> QED
  BY <1>6, <1>7, <1>9 DEF o

\* The evidence of a connect() is valid.
LEMMA EvidenceIsValid ==
  ASSUME host \in Configurations, NEW k \in Connects, Finished(k)
  PROVE  Hosts!ValidEvidence(Hosts!ClientDescriptors, Hosts!ClientEvidence(k))
<1> DEFINE D == Hosts!ClientDescriptors
           R == Hosts!ClientEvidence(k).readiness
           O == Hosts!ClientEvidence(k).observations
<1>1. /\ \A i, j \in DOMAIN D : D[i].kind = D[j].kind => i = j
      /\ \A i, j \in DOMAIN D : D[i].id = D[j].id => i = j
  BY DescriptorFacts
<1>2. DOMAIN R = DOMAIN D /\ \A i \in DOMAIN D : R[i].kind = D[i].kind /\ R[i].id = D[i].id
  BY DEF Hosts!ClientEvidence
<1>3. /\ \A i, j \in DOMAIN O : O[i] = O[j] => i = j
      /\ \A i \in DOMAIN O : O[i] \in Observations(k)
  BY ObservationFacts DEF Hosts!ToSet
<1>4. \A i \in DOMAIN O : \E p \in Observed(k) : O[i] = Observation(k, p)
  BY <1>3 DEF Observations
<1>5. \A p, q \in Observed(k) : p.kind = q.kind => p = q
  BY DescriptorsDiffer DEF Observed
<1>6. \A i, j \in DOMAIN O : O[i].kind = O[j].kind => i = j
  <2> SUFFICES ASSUME NEW i \in DOMAIN O, NEW j \in DOMAIN O, O[i].kind = O[j].kind PROVE i = j
    OBVIOUS
  <2>1. PICK p \in Observed(k) : O[i] = Observation(k, p)
    BY <1>4
  <2>2. PICK q \in Observed(k) : O[j] = Observation(k, q)
    BY <1>4
  <2>3. p = q
    BY <1>5, <2>1, <2>2 DEF Observation
  <2> QED
    BY <1>3, <2>1, <2>2, <2>3
<1>7. \A p \in Observed(k) : \E i \in DOMAIN D : D[i] = p
  BY DescriptorFacts DEF Observed
<1>8. Hosts!Keys(O) \subseteq Hosts!Keys(D)
  <2> SUFFICES ASSUME NEW i \in DOMAIN O PROVE \E j \in DOMAIN D : Hosts!Key(D[j]) = Hosts!Key(O[i])
    BY DEF Hosts!Keys
  <2>1. PICK p \in Observed(k) : O[i] = Observation(k, p)
    BY <1>4
  <2>2. PICK j \in DOMAIN D : D[j] = p
    BY <1>7
  <2> QED
    BY <2>1, <2>2 DEF Observation, Hosts!Key
<1>9. \A i \in DOMAIN O : (O[i].state = "succeeded") = (O[i].metrics # Hosts!NoMetrics)
  <2> SUFFICES ASSUME NEW i \in DOMAIN O PROVE (O[i].state = "succeeded") <=> (O[i].metrics # Hosts!NoMetrics)
    OBVIOUS
  <2>1. PICK p \in Observed(k) : O[i] = Observation(k, p)
    BY <1>4
  <2>2. probes[k][p.kind] \in Findings
    BY DEF Observed, Finished
  <2>3. \A f \in Findings : (f.state = "succeeded") <=> (f.metrics # Hosts!NoMetrics)
    BY HostsAssumption DEF Findings, Hosts!Failed
  <2> QED
    BY <2>1, <2>2, <2>3 DEF Observation
<1>10. /\ \A i, j \in DOMAIN R : Hosts!Key(R[i]) = Hosts!Key(R[j]) => i = j
       /\ \A i, j \in DOMAIN O : Hosts!Key(O[i]) = Hosts!Key(O[j]) => i = j
  BY <1>1, <1>2, <1>6 DEF Hosts!Key
<1>11. Hosts!Keys(R) = Hosts!Keys(D)
  BY <1>2 DEF Hosts!Keys, Hosts!Key
<1> HIDE DEF D, R, O
<1> QED
  BY <1>1, <1>8, <1>9, <1>10, <1>11 DEF Hosts!ValidEvidence, Hosts!EachOnce, D, R, O

Ready(p) == [kind |-> p.kind, id |-> p.id,
             route |-> (p.kind \in Hosts!Installed => Hosts!RouteReady(p.kind)),
             security |-> (p.kind \in Hosts!Installed => Hosts!SecurityReady(p.kind))]

\* What createTransportCandidates finds in the evidence of a connect().
LEMMA CandidateFacts ==
  ASSUME host \in Configurations, NEW k \in Connects, NEW p \in DescriptorSet
  PROVE  LET c == Hosts!Candidate(p, Hosts!ClientEvidence(k))
         IN  /\ c.provider = p
             /\ c.rejectionReason = "none"
             /\ DOMAIN c = {"provider", "peerSupported", "withinLimits", "routeResolved",
                            "securitySatisfied", "probeState", "probe", "rejectionReason"}
             /\ c.peerSupported <=> p.kind \in Hosts!PeerSupportedKinds
             /\ c.routeResolved <=> (p.kind \in Hosts!Installed => Hosts!RouteReady(p.kind))
             /\ c.securitySatisfied <=> (p.kind \in Hosts!Installed => Hosts!SecurityReady(p.kind))
             /\ p \in Observed(k) => c.probeState = probes[k][p.kind].state
<1> DEFINE E == Hosts!ClientEvidence(k)
           R == Hosts!ToSet(E.readiness)
           O == Hosts!ToSet(E.observations)
           r == CHOOSE x \in R : Hosts!Key(x) = Hosts!Key(p)
           o == {x \in O : Hosts!Key(x) = Hosts!Key(p)}
           seen == CHOOSE x \in o : TRUE
<1>1. R = {Ready(q) : q \in DescriptorSet}
  BY DEF Hosts!ClientEvidence, Hosts!ToSet, DescriptorSet, Ready
<1>2. r = Ready(p)
  <2>1. \A q \in DescriptorSet : Hosts!Key(Ready(q)) = Hosts!Key(p) => q = p
    BY DescriptorsDiffer DEF Hosts!Key, Ready
  <2>2. Ready(p) \in R /\ Hosts!Key(Ready(p)) = Hosts!Key(p)
    BY <1>1 DEF Hosts!Key, Ready
  <2>3. \A x \in R : Hosts!Key(x) = Hosts!Key(p) => x = Ready(p)
    BY <1>1, <2>1
  <2> HIDE DEF R
  <2> QED
    BY <2>2, <2>3
<1>3. O = Observations(k)
  BY ObservationFacts
<1>4. ASSUME p \in Observed(k) PROVE o # {} /\ seen = Observation(k, p)
  <2>1. \A q \in Observed(k) : Hosts!Key(Observation(k, q)) = Hosts!Key(p) => q = p
    BY DescriptorsDiffer DEF Hosts!Key, Observation, Observed
  <2>2. Observation(k, p) \in O /\ Hosts!Key(Observation(k, p)) = Hosts!Key(p)
    BY <1>3, <1>4 DEF Hosts!Key, Observation, Observations
  <2>3. \A x \in O : Hosts!Key(x) = Hosts!Key(p) => x = Observation(k, p)
    BY <1>3, <2>1 DEF Observations
  <2> HIDE DEF O
  <2>4. o = {Observation(k, p)}
    BY <2>2, <2>3
  <2> HIDE DEF o
  <2> QED
    BY <2>4
<1>5. E.peerSupportedTransports = Hosts!PeerSupportedKinds
  BY DEF Hosts!ClientEvidence
<1> DEFINE ob == IF o = {} THEN [state |-> "not-run", metrics |-> Hosts!NoMetrics] ELSE seen
<1>6. Hosts!Candidate(p, E) =
        [provider |-> p, peerSupported |-> p.kind \in E.peerSupportedTransports,
         withinLimits |-> E.requestedMaxFrameBytes <= p.limit,
         routeResolved |-> r.route, securitySatisfied |-> r.security,
         probeState |-> ob.state, probe |-> ob.metrics, rejectionReason |-> "none"]
  BY DEF Hosts!Candidate
<1>7. ASSUME p \in Observed(k) PROVE ob.state = probes[k][p.kind].state
  <2>1. o # {} /\ seen = Observation(k, p)
    BY <1>4, <1>7
  <2> HIDE DEF o, seen
  <2>2. ob = Observation(k, p)
    BY <2>1
  <2> HIDE DEF ob
  <2> QED
    BY <2>2 DEF Observation
<1> HIDE DEF E, R, O, r, o, seen, ob
<1>8. /\ r.route <=> (p.kind \in Hosts!Installed => Hosts!RouteReady(p.kind))
      /\ r.security <=> (p.kind \in Hosts!Installed => Hosts!SecurityReady(p.kind))
  BY <1>2 DEF Ready
<1>9. /\ Hosts!Candidate(p, E).provider = p
      /\ Hosts!Candidate(p, E).rejectionReason = "none"
      /\ Hosts!Candidate(p, E).probeState = ob.state
      /\ DOMAIN Hosts!Candidate(p, E) = {"provider", "peerSupported", "withinLimits", "routeResolved",
                            "securitySatisfied", "probeState", "probe", "rejectionReason"}
      /\ Hosts!Candidate(p, E).routeResolved = r.route
      /\ Hosts!Candidate(p, E).securitySatisfied = r.security
      /\ Hosts!Candidate(p, E).peerSupported = (p.kind \in E.peerSupportedTransports)
  BY <1>6
<1> QED
  BY <1>5, <1>7, <1>8, <1>9 DEF E

\* The first reason that applies is none only if none applies.
LEMMA NoReason ==
  ASSUME NEW c, NEW policy, Hosts!RejectionReason(c, policy) = "none"
  PROVE  /\ ~(policy.mode = "force" /\ c.provider.kind # policy.kind)
         /\ c.provider.available /\ c.peerSupported /\ c.routeResolved /\ c.securitySatisfied
BY DEF Hosts!RejectionReason

LEMMA SomeReason ==
  ASSUME NEW c, NEW policy
  PROVE  Hosts!RejectionReason(c, policy) # "probe-missing"
BY DEF Hosts!RejectionReason

\* A candidate with what selectTransport says of it.
Evaluated(p, k) ==
  LET c == Hosts!Candidate(p, Hosts!ClientEvidence(k))
  IN  [c EXCEPT !.rejectionReason = Hosts!RejectionReason(c, host.policy)]

\* What selectTransport finds eligible has been meant to be probed.
LEMMA Eligible ==
  ASSUME host \in Configurations, NEW k \in Connects, NEW p \in DescriptorSet,
         Hosts!RejectionReason(Hosts!Candidate(p, Hosts!ClientEvidence(k)), host.policy) = "none"
  PROVE  /\ p \in Hosts!ToSet(host.providers)
         /\ p.kind \in Hosts!ProbeTargets
<1> DEFINE c == Hosts!Candidate(p, Hosts!ClientEvidence(k))
<1>1. /\ ~(host.policy.mode = "force" /\ c.provider.kind # host.policy.kind)
      /\ c.provider.available /\ c.peerSupported /\ c.routeResolved /\ c.securitySatisfied
  BY NoReason
<1>2. /\ c.provider = p
      /\ c.peerSupported <=> p.kind \in Hosts!PeerSupportedKinds
      /\ c.routeResolved <=> (p.kind \in Hosts!Installed => Hosts!RouteReady(p.kind))
      /\ c.securitySatisfied <=> (p.kind \in Hosts!Installed => Hosts!SecurityReady(p.kind))
  BY CandidateFacts
<1> HIDE DEF c
<1>3. \A x \in Missing : x.available = FALSE
  BY DEF Missing, Hosts!Uninstalled
<1>4. p \in Hosts!ToSet(host.providers)
  BY <1>1, <1>2, <1>3, DescriptorsDiffer
<1>5. p.kind \in Hosts!Installed /\ p.kind \in Hosts!Available
  BY <1>1, <1>2, <1>4 DEF Hosts!ToSet, Hosts!Installed, Hosts!Available
<1>6. /\ p.kind \in Hosts!PeerSupportedKinds /\ Hosts!Allowed(p.kind)
      /\ Hosts!EndpointResolves(p.kind) /\ Hosts!SecuritySatisfied(p.kind)
  BY <1>1, <1>2, <1>5 DEF Hosts!Allowed, Hosts!RouteReady, Hosts!SecurityReady
<1> QED
  BY <1>4, <1>5, <1>6 DEF Hosts!ProbeTargets

\* What EvidenceIsComplete says of an answer.
Complete(selection) ==
  /\ selection.code # "INVALID_EVIDENCE"
  /\ \A i \in DOMAIN selection.rejected : selection.rejected[i].rejectionReason # "probe-missing"
  /\ selection.code = "selected" =>
       LET kind == selection.order[1].provider.kind
       IN  kind \in Hosts!Installed /\ Hosts!EndpointResolves(kind) /\ Hosts!SecuritySatisfied(kind)

\* Where a target may be measured.
LEMMA TargetsHaveRoutes ==
  ASSUME NEW kind \in Hosts!ProbeTargets
  PROVE  kind \in Hosts!Installed /\ Hosts!EndpointResolves(kind) /\ Hosts!SecuritySatisfied(kind)
BY DEF Hosts!ProbeTargets, Hosts!Available, Hosts!Installed

EvaluatedSet(k) == {Evaluated(p, k) : p \in DescriptorSet}
EligibleSet(k) == {e \in EvaluatedSet(k) : e.rejectionReason = "none"}

LEMMA EvaluatedFacts ==
  ASSUME host \in Configurations, NEW k \in Connects, NEW p \in DescriptorSet
  PROVE  LET c == Hosts!Candidate(p, Hosts!ClientEvidence(k))
             e == Evaluated(p, k)
         IN  /\ DOMAIN e = {"provider", "peerSupported", "withinLimits", "routeResolved",
                            "securitySatisfied", "probeState", "probe", "rejectionReason"}
             /\ e.provider = p
             /\ e.rejectionReason = Hosts!RejectionReason(c, host.policy)
             /\ p \in Observed(k) => e.probeState = probes[k][p.kind].state
<1> DEFINE c == Hosts!Candidate(p, Hosts!ClientEvidence(k))
           reason == Hosts!RejectionReason(c, host.policy)
<1>1. Evaluated(p, k) = [c EXCEPT !.rejectionReason = reason]
  BY DEF Evaluated
<1>2. /\ c.provider = p
      /\ DOMAIN c = {"provider", "peerSupported", "withinLimits", "routeResolved",
                     "securitySatisfied", "probeState", "probe", "rejectionReason"}
      /\ p \in Observed(k) => c.probeState = probes[k][p.kind].state
  BY CandidateFacts
<1> HIDE DEF c, reason
<1>3. /\ DOMAIN Evaluated(p, k) = DOMAIN c
      /\ Evaluated(p, k).provider = c.provider
      /\ Evaluated(p, k).probeState = c.probeState
      /\ Evaluated(p, k).rejectionReason = reason
  BY <1>1, <1>2
<1> QED
  BY <1>2, <1>3 DEF c, reason

\* The eligible ones: their providers are installed, may be probed, and differ.
LEMMA EligibleFacts ==
  ASSUME host \in Configurations, NEW k \in Connects
  PROVE  /\ IsFiniteSet(EvaluatedSet(k))
         /\ \A e \in EligibleSet(k) :
              /\ DOMAIN e = {"provider", "peerSupported", "withinLimits", "routeResolved",
                             "securitySatisfied", "probeState", "probe", "rejectionReason"}
              /\ e.provider \in Hosts!ToSet(host.providers)
              /\ e.provider.kind \in Hosts!ProbeTargets
              /\ e.provider \in Observed(k) => e.probeState = probes[k][e.provider.kind].state
         /\ \A e, f \in EligibleSet(k) : e.provider.kind = f.provider.kind => e = f
<1>1. IsFiniteSet(EvaluatedSet(k))
  <2> DEFINE f == [p \in DescriptorSet |-> Evaluated(p, k)]
  <2>1. f \in [DescriptorSet -> EvaluatedSet(k)] /\ \A e \in EvaluatedSet(k) : \E p \in DescriptorSet : f[p] = e
    BY DEF EvaluatedSet
  <2> HIDE DEF f
  <2>2. f \in Surjection(DescriptorSet, EvaluatedSet(k))
    BY <2>1, Fun_IsSurj
  <2>3. IsFiniteSet(DescriptorSet)
    BY DescriptorsDiffer
  <2> QED
    BY <2>2, <2>3, FS_Surjection
<1>2. ASSUME NEW e \in EligibleSet(k)
      PROVE  /\ DOMAIN e = {"provider", "peerSupported", "withinLimits", "routeResolved",
                            "securitySatisfied", "probeState", "probe", "rejectionReason"}
             /\ e.provider \in Hosts!ToSet(host.providers)
             /\ e.provider.kind \in Hosts!ProbeTargets
             /\ e.provider \in Observed(k) => e.probeState = probes[k][e.provider.kind].state
             /\ e.provider \in DescriptorSet /\ e = Evaluated(e.provider, k)
  <2>1. PICK p \in DescriptorSet : e = Evaluated(p, k)
    BY DEF EligibleSet, EvaluatedSet
  <2>2. e.rejectionReason = "none"
    BY DEF EligibleSet
  <2>3. /\ DOMAIN e = {"provider", "peerSupported", "withinLimits", "routeResolved",
                       "securitySatisfied", "probeState", "probe", "rejectionReason"}
        /\ e.provider = p
        /\ Hosts!RejectionReason(Hosts!Candidate(p, Hosts!ClientEvidence(k)), host.policy) = "none"
        /\ p \in Observed(k) => e.probeState = probes[k][p.kind].state
    BY <2>1, <2>2, EvaluatedFacts
  <2>4. p \in Hosts!ToSet(host.providers) /\ p.kind \in Hosts!ProbeTargets
    BY <2>3, Eligible
  <2> QED
    BY <2>1, <2>3, <2>4
<1>3. \A p, q \in DescriptorSet : p.kind = q.kind => p = q
  BY DescriptorsDiffer
<1>4. ASSUME NEW e \in EligibleSet(k), NEW f \in EligibleSet(k), e.provider.kind = f.provider.kind
      PROVE  e = f
  <2>1. e.provider = f.provider
    BY <1>2, <1>3, <1>4
  <2> QED
    BY <1>2, <2>1
<1> QED
  BY <1>1, <1>2, <1>4

\* Every eligible one has a place in the order, or a probe of its own that failed.
LEMMA OrderFacts ==
  ASSUME host \in Configurations, NEW k \in Connects, Finished(k),
         NEW order \in Hosts!Orders(EligibleSet(k), host.policy)
  PROVE  /\ \A e \in EligibleSet(k) :
              \/ \E i \in DOMAIN order : order[i].provider = e.provider
              \/ e.probeState = "failed"
         /\ order # <<>> =>
              1 \in DOMAIN order /\ \E e \in EligibleSet(k) : order[1].provider = e.provider
<1> DEFINE L == EligibleSet(k)
           Alone(c) == [c EXCEPT !.probeState = "not-run", !.probe = Hosts!NoMetrics]
           A == {c \in L : c.probeState = "succeeded"}
           B == {Alone(c) : c \in L}
<1>1. IsFiniteSet(L)
  <2>1. IsFiniteSet(EvaluatedSet(k)) /\ L \in SUBSET EvaluatedSet(k)
    BY EligibleFacts DEF EligibleSet
  <2> QED
    BY <2>1, FS_Subset
<1>2. IsFiniteSet(A)
  BY <1>1, FS_Subset, A \in SUBSET L
<1>3. IsFiniteSet(B)
  <2> DEFINE f == [c \in L |-> Alone(c)]
  <2>1. f \in [L -> B] /\ \A b \in B : \E c \in L : f[c] = b
    OBVIOUS
  <2> HIDE DEF f, B, L
  <2>2. f \in Surjection(L, B)
    BY <2>1, Fun_IsSurj
  <2> QED
    BY <1>1, <2>2, FS_Surjection
<1>4. ASSUME NEW S, IsFiniteSet(S), order \in Hosts!SetToSeqs(S)
      PROVE  /\ \A x \in S : \E i \in DOMAIN order : order[i] = x
             /\ order # <<>> => 1 \in DOMAIN order /\ order[1] \in S
  <2>1. /\ Cardinality(S) \in Nat
        /\ order \in [1 .. Cardinality(S) -> S]
        /\ \A x \in S : \E i \in DOMAIN order : order[i] = x
    BY <1>4, Arranged
  <2>2. CASE Cardinality(S) = 0
    <3>1. order \in [1 .. 0 -> S]
      BY <2>1, <2>2
    <3>2. order = <<>>
      BY <3>1
    <3> QED
      BY <2>1, <3>2
  <2>3. CASE Cardinality(S) # 0
    BY <2>1, <2>3
  <2> QED
    BY <2>2, <2>3
<1>5. CASE Hosts!Several(L)
  <2>1. order \in Hosts!SetToSeqs(A)
    BY <1>5 DEF Hosts!Orders, Hosts!Arrangements
  <2>2. Hosts!Several(Hosts!ProbeTargets)
    <3>1. PICK e \in L, f \in L : e # f
      BY <1>5 DEF Hosts!Several
    <3>2. /\ e.provider.kind \in Hosts!ProbeTargets /\ f.provider.kind \in Hosts!ProbeTargets
          /\ e.provider.kind # f.provider.kind
      BY <3>1, EligibleFacts
    <3> QED
      BY <3>2 DEF Hosts!Several
  <2>3. DOMAIN probes[k] = Hosts!ProbeTargets /\ \A t \in Hosts!ProbeTargets : probes[k][t] \in Findings
    BY <2>2 DEF Finished
  <2>4. \A f \in Findings : f.state \in {"failed", "succeeded"}
    BY DEF Findings, Hosts!Failed
  <2>5. \A e \in L : e.probeState \in {"failed", "succeeded"}
    <3> SUFFICES ASSUME NEW e \in L PROVE e.probeState \in {"failed", "succeeded"}
      OBVIOUS
    <3>1. /\ e.provider \in Hosts!ToSet(host.providers) /\ e.provider.kind \in Hosts!ProbeTargets
          /\ e.provider \in Observed(k) => e.probeState = probes[k][e.provider.kind].state
      BY EligibleFacts
    <3>2. e.provider \in Observed(k)
      BY <2>3, <3>1 DEF Observed
    <3> QED
      BY <2>3, <2>4, <3>1, <3>2
  <2>6. /\ \A x \in A : \E i \in DOMAIN order : order[i] = x
        /\ order # <<>> => 1 \in DOMAIN order /\ order[1] \in A
    BY <1>2, <1>4, <2>1
  <2> HIDE DEF L
  <2> QED
    BY <2>5, <2>6 DEF L
<1>6. CASE ~Hosts!Several(L)
  <2>1. order \in Hosts!SetToSeqs(B)
    BY <1>6 DEF Hosts!Orders
  <2>2. /\ \A x \in B : \E i \in DOMAIN order : order[i] = x
        /\ order # <<>> => 1 \in DOMAIN order /\ order[1] \in B
    BY <1>3, <1>4, <2>1
  <2>3. \A c \in L : Alone(c) \in B /\ Alone(c).provider = c.provider
    BY EligibleFacts
  <2>4. \A b \in B : \E c \in L : b = Alone(c)
    OBVIOUS
  <2> HIDE DEF L, B, Alone
  <2>5. \A e \in L : \E i \in DOMAIN order : order[i].provider = e.provider
    BY <2>2, <2>3
  <2>6. order # <<>> => 1 \in DOMAIN order /\ \E e \in L : order[1].provider = e.provider
    BY <2>2, <2>3, <2>4
  <2> QED
    BY <2>5, <2>6 DEF L
<1> QED
  BY <1>5, <1>6

\* An eligible one without a place is rejected for its probe, never for the lack of one.
LEMMA RejectionFacts ==
  ASSUME host \in Configurations, NEW k \in Connects, Finished(k),
         NEW order \in Hosts!Orders(EligibleSet(k), host.policy),
         NEW rejected \in Hosts!Rejections(EvaluatedSet(k), order)
  PROVE  \A i \in DOMAIN rejected : rejected[i].rejectionReason # "probe-missing"
<1> DEFINE chosen == {Hosts!Key(order[i].provider) : i \in DOMAIN order}
           unplaced == {d \in EvaluatedSet(k) : Hosts!Key(d.provider) \notin chosen}
           left == {Hosts!Explained(c) : c \in unplaced}
<1>1. rejected \in Hosts!SetToSeqs(left)
  BY DEF Hosts!Rejections
<1>2. \A i \in DOMAIN rejected : rejected[i] \in left
  <2> HIDE DEF left
  <2> QED
    BY <1>1 DEF Hosts!SetToSeqs
<1>3. ASSUME NEW c \in unplaced PROVE Hosts!Explained(c).rejectionReason # "probe-missing"
  <2>1. CASE c.rejectionReason # "none"
    <3>1. PICK p \in DescriptorSet : c = Evaluated(p, k)
      BY DEF EvaluatedSet
    <3>2. c.rejectionReason # "probe-missing"
      BY <3>1, EvaluatedFacts, SomeReason
    <3> QED
      BY <2>1, <3>2 DEF Hosts!Explained
  <2>2. CASE c.rejectionReason = "none"
    <3>1. c \in EligibleSet(k)
      BY <2>2 DEF EligibleSet
    <3>2. ~ \E i \in DOMAIN order : order[i].provider = c.provider
      OBVIOUS
    <3>3. c.probeState = "failed"
      BY <3>1, <3>2, OrderFacts
    <3>4. "rejectionReason" \in DOMAIN c
      BY <3>1, EligibleFacts
    <3>5. Hosts!Explained(c) = [c EXCEPT !.probeState = "failed", !.rejectionReason = "probe-failed"]
      BY <2>2, <3>3 DEF Hosts!Explained
    <3> QED
      BY <3>4, <3>5
  <2> QED
    BY <2>1, <2>2
<1> HIDE DEF unplaced
<1> QED
  BY <1>2, <1>3

\* Whatever selectTransport answers a connect() whose probes are over.
LEMMA SelectionIsComplete ==
  ASSUME host \in Configurations, NEW k \in Connects, Finished(k),
         NEW selection \in Hosts!Selections(Hosts!ClientDescriptors, Hosts!ClientEvidence(k))
  PROVE  Complete(selection)
<1> DEFINE E == Hosts!ClientEvidence(k)
           candidates == {Hosts!Candidate(p, E) : p \in DescriptorSet}
           evaluated == {[c EXCEPT !.rejectionReason = Hosts!RejectionReason(c, E.policy)] : c \in candidates}
           Code(order) == IF order # <<>> THEN "selected"
                          ELSE IF E.policy.mode = "force" THEN "FORCED_TRANSPORT_UNAVAILABLE"
                          ELSE "NO_VIABLE_TRANSPORT"
<1>1. E.policy = host.policy
  BY DEF Hosts!ClientEvidence
<1>2. evaluated = EvaluatedSet(k)
  BY <1>1 DEF EvaluatedSet, Evaluated
<1>3. {c \in evaluated : c.rejectionReason = "none"} = EligibleSet(k)
  BY <1>2 DEF EligibleSet
<1>4. Hosts!Selections(Hosts!ClientDescriptors, E) =
        UNION {{[code |-> Code(order), order |-> order, rejected |-> rejected, policy |-> E.policy] :
                  rejected \in Hosts!Rejections(evaluated, order)} :
                order \in Hosts!Orders({c \in evaluated : c.rejectionReason = "none"}, E.policy)}
  BY EvidenceIsValid DEF Hosts!Selections, DescriptorSet
<1> HIDE DEF E, evaluated
<1>5. PICK order \in Hosts!Orders(EligibleSet(k), host.policy) :
        \E rejected \in Hosts!Rejections(EvaluatedSet(k), order) :
          selection = [code |-> Code(order), order |-> order, rejected |-> rejected, policy |-> E.policy]
  BY <1>1, <1>2, <1>3, <1>4 DEF E
<1> PICK rejected \in Hosts!Rejections(EvaluatedSet(k), order) :
       selection = [code |-> Code(order), order |-> order, rejected |-> rejected, policy |-> E.policy]
  BY <1>5
<1>6. selection.code = Code(order) /\ selection.order = order /\ selection.rejected = rejected
  OBVIOUS
<1>7. selection.code # "INVALID_EVIDENCE"
  BY <1>6
<1>8. \A i \in DOMAIN selection.rejected : selection.rejected[i].rejectionReason # "probe-missing"
  BY <1>6, RejectionFacts
<1>9. ASSUME selection.code = "selected"
      PROVE  LET kind == selection.order[1].provider.kind
             IN  kind \in Hosts!Installed /\ Hosts!EndpointResolves(kind) /\ Hosts!SecuritySatisfied(kind)
  <2>1. order # <<>>
    BY <1>6, <1>9
  <2>2. PICK e \in EligibleSet(k) : order[1].provider = e.provider
    BY <2>1, OrderFacts
  <2>3. selection.order[1].provider.kind \in Hosts!ProbeTargets
    BY <1>6, <2>2, EligibleFacts
  <2> QED
    BY <2>3, TargetsHaveRoutes
<1> QED
  BY <1>7, <1>8, <1>9 DEF Complete

\* A connect() that probes runs a probe of every target if there are several, and
\* nothing else; what it was answered is complete.
ProbeInv(k) ==
  call[k] = "probing" =>
    /\ DOMAIN probes[k] = IF Hosts!Several(Hosts!ProbeTargets) THEN Hosts!ProbeTargets ELSE {}
    /\ \A t \in DOMAIN probes[k] : probes[k][t] \in Findings \cup {Hosts!Running}

OutcomeInv(k) ==
  host.role = "client" /\ outcome[k] # Hosts!Unanswered => Complete(outcome[k])

EvidenceType ==
  /\ host \in Configurations
  /\ call = [k \in Connects |-> call[k]]
  /\ probes = [k \in Connects |-> probes[k]]
  /\ outcome = [k \in Connects |-> outcome[k]]

EvidenceInv == EvidenceType /\ \A k \in Connects : ProbeInv(k) /\ OutcomeInv(k)

LEMMA InitEvidence == Hosts!Init => EvidenceInv
BY DEF Hosts!Init, EvidenceInv, EvidenceType, ProbeInv, OutcomeInv

\* The targets, and what makes an answer complete, are a matter of the configuration.
LEMMA ConfigurationDecides ==
  ASSUME UNCHANGED host
  PROVE  /\ Hosts!ProbeTargets' = Hosts!ProbeTargets
         /\ \A selection : Complete(selection) => Complete(selection)'
<1>1. /\ Hosts!Installed' = Hosts!Installed /\ Hosts!Available' = Hosts!Available
      /\ Hosts!PeerSupportedKinds' = Hosts!PeerSupportedKinds
  BY DEF Hosts!Installed, Hosts!Available, Hosts!PeerSupportedKinds
<1>2. \A kind : /\ Hosts!EndpointResolves(kind)' <=> Hosts!EndpointResolves(kind)
                /\ Hosts!SecuritySatisfied(kind)' <=> Hosts!SecuritySatisfied(kind)
                /\ Hosts!Allowed(kind)' <=> Hosts!Allowed(kind)
  BY DEF Hosts!EndpointResolves, Hosts!SecuritySatisfied, Hosts!Allowed, Hosts!Route
<1>3. Hosts!ProbeTargets' = Hosts!ProbeTargets
  BY <1>1, <1>2 DEF Hosts!ProbeTargets
<1>4. ASSUME NEW selection, Complete(selection) PROVE Complete(selection)'
  BY <1>1, <1>2, <1>4 DEF Complete
<1> QED
  BY <1>3, <1>4

\* A step of a connect() keeps what its probes and its answer promise.
LEMMA ClientKeepsEvidence ==
  ASSUME EvidenceInv, NEW k \in Connects, Hosts!ClientStep(k)
  PROVE  EvidenceInv'
<1> USE DEF EvidenceInv
<1>0. UNCHANGED host
  BY DEF Hosts!ClientStep, Hosts!Ask, Hosts!Connect, Hosts!ProbeSettles, Hosts!Select, Hosts!CarrierOpens,
         Hosts!CarrierFails, Hosts!Adopts, Hosts!AdoptionFails, Hosts!ClientStays
<1>1. ASSUME EvidenceType', UNCHANGED <<probes, outcome>>,
             \A j \in Connects : call'[j] = "probing" => call[j] = "probing"
      PROVE  EvidenceInv'
  <2>1. \A j \in Connects : ProbeInv(j)'
    BY <1>0, <1>1, ConfigurationDecides DEF ProbeInv
  <2>2. \A j \in Connects : OutcomeInv(j)'
    BY <1>0, <1>1, ConfigurationDecides DEF OutcomeInv
  <2> QED
    BY <1>1, <2>1, <2>2
<1>2. ASSUME NEW state, state # "probing", Hosts!Goes(k, state)
      PROVE  \A j \in Connects : call'[j] = "probing" => call[j] = "probing"
  BY <1>2 DEF Hosts!Goes, EvidenceType
<1>3. CASE Hosts!Ask(k)
  <2>1. EvidenceType' /\ host.role = "application"
    BY <1>3 DEF EvidenceType, Hosts!Ask
  <2>2. \A j \in Connects : ProbeInv(j)'
    BY <1>0, <1>3, ConfigurationDecides DEF ProbeInv, Hosts!Ask
  <2>3. \A j \in Connects : OutcomeInv(j)'
    BY <1>0, <2>1 DEF OutcomeInv
  <2> QED
    BY <2>1, <2>2, <2>3
<1>4. CASE Hosts!Connect(k)
  <2>1. EvidenceType'
    BY <1>4 DEF EvidenceType, Hosts!Connect, Hosts!Goes, Hosts!ClientStays
  <2>2. ASSUME NEW j \in Connects PROVE ProbeInv(j)'
    <3>1. CASE j # k
      <4>1. call'[j] = call[j] /\ probes'[j] = probes[j]
        BY <1>4, <3>1 DEF EvidenceType, Hosts!Connect, Hosts!Goes
      <4> QED
        BY <1>0, <4>1, ConfigurationDecides DEF ProbeInv
    <3>2. CASE j = k /\ call'[k] = "probing"
      <4>1. probes'[k] = IF Hosts!Several(Hosts!ProbeTargets)
                         THEN [t \in Hosts!ProbeTargets |-> Hosts!Running] ELSE <<>>
        BY <1>4, <3>2 DEF EvidenceType, Hosts!Connect, Hosts!Goes
      <4>2. /\ DOMAIN probes'[k] = IF Hosts!Several(Hosts!ProbeTargets) THEN Hosts!ProbeTargets ELSE {}
            /\ \A t \in DOMAIN probes'[k] : probes'[k][t] = Hosts!Running
        BY <4>1
      <4> QED
        BY <1>0, <3>2, <4>2, ConfigurationDecides DEF ProbeInv, Hosts!Running, Findings, Hosts!Failed
    <3>3. CASE j = k /\ call'[k] # "probing"
      BY <3>3 DEF ProbeInv
    <3> QED
      BY <3>1, <3>2, <3>3
  <2>3. \A j \in Connects : OutcomeInv(j)'
    BY <1>0, <1>4, ConfigurationDecides DEF OutcomeInv, Hosts!Connect
  <2> QED
    BY <2>1, <2>2, <2>3
<1>5. ASSUME NEW kind \in Hosts!Kinds, Hosts!ProbeSettles(k, kind) PROVE EvidenceInv'
  <2>1. PICK found \in Findings : probes' = [probes EXCEPT ![k][kind] = found]
    BY <1>5 DEF Hosts!ProbeSettles, Findings
  <2>2. EvidenceType' /\ UNCHANGED <<call, outcome>> /\ kind \in DOMAIN probes[k]
    BY <1>5, <2>1 DEF EvidenceType, Hosts!ProbeSettles, Hosts!ClientStays
  <2>3. ASSUME NEW j \in Connects PROVE ProbeInv(j)'
    <3>1. /\ DOMAIN probes'[j] = DOMAIN probes[j]
          /\ \A t \in DOMAIN probes[j] : probes'[j][t] = probes[j][t] \/ probes'[j][t] = found
      BY <2>1, <2>2 DEF EvidenceType
    <3> QED
      BY <1>0, <2>2, <3>1, ConfigurationDecides DEF ProbeInv, Findings, Hosts!Running, Hosts!Failed
  <2>4. \A j \in Connects : OutcomeInv(j)'
    BY <1>0, <2>2, ConfigurationDecides DEF OutcomeInv
  <2> QED
    BY <2>2, <2>3, <2>4
<1>6. CASE Hosts!Select(k)
  <2>1. Finished(k)
    BY <1>6 DEF ProbeInv, Finished, Hosts!Select
  <2>2. PICK selection \in Hosts!Selections(Hosts!ClientDescriptors, Hosts!ClientEvidence(k)) :
          /\ outcome' = [outcome EXCEPT ![k] = selection]
          /\ Hosts!Goes(k, IF selection.code = "selected" THEN "connecting" ELSE "failed")
    BY <1>6 DEF Hosts!Select
  <2>3. Complete(selection)
    BY <2>1, SelectionIsComplete DEF EvidenceType
  <2>4. EvidenceType' /\ UNCHANGED probes
    BY <1>0, <1>6, <2>2 DEF EvidenceType, Hosts!Select, Hosts!Goes
  <2>5. \A j \in Connects : call'[j] = "probing" => call[j] = "probing"
    BY <1>2, <2>2
  <2>6. \A j \in Connects : ProbeInv(j)'
    BY <1>0, <2>4, <2>5, ConfigurationDecides DEF ProbeInv
  <2>7. \A j \in Connects : OutcomeInv(j)'
    BY <1>0, <2>2, <2>3, ConfigurationDecides DEF OutcomeInv, EvidenceType
  <2> QED
    BY <2>4, <2>6, <2>7
<1>7. CASE Hosts!CarrierOpens(k)
  BY <1>1, <1>2, <1>7 DEF EvidenceType, Hosts!CarrierOpens, Hosts!Goes, Hosts!ClientStays
<1>8. CASE Hosts!CarrierFails(k)
  BY <1>1, <1>2, <1>8 DEF EvidenceType, Hosts!CarrierFails, Hosts!Goes, Hosts!ClientStays
<1>9. CASE Hosts!Adopts(k)
  BY <1>1, <1>2, <1>9 DEF EvidenceType, Hosts!Adopts, Hosts!Goes, Hosts!ClientStays
<1>10. CASE Hosts!AdoptionFails(k)
  BY <1>1, <1>2, <1>10 DEF EvidenceType, Hosts!AdoptionFails, Hosts!Goes, Hosts!ClientStays
<1> QED
  BY <1>3, <1>4, <1>5, <1>6, <1>7, <1>8, <1>9, <1>10 DEF Hosts!ClientStep

LEMMA EvidenceStep == EvidenceInv /\ [Hosts!Next]_hostVars => EvidenceInv'
<1> SUFFICES ASSUME EvidenceInv, [Hosts!Next]_hostVars PROVE EvidenceInv'
  OBVIOUS
<1>1. CASE \E k \in Connects : Hosts!ClientStep(k)
  BY <1>1, ClientKeepsEvidence
<1>2. CASE UNCHANGED <<host, call, probes, outcome>>
  <2>1. EvidenceType'
    BY <1>2 DEF EvidenceInv, EvidenceType
  <2>2. \A k \in Connects : ProbeInv(k)' /\ OutcomeInv(k)'
    BY <1>2, ConfigurationDecides DEF EvidenceInv, ProbeInv, OutcomeInv
  <2> QED
    BY <2>1, <2>2 DEF EvidenceInv
<1>3. \/ \E k \in Connects : Hosts!ClientStep(k)
      \/ UNCHANGED <<host, call, probes, outcome>>
  BY DEF Hosts!Next, hostVars, Hosts!CloseClient, Hosts!CloseConnection, Hosts!Listen, Hosts!ListenerOpens,
         Hosts!ListenerFails, Hosts!ListenerAdopts, Hosts!ListenerRefuses, Hosts!CloseServer,
         Hosts!CloseListeners, Hosts!clientVars, Hosts!ServerStays
<1> QED
  BY <1>1, <1>2, <1>3

\* What the probes of every connect() may find, and what it is answered.
THEOREM EvidenceInvariance == PartsSpec => [](part = "hosts" => EvidenceInv)
<1>1. PartsInit => (part = "hosts" => EvidenceInv)
  BY InitEvidence DEF PartsInit
<1>2. (part = "hosts" => EvidenceInv) /\ [PartsNext]_<<part, registryVars, channelVars, submitVars, hostVars, roleVars>>
        => (part = "hosts" => EvidenceInv)'
  BY HostsAlone, EvidenceStep
<1> QED BY <1>1, <1>2, PTL DEF PartsSpec

\* A connect() never trips over its own evidence: what it composes is valid, everything
\* selectTransport finds eligible was probed, and what is selected has a secure route.
THEOREM EvidenceTheorem == PartsSpec => []EvidenceIsComplete
<1>1. EvidenceInv => Hosts!EvidenceIsComplete
  BY DEF EvidenceInv, OutcomeInv, Complete, Hosts!EvidenceIsComplete, Hosts!Answered
<1>2. (part = "hosts" => EvidenceInv) => EvidenceIsComplete
  BY <1>1 DEF EvidenceIsComplete
<1> QED BY <1>2, EvidenceInvariance, PTL

-----------------------------------------------------------------------------
(***************************************************************************)
(* What selectTransport decides, whoever brings the evidence.              *)
(***************************************************************************)

\* A set of numbers has a least one.
LEMMA Least ==
  ASSUME NEW S \in SUBSET Nat, S # {}
  PROVE  \E m \in S : \A n \in S : m <= n
<1>1. PICK m \in S : \A n \in S : <<n, m>> \notin OpToRel(<, Nat)
  BY NatLessThanWellFounded, WFMin
<1>2. \A n \in S : n \in Nat /\ m \in Nat /\ ~(n < m)
  BY <1>1 DEF OpToRel
<1> QED
  BY <1>2

Ascending(a, b) == \E i \in 1 .. 8 : a[i] < b[i] /\ \A j \in 1 .. (i - 1) : a[j] = b[j]

\* Eight numbers compared one after the other: an order.
LEMMA AscendingIsAnOrder ==
  ASSUME NEW a \in [1 .. 8 -> Int], NEW b \in [1 .. 8 -> Int], NEW c \in [1 .. 8 -> Int]
  PROVE  /\ a = b \/ Ascending(a, b) \/ Ascending(b, a)
         /\ ~(Ascending(a, b) /\ Ascending(b, a))
         /\ Ascending(a, b) /\ Ascending(b, c) => Ascending(a, c)
<1>1. ASSUME a # b PROVE Ascending(a, b) \/ Ascending(b, a)
  <2> DEFINE D == {i \in 1 .. 8 : a[i] # b[i]}
  <2>1. D # {} /\ D \in SUBSET Nat
    BY <1>1
  <2>2. PICK i \in D : \A j \in D : i <= j
    BY <2>1, Least
  <2>3. i \in 1 .. 8 /\ a[i] # b[i] /\ a[i] \in Int /\ b[i] \in Int
    OBVIOUS
  <2>4. \A j \in 1 .. (i - 1) : a[j] = b[j] /\ b[j] = a[j]
    BY <2>2, <2>3
  <2>5. a[i] < b[i] \/ b[i] < a[i]
    BY <2>3
  <2> QED
    BY <2>3, <2>4, <2>5 DEF Ascending
<1>2. ASSUME Ascending(a, b), Ascending(b, a) PROVE FALSE
  <2>1. PICK i \in 1 .. 8 : a[i] < b[i] /\ \A j \in 1 .. (i - 1) : a[j] = b[j]
    BY <1>2 DEF Ascending
  <2>2. PICK j \in 1 .. 8 : b[j] < a[j] /\ \A l \in 1 .. (j - 1) : b[l] = a[l]
    BY <1>2 DEF Ascending
  <2>3. a[i] \in Int /\ b[i] \in Int /\ a[j] \in Int /\ b[j] \in Int
    OBVIOUS
  <2>4. CASE i < j
    <3>1. i \in 1 .. (j - 1)
      BY <2>4
    <3> QED
      BY <2>1, <2>2, <2>3, <3>1
  <2>5. CASE j < i
    <3>1. j \in 1 .. (i - 1)
      BY <2>5
    <3> QED
      BY <2>1, <2>2, <2>3, <3>1
  <2>6. CASE i = j
    BY <2>1, <2>2, <2>3, <2>6
  <2> QED
    BY <2>4, <2>5, <2>6
<1>3. ASSUME Ascending(a, b), Ascending(b, c) PROVE Ascending(a, c)
  <2>1. PICK i \in 1 .. 8 : a[i] < b[i] /\ \A l \in 1 .. (i - 1) : a[l] = b[l]
    BY <1>3 DEF Ascending
  <2>2. PICK j \in 1 .. 8 : b[j] < c[j] /\ \A l \in 1 .. (j - 1) : b[l] = c[l]
    BY <1>3 DEF Ascending
  <2>3. PICK m \in 1 .. 8 : m <= i /\ m <= j /\ (m = i \/ m = j)
    <3>1. CASE i <= j
      BY <3>1
    <3>2. CASE j <= i
      BY <3>2
    <3> QED
      BY <3>1, <3>2
  <2>4. \A l \in 1 .. (m - 1) : l \in 1 .. (i - 1) /\ l \in 1 .. (j - 1)
    BY <2>3
  <2>5. \A l \in 1 .. (m - 1) : a[l] = c[l]
    BY <2>1, <2>2, <2>4
  <2>6. a[m] \in Int /\ b[m] \in Int /\ c[m] \in Int
    OBVIOUS
  <2>7. m = i \/ m \in 1 .. (i - 1)
    BY <2>3
  <2>8. m = j \/ m \in 1 .. (j - 1)
    BY <2>3
  <2>9. a[m] < c[m]
    BY <2>1, <2>2, <2>3, <2>6, <2>7, <2>8
  <2> QED
    BY <2>5, <2>9 DEF Ascending
<1> QED
  BY <1>1, <1>2, <1>3

CandidateFields == {"provider", "peerSupported", "withinLimits", "routeResolved",
                    "securitySatisfied", "probeState", "probe", "rejectionReason"}

\* Candidates with what selectTransport says of them: one for each kind of provider.
Described(c) ==
  /\ DOMAIN c = CandidateFields
  /\ c.provider.kind \in Hosts!Kinds
  /\ c.provider.id \in Int /\ c.provider.units \in Int /\ c.provider.rank \in Int
  /\ c.probe \in Hosts!Measures

Judgement(V) ==
  /\ IsFiniteSet(V) /\ \A c \in V : Described(c)
  /\ \A c, d \in V : c.provider.kind = d.provider.kind => c = d

\* What the comparison looks at, in its order, when all costs are of one model.
Weight(c, policy, model) ==
  [i \in 1 .. 8 |->
    CASE i = 1 -> - c.probe.successCount
      [] i = 2 -> - c.probe.throughput
      [] i = 3 -> c.probe.rtt
      [] i = 4 -> IF model # 0 THEN c.provider.units ELSE 0
      [] i = 5 -> IF c.provider.kind = policy.kind THEN 0 ELSE 1
      [] i = 6 -> c.provider.rank
      [] i = 7 -> Hosts!transportNumericId[c.provider.kind]
      [] i = 8 -> c.provider.id]

LEMMA WeightFacts ==
  ASSUME NEW V, Judgement(V), NEW policy, NEW model,
         NEW c \in V, NEW d \in V, c.provider.model = model, d.provider.model = model
  PROVE  /\ Weight(c, policy, model) \in [1 .. 8 -> Int]
         /\ Weight(c, policy, model) = Weight(d, policy, model) => c = d
         /\ Hosts!GoesBefore(c, d, policy) <=>
              Ascending(Weight(c, policy, model), Weight(d, policy, model))
<1>1. \A k \in Hosts!Kinds : Hosts!transportNumericId[k] \in Int
  BY DEF Hosts!Kinds, Hosts!transportNumericId
<1>2. \A k, m \in Hosts!Kinds : Hosts!transportNumericId[k] = Hosts!transportNumericId[m] => k = m
  BY DEF Hosts!Kinds, Hosts!transportNumericId
<1>3. ASSUME NEW e \in V
      PROVE  /\ e.provider.kind \in Hosts!Kinds
             /\ e.provider.id \in Int /\ e.provider.units \in Int /\ e.provider.rank \in Int
             /\ e.probe.successCount \in Int /\ e.probe.throughput \in Int /\ e.probe.rtt \in Int
             /\ Hosts!transportNumericId[e.provider.kind] \in Int
  BY <1>1 DEF Judgement, Described, Hosts!Measures
<1> DEFINE w(e) == Weight(e, policy, model)
<1>4. ASSUME NEW e \in V
      PROVE  /\ DOMAIN w(e) = 1 .. 8 /\ w(e) \in [1 .. 8 -> Int]
             /\ w(e)[1] = - e.probe.successCount /\ w(e)[2] = - e.probe.throughput
             /\ w(e)[3] = e.probe.rtt
             /\ w(e)[4] = IF model # 0 THEN e.provider.units ELSE 0
             /\ w(e)[5] = IF e.provider.kind = policy.kind THEN 0 ELSE 1
             /\ w(e)[6] = e.provider.rank
             /\ w(e)[7] = Hosts!transportNumericId[e.provider.kind]
             /\ w(e)[8] = e.provider.id
  BY <1>3 DEF Weight
<1> HIDE DEF w
<1>5. ASSUME w(c) = w(d) PROVE c = d
  <2>1. c.provider.kind = d.provider.kind
    BY <1>2, <1>3, <1>4, <1>5
  <2> QED
    BY <2>1 DEF Judgement
<1>6. \A i \in 1 .. 8 : Hosts!Criteria(c, d, policy)[i] = w(c)[i] - w(d)[i]
  BY <1>3, <1>4 DEF Hosts!Criteria, Hosts!CostDifference, Hosts!PreferenceDifference
<1>7. DOMAIN Hosts!Criteria(c, d, policy) = 1 .. 8
  BY DEF Hosts!Criteria
<1>8. \A i \in 1 .. 8 : w(c)[i] \in Int /\ w(d)[i] \in Int
  BY <1>4
<1> DEFINE difference == Hosts!Criteria(c, d, policy)
<1>9. \A i \in 1 .. 8 : (difference[i] < 0 <=> w(c)[i] < w(d)[i]) /\ (difference[i] = 0 <=> w(c)[i] = w(d)[i])
  <2> SUFFICES ASSUME NEW i \in 1 .. 8
               PROVE  (difference[i] < 0 <=> w(c)[i] < w(d)[i]) /\ (difference[i] = 0 <=> w(c)[i] = w(d)[i])
    OBVIOUS
  <2>1. difference[i] = w(c)[i] - w(d)[i] /\ w(c)[i] \in Int /\ w(d)[i] \in Int
    BY <1>6, <1>8
  <2> HIDE DEF difference
  <2> QED
    BY <2>1
<1>10. Hosts!GoesBefore(c, d, policy) <=>
         \E i \in 1 .. 8 : difference[i] < 0 /\ \A j \in 1 .. (i - 1) : difference[j] = 0
  BY <1>7 DEF Hosts!GoesBefore
<1> HIDE DEF difference
<1>11. Hosts!GoesBefore(c, d, policy) <=> Ascending(w(c), w(d))
  <2>1. \A i \in 1 .. 8 : \A j \in 1 .. (i - 1) : j \in 1 .. 8
    OBVIOUS
  <2> QED
    BY <1>9, <1>10, <2>1 DEF Ascending
<1> QED
  BY <1>4, <1>5, <1>11 DEF w

\* What is arranged by the comparison, of one cost model, ascends from place to place.
LEMMA ArrangementAscends ==
  ASSUME NEW V, Judgement(V), NEW policy, NEW model,
         NEW A \in SUBSET V, \A c \in A : c.provider.model = model,
         NEW s \in Hosts!Arrangements(A, policy), NEW i \in DOMAIN s
  PROVE  \A j \in DOMAIN s : i < j =>
           Ascending(Weight(s[i], policy, model), Weight(s[j], policy, model))
<1> DEFINE w(j) == Weight(s[j], policy, model)
           n == Cardinality(A)
           Bad == {j \in 1 .. n : i < j /\ ~Ascending(w(i), w(j))}
<1>1. IsFiniteSet(A) /\ s \in Hosts!SetToSeqs(A)
  BY FS_Subset DEF Judgement, Hosts!Arrangements
<1>2. /\ n \in Nat /\ s \in [1 .. n -> A] /\ DOMAIN s = 1 .. n /\ Len(s) = n
      /\ \A j, l \in DOMAIN s : s[j] = s[l] => j = l
  BY <1>1, Arranged
<1>3. \A j \in 1 .. (n - 1) : ~Hosts!GoesBefore(s[j + 1], s[j], policy)
  BY <1>2 DEF Hosts!Arrangements
<1>4. \A j \in 1 .. n : s[j] \in V /\ s[j].provider.model = model /\ w(j) \in [1 .. 8 -> Int]
  <2>1. \A j \in 1 .. n : s[j] \in V /\ s[j].provider.model = model
    BY <1>2
  <2> QED
    BY <2>1, WeightFacts
<1> HIDE DEF n
<1>5. ASSUME NEW j \in 1 .. (n - 1) PROVE Ascending(w(j), w(j + 1))
  <2>1. j \in 1 .. n /\ j + 1 \in 1 .. n
    BY <1>2
  <2>2. s[j] \in V /\ s[j + 1] \in V /\ s[j].provider.model = model /\ s[j + 1].provider.model = model
    BY <1>4, <2>1
  <2>3. w(j) # w(j + 1)
    <3>1. s[j] # s[j + 1]
      BY <1>2, <2>1
    <3> QED
      BY <2>2, <3>1, WeightFacts
  <2>4. ~Ascending(w(j + 1), w(j))
    BY <1>3, <2>2, WeightFacts
  <2>5. w(j) \in [1 .. 8 -> Int] /\ w(j + 1) \in [1 .. 8 -> Int]
    BY <1>4, <2>1
  <2> HIDE DEF w
  <2> QED
    BY <2>3, <2>4, <2>5, AscendingIsAnOrder
<1> HIDE DEF w
<1>6. Bad = {}
  <2> SUFFICES ASSUME Bad # {} PROVE FALSE
    OBVIOUS
  <2>1. Bad \in SUBSET Nat
    BY <1>2
  <2>2. PICK j \in Bad : \A l \in Bad : j <= l
    BY <2>1, Least
  <2>3. j \in 1 .. n /\ i < j /\ ~Ascending(w(i), w(j)) /\ i \in 1 .. n
    BY <1>2
  <2>4. j - 1 \in 1 .. (n - 1) /\ j - 1 \in 1 .. n /\ (j - 1) + 1 = j /\ ~(j <= j - 1)
    BY <1>2, <2>3
  <2>5. Ascending(w(j - 1), w(j))
    BY <1>5, <2>4
  <2>6. i # j - 1
    BY <2>3, <2>5
  <2>7. Ascending(w(i), w(j - 1))
    <3>1. i < j - 1
      BY <2>3, <2>4, <2>6
    <3>2. j - 1 \notin Bad
      BY <2>2, <2>4
    <3> QED
      BY <2>4, <3>1, <3>2
  <2>8. w(i) \in [1 .. 8 -> Int] /\ w(j - 1) \in [1 .. 8 -> Int] /\ w(j) \in [1 .. 8 -> Int]
    BY <1>4, <2>3, <2>4
  <2> QED
    BY <2>3, <2>5, <2>7, <2>8, AscendingIsAnOrder
<1> QED
  BY <1>2, <1>6 DEF w

\* So there is only one such arrangement.
LEMMA OneArrangement ==
  ASSUME NEW V, Judgement(V), NEW policy, NEW model,
         NEW A \in SUBSET V, \A c \in A : c.provider.model = model,
         NEW s \in Hosts!Arrangements(A, policy), NEW t \in Hosts!Arrangements(A, policy)
  PROVE  s = t
<1> DEFINE W(c) == Weight(c, policy, model)
           n == Cardinality(A)
           Bad == {i \in 1 .. n : s[i] # t[i]}
<1>1. IsFiniteSet(A)
  BY FS_Subset DEF Judgement
<1>2. /\ n \in Nat /\ s \in [1 .. n -> A] /\ DOMAIN s = 1 .. n
      /\ \A j, l \in DOMAIN s : s[j] = s[l] => j = l
      /\ \A x \in A : \E j \in DOMAIN s : s[j] = x
  BY <1>1, Arranged DEF Hosts!Arrangements
<1>3. /\ t \in [1 .. n -> A] /\ DOMAIN t = 1 .. n
      /\ \A j, l \in DOMAIN t : t[j] = t[l] => j = l
      /\ \A x \in A : \E j \in DOMAIN t : t[j] = x
  BY <1>1, Arranged DEF Hosts!Arrangements
<1>4. \A i, j \in 1 .. n : i < j => Ascending(W(s[i]), W(s[j])) /\ Ascending(W(t[i]), W(t[j]))
  BY <1>2, <1>3, ArrangementAscends
<1>5. \A c \in A : W(c) \in [1 .. 8 -> Int]
  BY WeightFacts
<1> HIDE DEF n, W
<1>6. Bad = {}
  <2> SUFFICES ASSUME Bad # {} PROVE FALSE
    OBVIOUS
  <2>1. Bad \in SUBSET Nat
    BY <1>2
  <2>2. PICK i \in Bad : \A l \in Bad : i <= l
    BY <2>1, Least
  <2>3. i \in 1 .. n /\ s[i] # t[i] /\ s[i] \in A /\ t[i] \in A
    BY <1>2, <1>3
  <2>4. \A l \in 1 .. n : l < i => s[l] = t[l]
    <3>1. \A l \in 1 .. n : l < i => ~(i <= l)
      BY <2>3
    <3> QED
      BY <2>2, <3>1
  <2>5. PICK j \in 1 .. n : s[j] = t[i]
    BY <1>2, <2>3
  <2>6. PICK l \in 1 .. n : t[l] = s[i]
    BY <1>3, <2>3
  <2>7. i < j
    BY <1>3, <2>3, <2>4, <2>5
  <2>8. i < l
    BY <1>2, <2>3, <2>4, <2>6
  <2>9. Ascending(W(s[i]), W(t[i])) /\ Ascending(W(t[i]), W(s[i]))
    BY <1>4, <2>3, <2>5, <2>6, <2>7, <2>8
  <2>10. W(s[i]) \in [1 .. 8 -> Int] /\ W(t[i]) \in [1 .. 8 -> Int]
    BY <1>5, <2>3
  <2> QED
    BY <2>9, <2>10, AscendingIsAnOrder
<1>7. s = [i \in 1 .. n |-> s[i]] /\ t = [i \in 1 .. n |-> t[i]]
  BY <1>2, <1>3
<1>8. \A i \in 1 .. n : s[i] = t[i]
  BY <1>6
<1> HIDE DEF Bad
<1> QED
  BY <1>7, <1>8

\* Whatever the models, nobody was measured better than the first.
LEMMA BestIsFirst ==
  ASSUME NEW V, Judgement(V), NEW policy,
         NEW A \in SUBSET V, NEW s \in Hosts!Arrangements(A, policy)
  PROVE  \A i \in DOMAIN s : ~Hosts!Better(s[i].probe, s[1].probe)
<1> DEFINE n == Cardinality(A)
           p(i) == s[i].probe
           Bad == {i \in 1 .. n : Hosts!Better(p(i), p(1))}
<1>1. IsFiniteSet(A) /\ s \in Hosts!SetToSeqs(A)
  BY FS_Subset DEF Judgement, Hosts!Arrangements
<1>2. n \in Nat /\ s \in [1 .. n -> A] /\ DOMAIN s = 1 .. n /\ Len(s) = n
  BY <1>1, Arranged
<1>3. \A j \in 1 .. (n - 1) : ~Hosts!GoesBefore(s[j + 1], s[j], policy)
  BY <1>2 DEF Hosts!Arrangements
<1>4. \A i \in 1 .. n : p(i).successCount \in Nat /\ p(i).throughput \in Nat /\ p(i).rtt \in Nat
  <2>1. \A i \in 1 .. n : s[i] \in V
    BY <1>2
  <2> QED
    BY <2>1 DEF Judgement, Described, Hosts!Measures
<1> HIDE DEF n
<1>5. ASSUME NEW j \in 1 .. (n - 1) PROVE ~Hosts!Better(p(j + 1), p(j))
  <2>1. j \in 1 .. n /\ j + 1 \in 1 .. n
    BY <1>2
  <2>2. LET d == Hosts!Criteria(s[j + 1], s[j], policy)
        IN  /\ DOMAIN d = 1 .. 8
            /\ d[1] = p(j).successCount - p(j + 1).successCount
            /\ d[2] = p(j).throughput - p(j + 1).throughput
            /\ d[3] = p(j + 1).rtt - p(j).rtt
    BY DEF Hosts!Criteria
  <2>3. ASSUME NEW m \in 1 .. 3, Hosts!Criteria(s[j + 1], s[j], policy)[m] < 0,
               \A l \in 1 .. (m - 1) : Hosts!Criteria(s[j + 1], s[j], policy)[l] = 0
        PROVE  FALSE
    BY <1>3, <2>2, <2>3 DEF Hosts!GoesBefore
  <2> DEFINE d == Hosts!Criteria(s[j + 1], s[j], policy)
  <2>4. ~(d[1] < 0) /\ ~(d[2] < 0 /\ d[1] = 0) /\ ~(d[3] < 0 /\ d[1] = 0 /\ d[2] = 0)
    BY <2>3
  <2> HIDE DEF d, p
  <2>5. /\ d[1] = p(j).successCount - p(j + 1).successCount
        /\ d[2] = p(j).throughput - p(j + 1).throughput
        /\ d[3] = p(j + 1).rtt - p(j).rtt
    BY <2>2 DEF d
  <2> QED
    BY <1>4, <2>1, <2>4, <2>5 DEF Hosts!Better
<1> HIDE DEF p
<1>6. Bad = {}
  <2> SUFFICES ASSUME Bad # {} PROVE FALSE
    OBVIOUS
  <2>1. Bad \in SUBSET Nat
    BY <1>2
  <2>2. PICK i \in Bad : \A l \in Bad : i <= l
    BY <2>1, Least
  <2>3. i \in 1 .. n /\ Hosts!Better(p(i), p(1))
    OBVIOUS
  <2>4. 1 \in 1 .. n
    BY <1>2, <2>3
  <2>5. i # 1
    BY <1>4, <2>3, <2>4 DEF Hosts!Better
  <2>6. i - 1 \in 1 .. (n - 1) /\ i - 1 \in 1 .. n /\ (i - 1) + 1 = i /\ ~(i <= i - 1)
    BY <1>2, <2>3, <2>5
  <2>7. ~Hosts!Better(p(i), p(i - 1))
    BY <1>5, <2>6
  <2>8. ~Hosts!Better(p(i - 1), p(1))
    BY <2>2, <2>6
  <2> QED
    BY <1>4, <2>3, <2>4, <2>6, <2>7, <2>8 DEF Hosts!Better
<1> QED
  BY <1>2, <1>6 DEF p

UnreasonedOf(V) == {c \in V : c.rejectionReason = "none"}
MeasuredOf(V) == {c \in UnreasonedOf(V) : c.probeState = "succeeded"}

\* The order has candidates of different kinds, without a reason against them; one of
\* several is an arrangement of the measured.
LEMMA PlacedFacts ==
  ASSUME NEW V, Judgement(V), NEW policy,
         NEW order \in Hosts!Orders(UnreasonedOf(V), policy)
  PROVE  /\ order \in Seq(Hosts!ToSet(order))
         /\ \A i \in DOMAIN order :
              /\ order[i].rejectionReason = "none"
              /\ \E c \in V : order[i].provider = c.provider
         /\ \A i, j \in DOMAIN order : order[i].provider.kind = order[j].provider.kind => i = j
         /\ Len(order) > 1 =>
              /\ order \in Hosts!Arrangements(MeasuredOf(V), policy)
              /\ Hosts!ToSet(order) = MeasuredOf(V)
<1> DEFINE L == UnreasonedOf(V)
           A == MeasuredOf(V)
           Alone(c) == [c EXCEPT !.probeState = "not-run", !.probe = Hosts!NoMetrics]
           B == {Alone(c) : c \in L}
<1>1. IsFiniteSet(V) /\ L \in SUBSET V /\ A \in SUBSET V /\ IsFiniteSet(L) /\ IsFiniteSet(A)
  BY FS_Subset DEF Judgement, UnreasonedOf, MeasuredOf
<1>2. IsFiniteSet(B)
  <2> DEFINE f == [c \in L |-> Alone(c)]
  <2>1. f \in [L -> B] /\ \A b \in B : \E c \in L : f[c] = b
    OBVIOUS
  <2> HIDE DEF f, B, L
  <2>2. f \in Surjection(L, B)
    BY <2>1, Fun_IsSurj
  <2> QED
    BY <1>1, <2>2, FS_Surjection
<1>3. \A c \in L : c \in V /\ c.rejectionReason = "none" /\ DOMAIN c = CandidateFields
  BY DEF UnreasonedOf, Judgement, Described
<1>4. \A c \in L : Alone(c).provider = c.provider /\ Alone(c).rejectionReason = "none"
  BY <1>3 DEF CandidateFields
<1>5. ASSUME NEW S, IsFiniteSet(S), order \in Hosts!SetToSeqs(S)
      PROVE  /\ order \in Seq(Hosts!ToSet(order)) /\ Hosts!ToSet(order) = S
             /\ \A i \in DOMAIN order : order[i] \in S
             /\ \A i, j \in DOMAIN order : order[i] = order[j] => i = j
             /\ DOMAIN order = 1 .. Len(order) /\ Len(order) \in Nat
  <2>1. /\ order \in Seq(S) /\ order \in [1 .. Cardinality(S) -> S]
        /\ Cardinality(S) \in Nat /\ Len(order) = Cardinality(S)
        /\ \A i, j \in DOMAIN order : order[i] = order[j] => i = j
        /\ \A x \in S : \E i \in DOMAIN order : order[i] = x
    BY <1>5, Arranged
  <2>2. Hosts!ToSet(order) = S
    BY <2>1 DEF Hosts!ToSet
  <2> QED
    BY <2>1, <2>2
<1>6. CASE Hosts!Several(L)
  <2>1. order \in Hosts!Arrangements(A, policy) /\ order \in Hosts!SetToSeqs(A)
    BY <1>6 DEF Hosts!Orders, Hosts!Arrangements, MeasuredOf
  <2>2. /\ order \in Seq(Hosts!ToSet(order)) /\ Hosts!ToSet(order) = A
        /\ \A i \in DOMAIN order : order[i] \in A
        /\ \A i, j \in DOMAIN order : order[i] = order[j] => i = j
    BY <1>1, <1>5, <2>1
  <2>3. \A c \in A : c \in V /\ c.rejectionReason = "none"
    BY DEF UnreasonedOf, MeasuredOf
  <2>4. \A c, d \in V : c.provider.kind = d.provider.kind => c = d
    BY DEF Judgement
  <2> QED
    BY <2>1, <2>2, <2>3, <2>4
<1>7. CASE ~Hosts!Several(L)
  <2>1. order \in Hosts!SetToSeqs(B)
    BY <1>7 DEF Hosts!Orders
  <2>2. /\ order \in Seq(Hosts!ToSet(order))
        /\ \A i \in DOMAIN order : order[i] \in B
        /\ \A i, j \in DOMAIN order : order[i] = order[j] => i = j
        /\ DOMAIN order = 1 .. Len(order) /\ Len(order) \in Nat
    BY <1>2, <1>5, <2>1
  <2>3. \A c, d \in L : c = d
    BY <1>7 DEF Hosts!Several
  <2>4. \A b \in B : \E c \in L : b = Alone(c)
    OBVIOUS
  <2> HIDE DEF L, B, Alone
  <2>5. \A b, d \in B : b = d
    BY <2>3, <2>4
  <2>6. \A i, j \in DOMAIN order : i = j
    BY <2>2, <2>5
  <2>7. ~(Len(order) > 1)
    <3> SUFFICES ASSUME Len(order) > 1 PROVE FALSE
      OBVIOUS
    <3>1. 1 \in DOMAIN order /\ 2 \in DOMAIN order
      BY <2>2
    <3> QED
      BY <2>6, <3>1
  <2>8. \A i \in DOMAIN order : order[i].rejectionReason = "none" /\ \E c \in V : order[i].provider = c.provider
    <3> SUFFICES ASSUME NEW i \in DOMAIN order
                 PROVE  order[i].rejectionReason = "none" /\ \E c \in V : order[i].provider = c.provider
      OBVIOUS
    <3>1. PICK c \in L : order[i] = Alone(c)
      BY <2>2, <2>4
    <3> QED
      BY <1>3, <1>4, <3>1
  <2> QED
    BY <2>2, <2>6, <2>7, <2>8
<1> QED
  BY <1>6, <1>7

\* Who has no place is rejected, once, with a reason.
LEMMA RejectedFacts ==
  ASSUME NEW V, Judgement(V), NEW order,
         NEW rejected \in Hosts!Rejections(V, order)
  PROVE  LET chosen == {Hosts!Key(order[i].provider) : i \in DOMAIN order}
         IN  /\ rejected \in Seq(Hosts!ToSet(rejected))
             /\ \A i \in DOMAIN rejected :
                  /\ rejected[i].rejectionReason # "none"
                  /\ \E c \in V : rejected[i].provider = c.provider /\ Hosts!Key(c.provider) \notin chosen
             /\ \A i, j \in DOMAIN rejected :
                  rejected[i].provider.kind = rejected[j].provider.kind => i = j
             /\ \A c \in V : Hosts!Key(c.provider) \in chosen
                             \/ \E i \in DOMAIN rejected : rejected[i].provider = c.provider
<1> DEFINE chosen == {Hosts!Key(order[i].provider) : i \in DOMAIN order}
           U == {c \in V : Hosts!Key(c.provider) \notin chosen}
           left == {Hosts!Explained(c) : c \in U}
<1>1. rejected \in Hosts!SetToSeqs(left)
  BY DEF Hosts!Rejections
<1> HIDE DEF chosen
<1>2. IsFiniteSet(U)
  BY FS_Subset, U \in SUBSET V DEF Judgement
<1>3. IsFiniteSet(left)
  <2> DEFINE f == [c \in U |-> Hosts!Explained(c)]
  <2>1. f \in [U -> left] /\ \A b \in left : \E c \in U : f[c] = b
    OBVIOUS
  <2> HIDE DEF f, left, U
  <2>2. f \in Surjection(U, left)
    BY <2>1, Fun_IsSurj
  <2> QED
    BY <1>2, <2>2, FS_Surjection
<1>4. ASSUME NEW c \in V
      PROVE  Hosts!Explained(c).provider = c.provider /\ Hosts!Explained(c).rejectionReason # "none"
  <2>1. DOMAIN c = CandidateFields
    BY DEF Judgement, Described
  <2>2. CASE c.rejectionReason # "none"
    BY <2>2 DEF Hosts!Explained
  <2>3. CASE c.rejectionReason = "none" /\ c.probeState = "failed"
    <3>1. Hosts!Explained(c) = [c EXCEPT !.probeState = "failed", !.rejectionReason = "probe-failed"]
      BY <2>3 DEF Hosts!Explained
    <3> QED
      BY <2>1, <3>1 DEF CandidateFields
  <2>4. CASE c.rejectionReason = "none" /\ c.probeState # "failed"
    <3>1. Hosts!Explained(c) = [c EXCEPT !.probeState = "missing", !.rejectionReason = "probe-missing"]
      BY <2>4 DEF Hosts!Explained
    <3> QED
      BY <2>1, <3>1 DEF CandidateFields
  <2> QED
    BY <2>2, <2>3, <2>4
<1>5. \A c \in U : c \in V /\ Hosts!Key(c.provider) \notin chosen /\ Hosts!Explained(c) \in left
  OBVIOUS
<1>6. \A x \in left : \E c \in U : x = Hosts!Explained(c)
  OBVIOUS
<1>7. \A c \in V : Hosts!Key(c.provider) \in chosen \/ c \in U
  OBVIOUS
<1> HIDE DEF left, U
<1>8. /\ rejected \in Seq(left) /\ rejected \in [1 .. Cardinality(left) -> left]
      /\ \A i, j \in DOMAIN rejected : rejected[i] = rejected[j] => i = j
      /\ \A x \in left : \E i \in DOMAIN rejected : rejected[i] = x
  BY <1>1, <1>3, Arranged
<1>9. Hosts!ToSet(rejected) = left
  BY <1>8 DEF Hosts!ToSet
<1>10. ASSUME NEW i \in DOMAIN rejected
       PROVE  \E c \in U : rejected[i] = Hosts!Explained(c)
  BY <1>6, <1>8
<1>11. \A i \in DOMAIN rejected :
         /\ rejected[i].rejectionReason # "none"
         /\ \E c \in V : rejected[i].provider = c.provider /\ Hosts!Key(c.provider) \notin chosen
  BY <1>4, <1>5, <1>10
<1>12. ASSUME NEW i \in DOMAIN rejected, NEW j \in DOMAIN rejected,
              rejected[i].provider.kind = rejected[j].provider.kind
       PROVE  i = j
  <2>1. PICK c \in U : rejected[i] = Hosts!Explained(c)
    BY <1>10
  <2>2. PICK d \in U : rejected[j] = Hosts!Explained(d)
    BY <1>10
  <2>3. c = d
    BY <1>4, <1>5, <1>12, <2>1, <2>2 DEF Judgement
  <2> QED
    BY <1>8, <2>1, <2>2, <2>3
<1>13. \A c \in V : Hosts!Key(c.provider) \in chosen
                    \/ \E i \in DOMAIN rejected : rejected[i].provider = c.provider
  BY <1>4, <1>5, <1>7, <1>8
<1> QED
  BY <1>8, <1>9, <1>11, <1>12, <1>13 DEF chosen

\* Order and rejections together: one verdict for each candidate.
LEMMA VerdictFacts ==
  ASSUME NEW V, Judgement(V), NEW policy,
         NEW order \in Hosts!Orders(UnreasonedOf(V), policy),
         NEW rejected \in Hosts!Rejections(V, order)
  PROVE  LET verdicts == order \o rejected
         IN  /\ \A i, j \in DOMAIN verdicts : verdicts[i].provider.kind = verdicts[j].provider.kind => i = j
             /\ {verdicts[i].provider : i \in DOMAIN verdicts} = {c.provider : c \in V}
             /\ \A i \in DOMAIN verdicts : (verdicts[i].rejectionReason = "none") <=> i <= Len(order)
<1> DEFINE verdicts == order \o rejected
           T == Hosts!ToSet(order) \cup Hosts!ToSet(rejected)
           n == Len(order)
           chosen == {Hosts!Key(order[i].provider) : i \in DOMAIN order}
<1>1. /\ order \in Seq(Hosts!ToSet(order))
      /\ \A i \in DOMAIN order : /\ order[i].rejectionReason = "none"
                                 /\ \E c \in V : order[i].provider = c.provider
      /\ \A i, j \in DOMAIN order : order[i].provider.kind = order[j].provider.kind => i = j
  BY PlacedFacts
<1>2. /\ rejected \in Seq(Hosts!ToSet(rejected))
      /\ \A i \in DOMAIN rejected :
           /\ rejected[i].rejectionReason # "none"
           /\ \E c \in V : rejected[i].provider = c.provider /\ Hosts!Key(c.provider) \notin chosen
      /\ \A i, j \in DOMAIN rejected : rejected[i].provider.kind = rejected[j].provider.kind => i = j
      /\ \A c \in V : Hosts!Key(c.provider) \in chosen
                      \/ \E i \in DOMAIN rejected : rejected[i].provider = c.provider
  BY RejectedFacts
<1>3. order \in Seq(T) /\ rejected \in Seq(T)
  BY <1>1, <1>2
<1>4. \A c, d \in V : c.provider.kind = d.provider.kind => c = d
  BY DEF Judgement
<1>5. \A x \in chosen : \E i \in DOMAIN order : x = Hosts!Key(order[i].provider)
  OBVIOUS
<1>6. \A i \in DOMAIN order : Hosts!Key(order[i].provider) \in chosen
  OBVIOUS
<1> HIDE DEF T, chosen
<1>7. /\ n \in Nat /\ DOMAIN order = 1 .. n /\ Len(rejected) \in Nat /\ DOMAIN rejected = 1 .. Len(rejected)
      /\ verdicts \in Seq(T) /\ Len(verdicts) = n + Len(rejected) /\ DOMAIN verdicts = 1 .. n + Len(rejected)
      /\ \A i \in DOMAIN verdicts : verdicts[i] = IF i <= n THEN order[i] ELSE rejected[i - n]
  BY <1>3, LenProperties, ConcatProperties
<1> HIDE DEF verdicts, n
<1>8. \A i \in DOMAIN verdicts : i <= n => i \in DOMAIN order /\ verdicts[i] = order[i]
  BY <1>7
<1>9. \A i \in DOMAIN verdicts : ~(i <= n) => i - n \in DOMAIN rejected /\ verdicts[i] = rejected[i - n]
  BY <1>7
<1>10. \A i \in DOMAIN order : i \in DOMAIN verdicts /\ verdicts[i] = order[i]
  BY <1>7
<1>11. \A i \in DOMAIN rejected : i + n \in DOMAIN verdicts /\ verdicts[i + n] = rejected[i]
  BY <1>7
<1>12. \A i \in DOMAIN order, j \in DOMAIN rejected : order[i].provider.kind # rejected[j].provider.kind
  <2> SUFFICES ASSUME NEW i \in DOMAIN order, NEW j \in DOMAIN rejected,
                      order[i].provider.kind = rejected[j].provider.kind
               PROVE  FALSE
    OBVIOUS
  <2>1. PICK c \in V : order[i].provider = c.provider
    BY <1>1
  <2>2. PICK d \in V : rejected[j].provider = d.provider /\ Hosts!Key(d.provider) \notin chosen
    BY <1>2
  <2>3. c = d
    BY <1>4, <2>1, <2>2
  <2> QED
    BY <1>6, <2>1, <2>2, <2>3
<1>13. ASSUME NEW i \in DOMAIN verdicts, NEW j \in DOMAIN verdicts,
              verdicts[i].provider.kind = verdicts[j].provider.kind
       PROVE  i = j
  <2>1. i \in Int /\ j \in Int
    BY <1>7
  <2>2. CASE i <= n /\ j <= n
    BY <1>1, <1>8, <1>13, <2>2
  <2>3. CASE i <= n /\ ~(j <= n)
    BY <1>8, <1>9, <1>12, <1>13, <2>3
  <2>4. CASE ~(i <= n) /\ j <= n
    BY <1>8, <1>9, <1>12, <1>13, <2>4
  <2>5. CASE ~(i <= n) /\ ~(j <= n)
    <3>1. i - n = j - n
      BY <1>2, <1>9, <1>13, <2>5
    <3> QED
      BY <1>7, <2>1, <3>1
  <2> QED
    BY <2>2, <2>3, <2>4, <2>5
<1>14. \A i \in DOMAIN verdicts : (verdicts[i].rejectionReason = "none") <=> i <= n
  BY <1>1, <1>2, <1>8, <1>9
<1>15. \A i \in DOMAIN verdicts : \E c \in V : verdicts[i].provider = c.provider
  BY <1>1, <1>2, <1>8, <1>9
<1>16. ASSUME NEW c \in V PROVE \E i \in DOMAIN verdicts : verdicts[i].provider = c.provider
  <2>1. CASE Hosts!Key(c.provider) \in chosen
    <3>1. PICK i \in DOMAIN order : Hosts!Key(c.provider) = Hosts!Key(order[i].provider)
      BY <1>5, <2>1
    <3>2. PICK d \in V : order[i].provider = d.provider
      BY <1>1
    <3>3. c = d
      BY <1>4, <3>1, <3>2 DEF Hosts!Key
    <3> QED
      BY <1>10, <3>2, <3>3
  <2>2. CASE Hosts!Key(c.provider) \notin chosen
    BY <1>2, <1>11, <2>2
  <2> QED
    BY <2>1, <2>2
<1>17. {verdicts[i].provider : i \in DOMAIN verdicts} = {c.provider : c \in V}
  BY <1>15, <1>16
<1> QED
  BY <1>13, <1>14, <1>17 DEF verdicts, n

\* A provider with what selectTransport says of it.
Judged(p, options) ==
  LET c == Hosts!Candidate(p, options)
  IN  [c EXCEPT !.rejectionReason = Hosts!RejectionReason(c, options.policy)]
JudgedSet(providers, options) == {Judged(p, options) : p \in Hosts!ToSet(providers)}

WellDescribed(p) == p.kind \in Hosts!Kinds /\ p.id \in Int /\ p.units \in Int /\ p.rank \in Int
MeasuresOnly(options) ==
  \A i \in DOMAIN options.observations : options.observations[i].metrics \in Hosts!Measures

LEMMA JudgedFacts ==
  ASSUME NEW options, MeasuresOnly(options), NEW p, WellDescribed(p)
  PROVE  Judged(p, options).provider = p /\ Described(Judged(p, options))
<1> DEFINE c == Hosts!Candidate(p, options)
           o == {x \in Hosts!ToSet(options.observations) : Hosts!Key(x) = Hosts!Key(p)}
           r == CHOOSE x \in Hosts!ToSet(options.readiness) : Hosts!Key(x) = Hosts!Key(p)
           ob == IF o = {} THEN [state |-> "not-run", metrics |-> Hosts!NoMetrics] ELSE CHOOSE x \in o : TRUE
           reason == Hosts!RejectionReason(c, options.policy)
<1>1. c = [provider |-> p, peerSupported |-> p.kind \in options.peerSupportedTransports,
           withinLimits |-> options.requestedMaxFrameBytes <= p.limit,
           routeResolved |-> r.route, securitySatisfied |-> r.security,
           probeState |-> ob.state, probe |-> ob.metrics, rejectionReason |-> "none"]
  BY DEF Hosts!Candidate
<1>2. ob.metrics \in Hosts!Measures
  <2>1. CASE o = {}
    BY <2>1 DEF Hosts!NoMetrics, Hosts!Measures
  <2>2. CASE o # {}
    <3>1. \A x \in o : x.metrics \in Hosts!Measures
      BY DEF MeasuresOnly, Hosts!ToSet
    <3> HIDE DEF o
    <3>2. ob \in o
      BY <2>2
    <3> QED
      BY <3>1, <3>2
  <2> QED
    BY <2>1, <2>2
<1>3. Judged(p, options) = [c EXCEPT !.rejectionReason = reason]
  BY DEF Judged
<1> HIDE DEF reason, r, o, ob
<1>4. c.provider = p /\ c.probe = ob.metrics /\ DOMAIN c = CandidateFields
  BY <1>1 DEF CandidateFields
<1> HIDE DEF c
<1>5. /\ Judged(p, options).provider = p /\ Judged(p, options).probe = ob.metrics
      /\ DOMAIN Judged(p, options) = CandidateFields
  BY <1>3, <1>4 DEF CandidateFields
<1> QED
  BY <1>2, <1>5 DEF Described, WellDescribed

LEMMA JudgedSetFacts ==
  ASSUME NEW T, NEW providers \in Seq(T), NEW options, MeasuresOnly(options),
         \A p \in Hosts!ToSet(providers) : WellDescribed(p),
         \A i, j \in DOMAIN providers : providers[i].kind = providers[j].kind => i = j
  PROVE  /\ Judgement(JudgedSet(providers, options))
         /\ {c.provider : c \in JudgedSet(providers, options)} = Hosts!ToSet(providers)
<1> DEFINE P == Hosts!ToSet(providers)
           V == JudgedSet(providers, options)
           f == [p \in P |-> Judged(p, options)]
<1>1. IsFiniteSet(P)
  BY ElementsAreFinite
<1>2. f \in [P -> V] /\ \A c \in V : \E p \in P : f[p] = c
  BY DEF JudgedSet
<1>3. \A p, q \in P : p.kind = q.kind => p = q
  BY DEF Hosts!ToSet
<1>4. \A c \in V : \E p \in P : c = Judged(p, options)
  BY DEF JudgedSet
<1>5. \A p \in P : Judged(p, options) \in V
  BY DEF JudgedSet
<1>6. \A p \in P : Judged(p, options).provider = p /\ Described(Judged(p, options))
  BY JudgedFacts
<1> HIDE DEF P, V, f
<1>7. f \in Surjection(P, V)
  BY <1>2, Fun_IsSurj
<1>8. IsFiniteSet(V)
  BY <1>1, <1>7, FS_Surjection
<1>9. \A c \in V : Described(c) /\ c.provider \in P /\ c = Judged(c.provider, options)
  BY <1>4, <1>6
<1>10. \A c, d \in V : c.provider.kind = d.provider.kind => c = d
  BY <1>3, <1>9
<1>11. {c.provider : c \in V} = P
  BY <1>5, <1>6, <1>9
<1> QED
  BY <1>8, <1>9, <1>10, <1>11 DEF Judgement, P, V

\* What EvidenceDecides says of a selection among providers: the best measured is first,
\* everybody has one verdict, and with one cost model the order is the only one.
Decided(selection, providers) ==
  /\ Len(selection.order) > 1 =>
       \A i \in DOMAIN selection.order :
         ~Hosts!Better(selection.order[i].probe, selection.order[1].probe)
  /\ selection.code # "INVALID_EVIDENCE" =>
       LET verdicts == selection.order \o selection.rejected
       IN  /\ \A i, j \in DOMAIN verdicts : verdicts[i].provider.kind = verdicts[j].provider.kind => i = j
           /\ {verdicts[i].provider : i \in DOMAIN verdicts} = providers
           /\ \A i \in DOMAIN verdicts : (verdicts[i].rejectionReason = "none") <=> i <= Len(selection.order)
  /\ Len(selection.order) > 1 /\ Hosts!SameCostModel(selection.order) =>
       Hosts!Arrangements(Hosts!ToSet(selection.order), selection.policy) = {selection.order}

\* selectTransport decides, whatever providers and evidence it is given.
LEMMA SelectionDecides ==
  ASSUME NEW T, NEW providers \in Seq(T), NEW options, MeasuresOnly(options),
         \A p \in Hosts!ToSet(providers) : WellDescribed(p),
         NEW selection \in Hosts!Selections(providers, options)
  PROVE  Decided(selection, Hosts!ToSet(providers))
<1> DEFINE V == JudgedSet(providers, options)
           candidates == {Hosts!Candidate(p, options) : p \in Hosts!ToSet(providers)}
           evaluated == {[c EXCEPT !.rejectionReason = Hosts!RejectionReason(c, options.policy)] : c \in candidates}
           Code(order) == IF order # <<>> THEN "selected"
                          ELSE IF options.policy.mode = "force" THEN "FORCED_TRANSPORT_UNAVAILABLE"
                          ELSE "NO_VIABLE_TRANSPORT"
<1>1. CASE ~Hosts!ValidEvidence(providers, options)
  <2>1. selection = [code |-> "INVALID_EVIDENCE", order |-> <<>>, rejected |-> <<>>, policy |-> options.policy]
    BY <1>1 DEF Hosts!Selections
  <2>2. selection.code = "INVALID_EVIDENCE" /\ selection.order = <<>> /\ ~(Len(selection.order) > 1)
    BY <2>1
  <2> QED
    BY <2>2 DEF Decided
<1>2. CASE Hosts!ValidEvidence(providers, options)
  <2>1. \A i, j \in DOMAIN providers : providers[i].kind = providers[j].kind => i = j
    BY <1>2 DEF Hosts!ValidEvidence, Hosts!EachOnce
  <2>2. Judgement(V) /\ {c.provider : c \in V} = Hosts!ToSet(providers)
    BY <2>1, JudgedSetFacts
  <2>3. evaluated = V
    BY DEF JudgedSet, Judged
  <2>4. {c \in evaluated : c.rejectionReason = "none"} = UnreasonedOf(V)
    BY <2>3 DEF UnreasonedOf
  <2> DEFINE L == UnreasonedOf(V)
             M == {c \in evaluated : c.rejectionReason = "none"}
             Outcome(order, rejected) ==
               [code |-> Code(order), order |-> order, rejected |-> rejected, policy |-> options.policy]
             Outcomes(judged, eligible) ==
               UNION {{Outcome(order, rejected) : rejected \in Hosts!Rejections(judged, order)} :
                       order \in Hosts!Orders(eligible, options.policy)}
  <2>5. Hosts!Selections(providers, options) = Outcomes(evaluated, M)
    BY <1>2 DEF Hosts!Selections
  <2>6. selection \in Outcomes(V, L)
    <3>1. evaluated = V /\ M = L
      BY <2>3, <2>4
    <3> HIDE DEF evaluated, V, L, M, Outcomes
    <3> QED
      BY <2>5, <3>1
  <2> HIDE DEF evaluated, V, L, M, Outcome
  <2>7. PICK order \in Hosts!Orders(L, options.policy) :
           \E rejected \in Hosts!Rejections(V, order) : selection = Outcome(order, rejected)
    BY <2>6
  <2>8. order \in Hosts!Orders(UnreasonedOf(V), options.policy)
    BY <2>7 DEF L
  <2>9. PICK rejected \in Hosts!Rejections(V, order) : selection = Outcome(order, rejected)
    BY <2>7
  <2>10. selection.order = order /\ selection.rejected = rejected /\ selection.policy = options.policy
    BY <2>9 DEF Outcome
  <2>11. ASSUME Len(order) > 1 PROVE \A i \in DOMAIN order : ~Hosts!Better(order[i].probe, order[1].probe)
    <3>1. order \in Hosts!Arrangements(MeasuredOf(V), options.policy)
      BY <2>2, <2>11, <2>8, PlacedFacts
    <3>2. MeasuredOf(V) \in SUBSET V
      BY DEF MeasuredOf, UnreasonedOf
    <3> QED
      BY <2>2, <3>1, <3>2, BestIsFirst
  <2>12. LET verdicts == order \o rejected
        IN  /\ \A i, j \in DOMAIN verdicts : verdicts[i].provider.kind = verdicts[j].provider.kind => i = j
            /\ {verdicts[i].provider : i \in DOMAIN verdicts} = Hosts!ToSet(providers)
            /\ \A i \in DOMAIN verdicts : (verdicts[i].rejectionReason = "none") <=> i <= Len(order)
    <3> DEFINE verdicts == order \o rejected
    <3>1. /\ \A i, j \in DOMAIN verdicts : verdicts[i].provider.kind = verdicts[j].provider.kind => i = j
          /\ {verdicts[i].provider : i \in DOMAIN verdicts} = {c.provider : c \in V}
          /\ \A i \in DOMAIN verdicts : (verdicts[i].rejectionReason = "none") <=> i <= Len(order)
      BY <2>2, <2>8, <2>9, VerdictFacts
    <3> HIDE DEF verdicts
    <3>2. {verdicts[i].provider : i \in DOMAIN verdicts} = Hosts!ToSet(providers)
      BY <2>2, <3>1
    <3> QED
      BY <3>1, <3>2 DEF verdicts
  <2>13. ASSUME Len(order) > 1, Hosts!SameCostModel(order)
         PROVE  Hosts!Arrangements(Hosts!ToSet(order), options.policy) = {order}
    <3>1. /\ order \in Hosts!Arrangements(MeasuredOf(V), options.policy)
          /\ Hosts!ToSet(order) = MeasuredOf(V)
          /\ order \in Seq(Hosts!ToSet(order))
      BY <2>2, <2>13, <2>8, PlacedFacts
    <3>2. MeasuredOf(V) \in SUBSET V
      BY DEF MeasuredOf, UnreasonedOf
    <3>3. 1 \in DOMAIN order
      BY <2>13, <3>1, LenProperties
    <3>4. \A c \in MeasuredOf(V) : c.provider.model = order[1].provider.model
      <4>1. \A c \in MeasuredOf(V) : \E i \in DOMAIN order : c = order[i]
        BY <3>1 DEF Hosts!ToSet
      <4> QED
        BY <2>13, <3>3, <4>1 DEF Hosts!SameCostModel
    <3> DEFINE model == order[1].provider.model
               A == MeasuredOf(V)
    <3>5. A \in SUBSET V /\ order \in Hosts!Arrangements(A, options.policy) /\ \A c \in A : c.provider.model = model
      BY <3>1, <3>2, <3>4
    <3> HIDE DEF model, A
    <3>6. \A t \in Hosts!Arrangements(A, options.policy) : t = order
      <4> SUFFICES ASSUME NEW t \in Hosts!Arrangements(A, options.policy) PROVE t = order
        OBVIOUS
      <4> QED
        BY <2>2, <3>5, OneArrangement
    <3> QED
      BY <3>1, <3>5, <3>6 DEF A
  <2> QED
    BY <2>10, <2>11, <2>12, <2>13 DEF Decided
<1> QED
  BY <1>1, <1>2

\* What an answer of this host is about.
ToJudge == IF host.role = "client" THEN Hosts!ToSet(Hosts!ClientDescriptors) ELSE Hosts!ToSet(host.providers)

DecisionInv ==
  \A k \in Connects :
    /\ call[k] # "idle" => host.role = "client"
    /\ outcome[k] # Hosts!Unanswered => Decided(outcome[k], ToJudge)

LEMMA InitDecision == Hosts!Init => DecisionInv
BY DEF Hosts!Init, DecisionInv

LEMMA ProvidersAreDescribed ==
  ASSUME host \in Configurations
  PROVE  /\ host.providers \in Seq(Hosts!ToSet(host.providers))
         /\ Hosts!ClientDescriptors \in Seq(Hosts!ToSet(host.providers) \cup Missing)
         /\ \A p \in Hosts!ToSet(host.providers) : WellDescribed(p)
         /\ \A p \in Hosts!ToSet(Hosts!ClientDescriptors) : WellDescribed(p)
<1>1. /\ host.providers \in Seq(Hosts!ToSet(host.providers))
      /\ \A p \in Hosts!ToSet(host.providers) : WellDescribed(p)
      /\ DOMAIN host.routes \subseteq Hosts!Kinds
  <2>1. Hosts!WellFormed(host)
    BY HostsAssumption
  <2>2. \A p \in Hosts!ToSet(host.providers) :
          p.kind \in Hosts!Kinds /\ p.id \in 1 .. 100 /\ p.units \in Nat /\ p.rank \in Nat
    BY <2>1 DEF Hosts!WellFormed
  <2>3. \A p \in Hosts!ToSet(host.providers) : WellDescribed(p)
    BY <2>2 DEF WellDescribed
  <2> QED
    BY <2>1, <2>3 DEF Hosts!WellFormed
<1>2. \A k \in Hosts!Kinds : Hosts!transportNumericId[k] \in Int
  BY DEF Hosts!Kinds, Hosts!transportNumericId
<1>3. \A p \in Missing : WellDescribed(p)
  BY <1>1, <1>2 DEF Missing, WellDescribed, Hosts!Uninstalled
<1>4. \A p \in Hosts!ToSet(Hosts!ClientDescriptors) : p \in Hosts!ToSet(host.providers) \/ p \in Missing
  BY DescriptorsDiffer DEF DescriptorSet
<1>5. Hosts!ClientDescriptors \in Seq(Hosts!ToSet(host.providers) \cup Missing)
  BY DescriptorFacts
<1> QED
  BY <1>1, <1>3, <1>4, <1>5

LEMMA DecisionStep ==
  ASSUME EvidenceInv, DecisionInv, [Hosts!Next]_hostVars
  PROVE  DecisionInv'
<1> USE DEF EvidenceInv, EvidenceType, DecisionInv
<1>0. ASSUME UNCHANGED host PROVE ToJudge' = ToJudge
  BY <1>0 DEF ToJudge, Hosts!ClientDescriptors, Hosts!Installed, Hosts!Uninstalled
<1>1. ASSUME NEW k \in Connects, Hosts!Ask(k) PROVE DecisionInv'
  <2>1. /\ UNCHANGED <<host, call>> /\ host.role = "application"
        /\ \E options \in Questions : \E selection \in Hosts!Selections(host.providers, options) :
             outcome' = [outcome EXCEPT ![k] = selection]
    BY <1>1 DEF Hosts!Ask
  <2>2. PICK options \in Questions : \E selection \in Hosts!Selections(host.providers, options) :
          outcome' = [outcome EXCEPT ![k] = selection]
    BY <2>1
  <2>3. PICK selection \in Hosts!Selections(host.providers, options) : outcome' = [outcome EXCEPT ![k] = selection]
    BY <2>2
  <2>4. MeasuresOnly(options)
    BY HostsAssumption DEF MeasuresOnly
  <2>5. Decided(selection, Hosts!ToSet(host.providers))
    BY <2>4, ProvidersAreDescribed, SelectionDecides
  <2>6. Decided(selection, ToJudge)
    BY <2>1, <2>5 DEF ToJudge
  <2> QED
    BY <1>0, <2>1, <2>3, <2>6
<1>2. ASSUME NEW k \in Connects, Hosts!Select(k) PROVE DecisionInv'
  <2>1. /\ UNCHANGED <<host, probes>> /\ call[k] = "probing" /\ host.role = "client"
        /\ \A kind \in DOMAIN probes[k] : probes[k][kind] # Hosts!Running
    BY <1>2 DEF Hosts!Select, Hosts!ClientStays
  <2>2. PICK selection \in Hosts!Selections(Hosts!ClientDescriptors, Hosts!ClientEvidence(k)) :
          /\ outcome' = [outcome EXCEPT ![k] = selection]
          /\ Hosts!Goes(k, IF selection.code = "selected" THEN "connecting" ELSE "failed")
    BY <1>2 DEF Hosts!Select
  <2>3. Finished(k)
    BY <2>1 DEF ProbeInv, Finished
  <2>4. MeasuresOnly(Hosts!ClientEvidence(k))
    <3>1. \A f \in Findings : f.metrics \in Hosts!Measures
      BY HostsAssumption DEF Findings, Hosts!Failed, Hosts!NoMetrics, Hosts!Measures
    <3>2. \A x \in Observations(k) : x.metrics \in Hosts!Measures
      BY <2>3, <3>1 DEF Observations, Observation, Observed, Finished
    <3> QED
      BY <3>2, ObservationFacts DEF MeasuresOnly, Hosts!ToSet
  <2>5. Decided(selection, Hosts!ToSet(Hosts!ClientDescriptors))
    BY <2>4, ProvidersAreDescribed, SelectionDecides
  <2>6. Decided(selection, ToJudge)
    BY <2>1, <2>5 DEF ToJudge
  <2> QED
    BY <1>0, <2>1, <2>2, <2>6 DEF Hosts!Goes
<1>3. ASSUME UNCHANGED <<host, outcome>>,
             \A k \in Connects : call'[k] # "idle" => host.role = "client"
      PROVE  DecisionInv'
  BY <1>0, <1>3
<1>4. ASSUME NEW k \in Connects, NEW state, Hosts!Goes(k, state), host.role = "client"
      PROVE  \A j \in Connects : call'[j] # "idle" => host.role = "client"
  BY <1>4
<1>5. ASSUME NEW k \in Connects,
             \/ Hosts!Connect(k) \/ Hosts!CarrierOpens(k) \/ Hosts!CarrierFails(k)
             \/ Hosts!Adopts(k) \/ Hosts!AdoptionFails(k)
      PROVE  DecisionInv'
  <2>1. UNCHANGED <<host, outcome>> /\ host.role = "client"
    BY <1>5 DEF Hosts!Connect, Hosts!CarrierOpens, Hosts!CarrierFails, Hosts!Adopts, Hosts!AdoptionFails,
                Hosts!ClientStays
  <2> QED
    BY <1>3, <2>1
<1>6. ASSUME NEW k \in Connects, NEW kind \in Hosts!Kinds, Hosts!ProbeSettles(k, kind) PROVE DecisionInv'
  BY <1>3, <1>6 DEF Hosts!ProbeSettles, Hosts!ClientStays
<1>7. CASE UNCHANGED <<host, call, outcome>>
  BY <1>3, <1>7
<1>8. \/ \E k \in Connects : Hosts!ClientStep(k)
      \/ UNCHANGED <<host, call, outcome>>
  BY DEF Hosts!Next, hostVars, Hosts!CloseClient, Hosts!CloseConnection, Hosts!Listen, Hosts!ListenerOpens,
         Hosts!ListenerFails, Hosts!ListenerAdopts, Hosts!ListenerRefuses, Hosts!CloseServer,
         Hosts!CloseListeners, Hosts!clientVars, Hosts!ServerStays
<1> QED
  BY <1>1, <1>2, <1>5, <1>6, <1>7, <1>8 DEF Hosts!ClientStep

\* Whatever providers are installed and whatever is measured, selectTransport decides:
\* nobody was measured better than the winner, each descriptor has one verdict, and
\* with one cost model there is one order, so the order of installation is no criterion.
THEOREM DecisionTheorem == PartsSpec => []EvidenceDecides
<1>1. PartsInit => (part = "hosts" => DecisionInv)
  BY InitDecision DEF PartsInit
<1>2. /\ part = "hosts" => EvidenceInv
      /\ part = "hosts" => DecisionInv
      /\ [PartsNext]_<<part, registryVars, channelVars, submitVars, hostVars, roleVars>>
      => (part = "hosts" => DecisionInv)'
  BY HostsAlone, DecisionStep
<1>3. DecisionInv => Hosts!BestMeasuredWins /\ Hosts!OneOrder
  BY DEF DecisionInv, Decided, Hosts!BestMeasuredWins, Hosts!OneOrder, Hosts!Answered
<1>4. DecisionInv => Hosts!EveryoneHasAVerdict
  <2> SUFFICES ASSUME DecisionInv, NEW k \in Connects, Hosts!Answered(k),
                      outcome[k].code # "INVALID_EVIDENCE"
               PROVE  LET verdicts == outcome[k].order \o outcome[k].rejected
                      IN  /\ Hosts!EachOnce(verdicts, LAMBDA c : c.provider.kind)
                          /\ {verdicts[i].provider : i \in DOMAIN verdicts} = ToJudge
                          /\ \A i \in DOMAIN verdicts :
                               (verdicts[i].rejectionReason = "none") = (i <= Len(outcome[k].order))
    BY DEF Hosts!EveryoneHasAVerdict, ToJudge
  <2> DEFINE verdicts == outcome[k].order \o outcome[k].rejected
  <2>1. /\ \A i, j \in DOMAIN verdicts : verdicts[i].provider.kind = verdicts[j].provider.kind => i = j
        /\ {verdicts[i].provider : i \in DOMAIN verdicts} = ToJudge
        /\ \A i \in DOMAIN verdicts : (verdicts[i].rejectionReason = "none") <=> i <= Len(outcome[k].order)
    BY DEF DecisionInv, Decided, Hosts!Answered
  <2> HIDE DEF verdicts
  <2>2. Hosts!EachOnce(verdicts, LAMBDA c : c.provider.kind)
    BY <2>1 DEF Hosts!EachOnce
  <2>3. \A i \in DOMAIN verdicts : (verdicts[i].rejectionReason = "none") = (i <= Len(outcome[k].order))
    <3> SUFFICES ASSUME NEW i \in DOMAIN verdicts
                 PROVE  (verdicts[i].rejectionReason = "none") <=> (i <= Len(outcome[k].order))
      OBVIOUS
    <3> QED
      BY <2>1
  <2>4. {verdicts[i].provider : i \in DOMAIN verdicts} = ToJudge
    BY <2>1
  <2> QED
    BY <2>2, <2>3, <2>4 DEF verdicts
<1>5. (part = "hosts" => DecisionInv) => EvidenceDecides
  BY <1>3, <1>4 DEF EvidenceDecides, Hosts!EvidenceDecides
<1> QED BY <1>1, <1>2, <1>5, EvidenceInvariance, PTL DEF PartsSpec
-----------------------------------------------------------------------------
(***************************************************************************)
(* The metadata channel.  Each table places its fields on bytes of their   *)
(* own and leaves none over that the decoder does not want to be zero      *)
(* (Sound); a validator lets only values through that their field carries  *)
(* (Carries).  Hence writing and reading are inverse to each other.        *)
(***************************************************************************)
\* No two fields of a table share a byte, and each byte is that of a field or of a
\* reserved one.
Extent(f) == Channel!Width[f.kind]
Apart(f, g) == f.offset + Extent(f) <= g.offset \/ g.offset + Extent(g) <= f.offset
Within(f, i) == f.offset < i /\ i <= f.offset + Extent(f)
InBlock(f, size) == f.offset \in Nat /\ f.kind \in DOMAIN Channel!Width /\ f.offset + Extent(f) <= size

Placed(fields, size) ==
  /\ size \in Nat
  /\ \A f \in DOMAIN fields : InBlock(fields[f], size)
  /\ \A f, g \in DOMAIN fields : f # g => Apart(fields[f], fields[g])

Kept(reserved, fields, size) ==
  \A r \in reserved : /\ InBlock(r, size) /\ r.kind # "i16"
                      /\ \A f \in DOMAIN fields : Apart(r, fields[f])

Covered(fields, reserved, size) ==
  \A i \in 1 .. size : (\E f \in DOMAIN fields : Within(fields[f], i)) \/ (\E r \in reserved : Within(r, i))

Sound(fields, reserved, size) ==
  Placed(fields, size) /\ Kept(reserved, fields, size) /\ Covered(fields, reserved, size)

\* The values a field of a kind can carry.
Carried(kind, v) ==
  IF kind = "i16" THEN \A k \in 3 .. 9 : v[k] = IF v[2] >= 128 THEN 255 ELSE 0
  ELSE \A k \in (Channel!Width[kind] + 1) .. 9 : v[k] = 0

Carries(fields, m) ==
  /\ m \in [DOMAIN fields -> Channel!Numbers]
  /\ \A f \in DOMAIN fields : Carried(fields[f].kind, m[f])

LEMMA ZeroIs == Channel!Zero = [k \in 1 .. 9 |-> 0]
BY DEF Channel!Zero, Channel!N, Channel!Places, Channel!Weight

LEMMA Extents == \A f : f.kind \in DOMAIN Channel!Width => Extent(f) \in {1, 2, 4, 8}
BY DEF Extent, Channel!Width

LEMMA FieldsInside ==
  ASSUME NEW fields, NEW size, Placed(fields, size), NEW f \in DOMAIN fields
  PROVE  /\ fields[f].offset \in Nat /\ fields[f].kind \in DOMAIN Channel!Width
         /\ Extent(fields[f]) \in {1, 2, 4, 8} /\ Extent(fields[f]) = Channel!Width[fields[f].kind]
         /\ fields[f].offset + Extent(fields[f]) <= size /\ size \in Nat
BY Extents DEF Placed, InBlock, Extent

\* A byte of a written block is the byte of the only field that covers it.
LEMMA WrittenField ==
  ASSUME NEW fields, NEW size, NEW m, Placed(fields, size), NEW f \in DOMAIN fields,
         NEW i \in 1 .. size, Within(fields[f], i)
  PROVE  Channel!Written(size, fields, m)[i] = m[f][i - fields[f].offset]
<1> DEFINE covering == {g \in DOMAIN fields : fields[g].offset < i /\ i <= fields[g].offset + Channel!Width[fields[g].kind]}
<1>1. covering = {f}
  <2>1. f \in covering
    BY DEF Within, Extent
  <2>2. ASSUME NEW g \in covering
        PROVE  g = f
    <3>1. g \in DOMAIN fields /\ Within(fields[g], i)
      BY <2>2 DEF Within, Extent
    <3>2. /\ fields[f].offset \in Nat /\ fields[g].offset \in Nat
          /\ Extent(fields[f]) \in {1, 2, 4, 8} /\ Extent(fields[g]) \in {1, 2, 4, 8}
      BY <3>1, FieldsInside
    <3>3. f # g => Apart(fields[f], fields[g])
      BY <3>1 DEF Placed
    <3> QED
      BY <3>1, <3>2, <3>3 DEF Apart, Within
  <2> QED
    BY <2>1, <2>2
<1>2. covering # {} /\ (CHOOSE g \in covering : TRUE) = f
  BY <1>1
<1>3. Channel!Written(size, fields, m)[i]
        = IF covering = {} THEN 0 ELSE LET g == CHOOSE h \in covering : TRUE IN m[g][i - fields[g].offset]
  BY DEF Channel!Written
<1> HIDE DEF covering
<1> QED
  BY <1>2, <1>3

LEMMA WrittenNowhere ==
  ASSUME NEW fields, NEW size, NEW m, NEW i \in 1 .. size, \A f \in DOMAIN fields : ~Within(fields[f], i)
  PROVE  Channel!Written(size, fields, m)[i] = 0
<1> DEFINE covering == {g \in DOMAIN fields : fields[g].offset < i /\ i <= fields[g].offset + Channel!Width[fields[g].kind]}
<1>1. covering = {}
  BY DEF Within, Extent
<1>3. Channel!Written(size, fields, m)[i]
        = IF covering = {} THEN 0 ELSE LET g == CHOOSE h \in covering : TRUE IN m[g][i - fields[g].offset]
  BY DEF Channel!Written
<1> HIDE DEF covering
<1> QED
  BY <1>1, <1>3

LEMMA WrittenBytes ==
  ASSUME NEW fields, NEW size, NEW m, Placed(fields, size), m \in [DOMAIN fields -> Channel!Numbers]
  PROVE  /\ Channel!Written(size, fields, m) \in Seq(Channel!Bytes)
         /\ Len(Channel!Written(size, fields, m)) = size
<1> DEFINE w == Channel!Written(size, fields, m)
<1>1. DOMAIN w = 1 .. size /\ w = [i \in 1 .. size |-> w[i]]
  BY DEF Channel!Written
<1>2. ASSUME NEW i \in 1 .. size
      PROVE  w[i] \in Channel!Bytes
  <2>1. CASE \A f \in DOMAIN fields : ~Within(fields[f], i)
    BY <2>1, WrittenNowhere DEF Channel!Bytes
  <2>2. CASE \E f \in DOMAIN fields : Within(fields[f], i)
    <3>1. PICK f \in DOMAIN fields : Within(fields[f], i)
      BY <2>2
    <3>2. w[i] = m[f][i - fields[f].offset] /\ m[f] \in Channel!Numbers
      BY <3>1, WrittenField
    <3>3. i - fields[f].offset \in 1 .. 9
      BY <3>1, FieldsInside DEF Within
    <3> QED
      BY <3>2, <3>3 DEF Channel!Numbers, Channel!Places
  <2> QED
    BY <2>1, <2>2
<1> HIDE DEF w
<1>3. size \in Nat
  BY DEF Placed
<1> QED
  BY <1>1, <1>2, <1>3 DEF w

\* What is written is read back, whatever follows the block.
LEMMA ReadsBack ==
  ASSUME NEW fields, NEW size, NEW m, NEW b, Placed(fields, size), Carries(fields, m),
         \A i \in 1 .. size : b[i] = Channel!Written(size, fields, m)[i]
  PROVE  Channel!ReadFields(b, fields) = m
<1>1. ASSUME NEW f \in DOMAIN fields
      PROVE  Channel!ReadInteger(b, fields[f]) = m[f]
  <2> DEFINE w == Channel!Width[fields[f].kind]
  <2>1. /\ w \in {1, 2, 4, 8} /\ w = Extent(fields[f]) /\ fields[f].offset \in Nat
        /\ fields[f].offset + w <= size /\ size \in Nat
        /\ fields[f].kind = "i16" => w = 2
    BY FieldsInside DEF Channel!Width
  <2>2. m[f] \in [1 .. 9 -> 0 .. 255] /\ Carried(fields[f].kind, m[f])
    BY DEF Carries, Channel!Numbers, Channel!Places, Channel!Bytes
  <2>3. \A k \in 1 .. w : b[fields[f].offset + k] = m[f][k]
    <3> SUFFICES ASSUME NEW k \in 1 .. w
                 PROVE  b[fields[f].offset + k] = m[f][k]
      OBVIOUS
    <3>1. fields[f].offset + k \in 1 .. size /\ Within(fields[f], fields[f].offset + k)
      BY <2>1 DEF Within
    <3>2. (fields[f].offset + k) - fields[f].offset = k
      BY <2>1
    <3> QED
      BY <3>1, <3>2, WrittenField
  <2> DEFINE sign == IF fields[f].kind = "i16" /\ b[fields[f].offset + w] >= 128 THEN 255 ELSE 0
  <2>4. Channel!ReadInteger(b, fields[f]) = [k \in 1 .. 9 |-> IF k <= w THEN b[fields[f].offset + k] ELSE sign]
    BY DEF Channel!ReadInteger, Channel!Places
  <2>5. ASSUME NEW k \in 1 .. 9, k > w
        PROVE  m[f][k] = sign
    <3>1. CASE fields[f].kind = "i16"
      <4>1. w = 2 /\ b[fields[f].offset + 2] = m[f][2]
        BY <2>1, <2>3, <3>1
      <4>2. m[f][k] = IF m[f][2] >= 128 THEN 255 ELSE 0
        BY <2>2, <2>5, <3>1, <4>1 DEF Carried
      <4> QED
        BY <3>1, <4>1, <4>2
    <3>2. CASE fields[f].kind # "i16"
      BY <2>1, <2>2, <2>5, <3>2 DEF Carried
    <3> QED
      BY <3>1, <3>2
  <2> HIDE DEF w, sign
  <2> QED
    BY <2>1, <2>2, <2>3, <2>4, <2>5
<1>2. m = [f \in DOMAIN fields |-> m[f]]
  BY DEF Carries
<1>3. Channel!ReadFields(b, fields) = [f \in DOMAIN fields |-> Channel!ReadInteger(b, fields[f])]
  BY DEF Channel!ReadFields
<1> QED
  BY <1>1, <1>2, <1>3

LEMMA ReservedIsZero ==
  ASSUME NEW fields, NEW reserved, NEW size, NEW m, NEW b, Placed(fields, size), Kept(reserved, fields, size),
         \A i \in 1 .. size : b[i] = Channel!Written(size, fields, m)[i]
  PROVE  Channel!IsZero(b, reserved)
<1> SUFFICES ASSUME NEW r \in reserved
             PROVE  Channel!ReadInteger(b, r) = Channel!Zero
  BY DEF Channel!IsZero
<1> DEFINE w == Channel!Width[r.kind]
<1>1. /\ w \in {1, 2, 4, 8} /\ w = Extent(r) /\ r.offset \in Nat /\ r.offset + w <= size /\ size \in Nat
      /\ r.kind # "i16"
  BY Extents DEF Kept, InBlock, Extent, Placed
<1>2. ASSUME NEW k \in 1 .. w
      PROVE  b[r.offset + k] = 0
  <2>1. r.offset + k \in 1 .. size
    BY <1>1
  <2>2. \A f \in DOMAIN fields : ~Within(fields[f], r.offset + k)
    BY <1>1, FieldsInside DEF Kept, Apart, Within
  <2> QED
    BY <2>1, <2>2, WrittenNowhere
<1>3. Channel!ReadInteger(b, r) = [k \in 1 .. 9 |-> IF k <= w THEN b[r.offset + k] ELSE 0]
  BY <1>1 DEF Channel!ReadInteger, Channel!Places
<1> HIDE DEF w
<1> QED
  BY <1>1, <1>2, <1>3, ZeroIs

\* A block without a byte of its own is the one its fields are written to.
LEMMA WritesBack ==
  ASSUME NEW fields, NEW reserved, NEW size, NEW b \in Seq(Channel!Bytes), Sound(fields, reserved, size),
         Channel!IsZero(b, reserved), Len(b) >= size
  PROVE  /\ Channel!Written(size, fields, Channel!ReadFields(b, fields)) = SubSeq(b, 1, size)
         /\ Carries(fields, Channel!ReadFields(b, fields))
<1> DEFINE m == Channel!ReadFields(b, fields)
<1>1. Placed(fields, size) /\ Kept(reserved, fields, size) /\ Covered(fields, reserved, size) /\ size \in Nat
  BY DEF Sound, Placed
<1>2. \A i \in 1 .. size : b[i] \in 0 .. 255
  <2>1. \A i \in 1 .. Len(b) : b[i] \in Channel!Bytes
    BY ElementOfSeq
  <2>2. Len(b) \in Nat
    OBVIOUS
  <2> QED
    BY <1>1, <2>1, <2>2 DEF Channel!Bytes
<1>3. ASSUME NEW f \in DOMAIN fields
      PROVE  /\ m[f] \in [1 .. 9 -> 0 .. 255] /\ Carried(fields[f].kind, m[f])
             /\ \A k \in 1 .. Extent(fields[f]) : m[f][k] = b[fields[f].offset + k]
  <2> DEFINE at(k) == b[fields[f].offset + k]
             e == Extent(fields[f])
             sign == IF fields[f].kind = "i16" /\ at(e) >= 128 THEN 255 ELSE 0
             v == m[f]
  <2>1. /\ e \in {1, 2, 4, 8} /\ e = Channel!Width[fields[f].kind]
        /\ fields[f].offset \in Nat /\ fields[f].offset + e <= size
    BY <1>1, FieldsInside
  <2>2. fields[f].kind = "i16" => e = 2
    BY <2>1 DEF Channel!Width
  <2>3. v = [k \in 1 .. 9 |-> IF k <= e THEN at(k) ELSE sign]
    BY DEF Channel!ReadFields, Channel!ReadInteger, Channel!Places, Extent
  <2>4. sign \in {0, 255} /\ (fields[f].kind # "i16" => sign = 0)
    OBVIOUS
  <2>5. fields[f].kind = "i16" => sign = IF at(2) >= 128 THEN 255 ELSE 0
    BY <2>2
  <2> HIDE DEF at, e, sign, v, m
  <2>6. ASSUME NEW k \in 1 .. e
        PROVE  at(k) \in 0 .. 255
    <3>1. fields[f].offset + k \in 1 .. size
      BY <1>1, <2>1
    <3> QED
      BY <1>2, <3>1 DEF at
  <2>7. ASSUME NEW k \in 1 .. 9
        PROVE  v[k] \in 0 .. 255
    <3>1. v[k] = IF k <= e THEN at(k) ELSE sign
      BY <2>3
    <3>2. CASE k <= e
      <4>1. k \in 1 .. e
        BY <2>1, <3>2
      <4>2. at(k) \in 0 .. 255
        BY <2>6, <4>1
      <4> QED
        BY <3>1, <3>2, <4>2
    <3>3. CASE ~(k <= e)
      BY <2>4, <3>1, <3>3
    <3> QED
      BY <3>2, <3>3
  <2>8. \A k \in 1 .. e : v[k] = at(k)
    BY <2>1, <2>3
  <2>9. \A k \in (e + 1) .. 9 : v[k] = sign
    BY <2>1, <2>3
  <2>10. Carried(fields[f].kind, v)
    <3>1. CASE fields[f].kind = "i16"
      <4>1. e = 2 /\ v[2] = at(2)
        BY <2>2, <2>8, <3>1
      <4>2. sign = IF v[2] >= 128 THEN 255 ELSE 0
        BY <2>5, <3>1, <4>1
      <4>3. \A k \in 3 .. 9 : v[k] = sign
        BY <2>9, <4>1
      <4> QED
        BY <3>1, <4>2, <4>3 DEF Carried
    <3>2. CASE fields[f].kind # "i16"
      BY <2>1, <2>4, <2>9, <3>2 DEF Carried
    <3> QED
      BY <3>1, <3>2
  <2>11. v \in [1 .. 9 -> 0 .. 255]
    BY <2>3, <2>7
  <2> QED
    BY <2>8, <2>10, <2>11 DEF at, e, v
<1>4. m = [f \in DOMAIN fields |-> m[f]]
  BY DEF Channel!ReadFields
<1>5. m \in [DOMAIN fields -> Channel!Numbers]
  BY <1>3, <1>4 DEF Channel!Numbers, Channel!Places, Channel!Bytes
<1> HIDE DEF m
<1>6. Carries(fields, m)
  BY <1>3, <1>5 DEF Carries
<1>7. ASSUME NEW i \in 1 .. size
      PROVE  Channel!Written(size, fields, m)[i] = b[i]
  <2>1. CASE \E f \in DOMAIN fields : Within(fields[f], i)
    <3>1. PICK f \in DOMAIN fields : Within(fields[f], i)
      BY <2>1
    <3>2. Channel!Written(size, fields, m)[i] = m[f][i - fields[f].offset]
      BY <1>1, <3>1, WrittenField
    <3>3. i - fields[f].offset \in 1 .. Extent(fields[f]) /\ fields[f].offset + (i - fields[f].offset) = i
      BY <1>1, <3>1, FieldsInside DEF Within
    <3> QED
      BY <1>3, <3>2, <3>3
  <2>2. CASE \A f \in DOMAIN fields : ~Within(fields[f], i)
    <3>1. PICK r \in reserved : Within(r, i)
      BY <1>1, <2>2 DEF Covered
    <3>2. /\ Extent(r) \in {1, 2, 4, 8} /\ Extent(r) = Channel!Width[r.kind] /\ r.offset \in Nat
          /\ r.offset < i /\ i <= r.offset + Extent(r)
      BY <1>1, <3>1, Extents DEF Kept, InBlock, Extent, Within
    <3>3. PICK k \in 1 .. 9 : k <= Extent(r) /\ i = r.offset + k
      <4>1. i - r.offset \in 1 .. 9 /\ i - r.offset <= Extent(r) /\ i = r.offset + (i - r.offset)
        BY <3>2
      <4> QED
        BY <4>1
    <3>4. Channel!ReadInteger(b, r)[k] = b[r.offset + k]
      BY <3>2, <3>3 DEF Channel!ReadInteger, Channel!Places
    <3>5. Channel!ReadInteger(b, r)[k] = 0
      BY <3>1, ZeroIs DEF Channel!IsZero
    <3>6. Channel!Written(size, fields, m)[i] = 0
      BY <2>2, WrittenNowhere
    <3> QED
      BY <3>3, <3>4, <3>5, <3>6
  <2> QED
    BY <2>1, <2>2
<1>8. Channel!Written(size, fields, m) \in Seq(Channel!Bytes) /\ Len(Channel!Written(size, fields, m)) = size
  BY <1>1, <1>5, WrittenBytes
<1>9. SubSeq(b, 1, size) \in Seq(Channel!Bytes) /\ Len(SubSeq(b, 1, size)) = size
      /\ \A i \in 1 .. size : SubSeq(b, 1, size)[i] = b[i]
  BY <1>1
<1>10. Channel!Written(size, fields, m) = SubSeq(b, 1, size)
  BY <1>7, <1>8, <1>9, SeqEqual
<1> QED
  BY <1>6, <1>10 DEF m

\* The tables of packages/core: no byte twice, none left over.
SoundLayout(layout) == Sound(layout.fields, layout.reserved, layout.length)

LEMMA ObjectDescriptorSound == SoundLayout(Channel!OBJECT_DESCRIPTOR_LAYOUT)
<1> USE DEF Apart, Within, InBlock, Extent,
            Channel!OBJECT_DESCRIPTOR_LAYOUT, Channel!Layout, Channel!named, Channel!role, Channel!scope,
            Channel!i16, Channel!Width, Channel!u8, Channel!u16, Channel!u32, Channel!u64
<1>1. Placed(Channel!OBJECT_DESCRIPTOR_LAYOUT.fields, Channel!OBJECT_DESCRIPTOR_LAYOUT.length)
  BY DEF Placed
<1>2. Kept(Channel!OBJECT_DESCRIPTOR_LAYOUT.reserved, Channel!OBJECT_DESCRIPTOR_LAYOUT.fields, Channel!OBJECT_DESCRIPTOR_LAYOUT.length)
  BY DEF Kept
<1>3. Covered(Channel!OBJECT_DESCRIPTOR_LAYOUT.fields, {Channel!u64(40)}, Channel!OBJECT_DESCRIPTOR_LAYOUT.length)
  BY DEF Covered
<1>4. Channel!OBJECT_DESCRIPTOR_LAYOUT.reserved = {Channel!u64(40)}
  OBVIOUS
<1> QED
  BY ONLY <1>1, <1>2, <1>3, <1>4 DEF SoundLayout, Sound

LEMMA ObjectReferenceSound == SoundLayout(Channel!OBJECT_REFERENCE_LAYOUT)
BY DEF SoundLayout, Channel!OBJECT_REFERENCE_LAYOUT, Channel!Layout, Channel!named, Channel!role, Channel!scope, Channel!i16,
       Sound, Placed, Kept, Covered, Apart, Within, InBlock, Extent, Channel!Width,
       Channel!u8, Channel!u16, Channel!u32, Channel!u64

LEMMA ObjectReleaseSound == SoundLayout(Channel!OBJECT_RELEASE_LAYOUT)
<1> USE DEF Apart, Within, InBlock, Extent,
            Channel!OBJECT_RELEASE_LAYOUT, Channel!Layout, Channel!named, Channel!role, Channel!scope,
            Channel!i16, Channel!Width, Channel!u8, Channel!u16, Channel!u32, Channel!u64
<1>1. Placed(Channel!OBJECT_RELEASE_LAYOUT.fields, Channel!OBJECT_RELEASE_LAYOUT.length)
  BY DEF Placed
<1>2. Kept(Channel!OBJECT_RELEASE_LAYOUT.reserved, Channel!OBJECT_RELEASE_LAYOUT.fields, Channel!OBJECT_RELEASE_LAYOUT.length)
  BY DEF Kept
<1>3. Covered(Channel!OBJECT_RELEASE_LAYOUT.fields, {Channel!u64(24)}, Channel!OBJECT_RELEASE_LAYOUT.length)
  BY DEF Covered
<1>4. Channel!OBJECT_RELEASE_LAYOUT.reserved = {Channel!u64(24)}
  OBVIOUS
<1> QED
  BY ONLY <1>1, <1>2, <1>3, <1>4 DEF SoundLayout, Sound

LEMMA ObjectDeltaSound == SoundLayout(Channel!OBJECT_DELTA_LAYOUT)
BY DEF SoundLayout, Channel!OBJECT_DELTA_LAYOUT, Channel!Layout, Channel!named, Channel!role, Channel!scope, Channel!i16,
       Sound, Placed, Kept, Covered, Apart, Within, InBlock, Extent, Channel!Width,
       Channel!u8, Channel!u16, Channel!u32, Channel!u64

LEMMA CacheReferenceSound == SoundLayout(Channel!CACHE_REFERENCE_LAYOUT)
<1> USE DEF Apart, Within, InBlock, Extent,
            Channel!CACHE_REFERENCE_LAYOUT, Channel!Layout, Channel!named, Channel!role, Channel!scope,
            Channel!i16, Channel!Width, Channel!u8, Channel!u16, Channel!u32, Channel!u64
<1>1. Placed(Channel!CACHE_REFERENCE_LAYOUT.fields, Channel!CACHE_REFERENCE_LAYOUT.length)
  BY DEF Placed
<1>2. Kept(Channel!CACHE_REFERENCE_LAYOUT.reserved, Channel!CACHE_REFERENCE_LAYOUT.fields, Channel!CACHE_REFERENCE_LAYOUT.length)
  BY DEF Kept
<1>3. Covered(Channel!CACHE_REFERENCE_LAYOUT.fields, {Channel!u32(52)}, Channel!CACHE_REFERENCE_LAYOUT.length)
  BY DEF Covered
<1>4. Channel!CACHE_REFERENCE_LAYOUT.reserved = {Channel!u32(52)}
  OBVIOUS
<1> QED
  BY ONLY <1>1, <1>2, <1>3, <1>4 DEF SoundLayout, Sound

LEMMA CacheMissSound == SoundLayout(Channel!CACHE_MISS_LAYOUT)
<1> USE DEF Apart, Within, InBlock, Extent,
            Channel!CACHE_MISS_LAYOUT, Channel!Layout, Channel!named, Channel!role, Channel!scope,
            Channel!i16, Channel!Width, Channel!u8, Channel!u16, Channel!u32, Channel!u64
<1>1. Placed(Channel!CACHE_MISS_LAYOUT.fields, Channel!CACHE_MISS_LAYOUT.length)
  BY DEF Placed
<1>2. Kept(Channel!CACHE_MISS_LAYOUT.reserved, Channel!CACHE_MISS_LAYOUT.fields, Channel!CACHE_MISS_LAYOUT.length)
  BY DEF Kept
<1>3. Covered(Channel!CACHE_MISS_LAYOUT.fields, {Channel!u32(28)}, Channel!CACHE_MISS_LAYOUT.length)
  BY DEF Covered
<1>4. Channel!CACHE_MISS_LAYOUT.reserved = {Channel!u32(28)}
  OBVIOUS
<1> QED
  BY ONLY <1>1, <1>2, <1>3, <1>4 DEF SoundLayout, Sound

LEMMA ControlRequestSound == SoundLayout(Channel!CONTROL_REQUEST_LAYOUT)
<1> USE DEF Apart, Within, InBlock, Extent,
            Channel!CONTROL_REQUEST_LAYOUT, Channel!Layout, Channel!named, Channel!role, Channel!scope,
            Channel!i16, Channel!Width, Channel!u8, Channel!u16, Channel!u32, Channel!u64
<1>1. Placed(Channel!CONTROL_REQUEST_LAYOUT.fields, Channel!CONTROL_REQUEST_LAYOUT.length)
  BY DEF Placed
<1>2. Kept(Channel!CONTROL_REQUEST_LAYOUT.reserved, Channel!CONTROL_REQUEST_LAYOUT.fields, Channel!CONTROL_REQUEST_LAYOUT.length)
  BY DEF Kept
<1>3. Covered(Channel!CONTROL_REQUEST_LAYOUT.fields, {Channel!u64(24)}, Channel!CONTROL_REQUEST_LAYOUT.length)
  BY DEF Covered
<1>4. Channel!CONTROL_REQUEST_LAYOUT.reserved = {Channel!u64(24)}
  OBVIOUS
<1> QED
  BY ONLY <1>1, <1>2, <1>3, <1>4 DEF SoundLayout, Sound

LEMMA SchedulingSound == SoundLayout(Channel!SCHEDULING_LAYOUT)
BY DEF SoundLayout, Channel!SCHEDULING_LAYOUT, Channel!Layout, Channel!named, Channel!role, Channel!scope, Channel!i16,
       Sound, Placed, Kept, Covered, Apart, Within, InBlock, Extent, Channel!Width,
       Channel!u8, Channel!u16, Channel!u32, Channel!u64

LEMMA SupersedeSound == SoundLayout(Channel!SUPERSEDE_LAYOUT)
BY DEF SoundLayout, Channel!SUPERSEDE_LAYOUT, Channel!Layout, Channel!named, Channel!role, Channel!scope, Channel!i16,
       Sound, Placed, Kept, Covered, Apart, Within, InBlock, Extent, Channel!Width,
       Channel!u8, Channel!u16, Channel!u32, Channel!u64

LEMMA BudgetSound == SoundLayout(Channel!BUDGET_LAYOUT)
BY DEF SoundLayout, Channel!BUDGET_LAYOUT, Channel!Layout, Channel!named, Channel!role, Channel!scope, Channel!i16,
       Sound, Placed, Kept, Covered, Apart, Within, InBlock, Extent, Channel!Width,
       Channel!u8, Channel!u16, Channel!u32, Channel!u64

LEMMA ProgressSound == SoundLayout(Channel!PROGRESS_LAYOUT)
BY DEF SoundLayout, Channel!PROGRESS_LAYOUT, Channel!Layout, Channel!named, Channel!role, Channel!scope, Channel!i16,
       Sound, Placed, Kept, Covered, Apart, Within, InBlock, Extent, Channel!Width,
       Channel!u8, Channel!u16, Channel!u32, Channel!u64

LEMMA PartialResultSound == SoundLayout(Channel!PARTIAL_RESULT_LAYOUT)
BY DEF SoundLayout, Channel!PARTIAL_RESULT_LAYOUT, Channel!Layout, Channel!named, Channel!role, Channel!scope, Channel!i16,
       Sound, Placed, Kept, Covered, Apart, Within, InBlock, Extent, Channel!Width,
       Channel!u8, Channel!u16, Channel!u32, Channel!u64

LEMMA PressureSound == SoundLayout(Channel!PRESSURE_LAYOUT)
<1> USE DEF Apart, Within, InBlock, Extent,
            Channel!PRESSURE_LAYOUT, Channel!Layout, Channel!named, Channel!role, Channel!scope, Channel!i16,
            Channel!Width, Channel!u8, Channel!u16, Channel!u32, Channel!u64
<1>1. Placed(Channel!PRESSURE_LAYOUT.fields, Channel!PRESSURE_LAYOUT.length)
  BY DEF Placed
<1>2. Kept(Channel!PRESSURE_LAYOUT.reserved, Channel!PRESSURE_LAYOUT.fields, Channel!PRESSURE_LAYOUT.length)
  BY DEF Kept
<1>3. Covered(Channel!PRESSURE_LAYOUT.fields, {Channel!u32(28)}, Channel!PRESSURE_LAYOUT.length)
  BY DEF Covered
<1>4. Channel!PRESSURE_LAYOUT.reserved = {Channel!u32(28)}
  OBVIOUS
<1> QED
  BY ONLY <1>1, <1>2, <1>3, <1>4 DEF SoundLayout, Sound

LEMMA CapabilitySound == SoundLayout(Channel!CAPABILITY_LAYOUT)
BY DEF SoundLayout, Channel!CAPABILITY_LAYOUT, Channel!Layout, Channel!named, Channel!role, Channel!scope, Channel!i16,
       Sound, Placed, Kept, Covered, Apart, Within, InBlock, Extent, Channel!Width,
       Channel!u8, Channel!u16, Channel!u32, Channel!u64

LEMMA RouteHintSound == SoundLayout(Channel!ROUTE_HINT_LAYOUT)
BY DEF SoundLayout, Channel!ROUTE_HINT_LAYOUT, Channel!Layout, Channel!named, Channel!role, Channel!scope, Channel!i16,
       Sound, Placed, Kept, Covered, Apart, Within, InBlock, Extent, Channel!Width,
       Channel!u8, Channel!u16, Channel!u32, Channel!u64

LEMMA TraceContextSound == SoundLayout(Channel!TRACE_CONTEXT_LAYOUT)
BY DEF SoundLayout, Channel!TRACE_CONTEXT_LAYOUT, Channel!Layout, Channel!named, Channel!role, Channel!scope, Channel!i16,
       Sound, Placed, Kept, Covered, Apart, Within, InBlock, Extent, Channel!Width,
       Channel!u8, Channel!u16, Channel!u32, Channel!u64

LEMMA ResultDropReasonSound == SoundLayout(Channel!RESULT_DROP_REASON_LAYOUT)
<1> USE DEF Apart, Within, InBlock, Extent,
            Channel!RESULT_DROP_REASON_LAYOUT, Channel!Layout, Channel!named, Channel!role, Channel!scope,
            Channel!i16, Channel!Width, Channel!u8, Channel!u16, Channel!u32, Channel!u64
<1>1. Placed(Channel!RESULT_DROP_REASON_LAYOUT.fields, Channel!RESULT_DROP_REASON_LAYOUT.length)
  BY DEF Placed
<1>2. Kept(Channel!RESULT_DROP_REASON_LAYOUT.reserved, Channel!RESULT_DROP_REASON_LAYOUT.fields, Channel!RESULT_DROP_REASON_LAYOUT.length)
  BY DEF Kept
<1>3. Covered(Channel!RESULT_DROP_REASON_LAYOUT.fields, {Channel!u64(24)}, Channel!RESULT_DROP_REASON_LAYOUT.length)
  BY DEF Covered
<1>4. Channel!RESULT_DROP_REASON_LAYOUT.reserved = {Channel!u64(24)}
  OBVIOUS
<1> QED
  BY ONLY <1>1, <1>2, <1>3, <1>4 DEF SoundLayout, Sound

LEMMA RecoverableErrorSound == SoundLayout(Channel!RECOVERABLE_ERROR_LAYOUT)
BY DEF SoundLayout, Channel!RECOVERABLE_ERROR_LAYOUT, Channel!Layout, Channel!named, Channel!role, Channel!scope, Channel!i16,
       Sound, Placed, Kept, Covered, Apart, Within, InBlock, Extent, Channel!Width,
       Channel!u8, Channel!u16, Channel!u32, Channel!u64

LEMMA RetryAfterSound == SoundLayout(Channel!RETRY_AFTER_LAYOUT)
BY DEF SoundLayout, Channel!RETRY_AFTER_LAYOUT, Channel!Layout, Channel!named, Channel!role, Channel!scope, Channel!i16,
       Sound, Placed, Kept, Covered, Apart, Within, InBlock, Extent, Channel!Width,
       Channel!u8, Channel!u16, Channel!u32, Channel!u64

LEMMA LayoutsAreSound ==
  ASSUME NEW type \in Channel!ControlTypes \cup Channel!ObjectTypes
  PROVE  SoundLayout(Channel!LayoutOf(type))
BY ObjectDescriptorSound, ObjectReferenceSound, ObjectReleaseSound, ObjectDeltaSound,
   CacheReferenceSound, CacheMissSound, ControlRequestSound, SchedulingSound,
   SupersedeSound, BudgetSound, ProgressSound, PartialResultSound,
   PressureSound, CapabilitySound, RouteHintSound, TraceContextSound,
   ResultDropReasonSound, RecoverableErrorSound, RetryAfterSound
   DEF Channel!LayoutOf, Channel!ControlLayout, Channel!ObjectLayout, Channel!ControlTypes, Channel!ObjectTypes

LEMMA TypedPayloadSound ==
  /\ Sound(Channel!TypedPayloadW, Channel!TypedPayloadZ, 24)
  /\ Channel!TypedPayloadR = Channel!TypedPayloadW
BY DEF Channel!TypedPayloadW, Channel!TypedPayloadR, Channel!TypedPayloadZ,
       Sound, Placed, Kept, Covered, Apart, Within, InBlock, Extent, Channel!Width,
       Channel!u8, Channel!u16, Channel!u32, Channel!u64

LEMMA ClientHelloSound ==
  /\ Sound(Channel!ClientHelloW, {}, 64)
  /\ Channel!ClientHelloR = Channel!ClientHelloW
<1> USE DEF Apart, Within, InBlock, Extent,
            Channel!ClientHelloW, Channel!Width, Channel!u8, Channel!u16, Channel!u32, Channel!u64
<1>1. Placed(Channel!ClientHelloW, 64)
  BY DEF Placed
<1>2. Kept({}, Channel!ClientHelloW, 64)
  BY DEF Kept
<1>3. Covered(Channel!ClientHelloW, {}, 64)
  BY DEF Covered
<1>4. Channel!ClientHelloR = Channel!ClientHelloW
  BY DEF Channel!ClientHelloR
<1> QED
  BY ONLY <1>1, <1>2, <1>3, <1>4 DEF Sound

LEMMA SessionPatchAckSound ==
  /\ Sound(Channel!SessionPatchAckW, Channel!SessionPatchAckZ, 48)
  /\ Channel!SessionPatchAckR = Channel!SessionPatchAckW
BY DEF Channel!SessionPatchAckW, Channel!SessionPatchAckR, Channel!SessionPatchAckZ,
       Sound, Placed, Kept, Covered, Apart, Within, InBlock, Extent, Channel!Width,
       Channel!u8, Channel!u16, Channel!u32, Channel!u64

LEMMA SessionOpenSound ==
  /\ Sound(Channel!SessionOpenW, Channel!SessionOpenZ, 48)
  /\ Channel!SessionOpenR = Channel!SessionOpenW
BY DEF Channel!SessionOpenW, Channel!SessionOpenR, Channel!SessionOpenZ,
       Sound, Placed, Kept, Covered, Apart, Within, InBlock, Extent, Channel!Width,
       Channel!u8, Channel!u16, Channel!u32, Channel!u64

LEMMA CachePutSound ==
  /\ Sound(Channel!CachePutW, {}, 40)
  /\ Channel!CachePutR = Channel!CachePutW
BY DEF Channel!CachePutW, Channel!CachePutR,
       Sound, Placed, Kept, Covered, Apart, Within, InBlock, Extent, Channel!Width,
       Channel!u8, Channel!u16, Channel!u32, Channel!u64

LEMMA CacheAckSound ==
  /\ Sound(Channel!CacheAckW, Channel!CacheAckZ, 40)
  /\ Channel!CacheAckR = Channel!CacheAckW
BY DEF Channel!CacheAckW, Channel!CacheAckR, Channel!CacheAckZ,
       Sound, Placed, Kept, Covered, Apart, Within, InBlock, Extent, Channel!Width,
       Channel!u8, Channel!u16, Channel!u32, Channel!u64

LEMMA CacheInvalidateSound ==
  /\ Sound(Channel!CacheInvalidateW, Channel!CacheInvalidateZ, 32)
  /\ Channel!CacheInvalidateR = Channel!CacheInvalidateW
BY DEF Channel!CacheInvalidateW, Channel!CacheInvalidateR, Channel!CacheInvalidateZ,
       Sound, Placed, Kept, Covered, Apart, Within, InBlock, Extent, Channel!Width,
       Channel!u8, Channel!u16, Channel!u32, Channel!u64

LEMMA ObjectReferenceBlockSound ==
  /\ Sound(Channel!ObjectReferenceBlockW, {}, 24)
  /\ Channel!ObjectReferenceBlockR = Channel!ObjectReferenceBlockW
BY DEF Channel!ObjectReferenceBlockW, Channel!ObjectReferenceBlockR,
       Sound, Placed, Kept, Covered, Apart, Within, InBlock, Extent, Channel!Width,
       Channel!u8, Channel!u16, Channel!u32, Channel!u64

LEMMA TransportProbeSound ==
  /\ Sound(Channel!TransportProbeW, {}, 16)
  /\ Channel!TransportProbeR = Channel!TransportProbeW
BY DEF Channel!TransportProbeW, Channel!TransportProbeR,
       Sound, Placed, Kept, Covered, Apart, Within, InBlock, Extent, Channel!Width,
       Channel!u8, Channel!u16, Channel!u32, Channel!u64

LEMMA TransportProbeAckSound ==
  /\ Sound(Channel!TransportProbeAckW, Channel!TransportProbeAckZ, 16)
  /\ Channel!TransportProbeAckR = Channel!TransportProbeAckW
BY DEF Channel!TransportProbeAckW, Channel!TransportProbeAckR, Channel!TransportProbeAckZ,
       Sound, Placed, Kept, Covered, Apart, Within, InBlock, Extent, Channel!Width,
       Channel!u8, Channel!u16, Channel!u32, Channel!u64

LEMMA FrameSubmitSound ==
  /\ Sound(Channel!FrameSubmitW, Channel!FrameSubmitZ, 72)
  /\ Channel!FrameSubmitR = Channel!FrameSubmitW
<1> USE DEF Apart, Within, InBlock, Extent,
            Channel!FrameSubmitW, Channel!FrameSubmitZ, Channel!Width, Channel!u8, Channel!u16, Channel!u32,
            Channel!u64
<1>1. Placed(Channel!FrameSubmitW, 72)
  BY DEF Placed
<1>2. Kept(Channel!FrameSubmitZ, Channel!FrameSubmitW, 72)
  BY DEF Kept
<1>3. Covered(Channel!FrameSubmitW, Channel!FrameSubmitZ, 72)
  BY DEF Covered
<1>4. Channel!FrameSubmitR = Channel!FrameSubmitW
  BY DEF Channel!FrameSubmitR
<1> QED
  BY ONLY <1>1, <1>2, <1>3, <1>4 DEF Sound

LEMMA ResultPushSound ==
  /\ Sound(Channel!ResultPushW, Channel!ResultPushZ, 64)
  /\ Channel!ResultPushR = Channel!ResultPushW
<1> USE DEF Apart, Within, InBlock, Extent,
            Channel!ResultPushW, Channel!ResultPushZ, Channel!Width, Channel!u8, Channel!u16, Channel!u32,
            Channel!u64
<1>1. Placed(Channel!ResultPushW, 64)
  BY DEF Placed
<1>2. Kept(Channel!ResultPushZ, Channel!ResultPushW, 64)
  BY DEF Kept
<1>3. Covered(Channel!ResultPushW, Channel!ResultPushZ, 64)
  BY DEF Covered
<1>4. Channel!ResultPushR = Channel!ResultPushW
  BY DEF Channel!ResultPushR
<1> QED
  BY ONLY <1>1, <1>2, <1>3, <1>4 DEF Sound

LEMMA ResultHintSound ==
  /\ Sound(Channel!ResultHintW, {}, 16)
  /\ Channel!ResultHintR = Channel!ResultHintW
BY DEF Channel!ResultHintW, Channel!ResultHintR,
       Sound, Placed, Kept, Covered, Apart, Within, InBlock, Extent, Channel!Width,
       Channel!u8, Channel!u16, Channel!u32, Channel!u64

LEMMA FlowUpdateSound ==
  /\ Sound(Channel!FlowUpdateW, Channel!FlowUpdateZ, 32)
  /\ Channel!FlowUpdateR = Channel!FlowUpdateW
BY DEF Channel!FlowUpdateW, Channel!FlowUpdateR, Channel!FlowUpdateZ,
       Sound, Placed, Kept, Covered, Apart, Within, InBlock, Extent, Channel!Width,
       Channel!u8, Channel!u16, Channel!u32, Channel!u64

LEMMA SessionCloseSound == Sound(Channel!SessionCloseR, Channel!SessionCloseZ, 24)
BY DEF Channel!SessionCloseR, Channel!SessionCloseZ,
       Sound, Placed, Kept, Covered, Apart, Within, InBlock, Extent, Channel!Width,
       Channel!u8, Channel!u16, Channel!u32, Channel!u64

LEMMA BlocksAreSound ==
  ASSUME NEW type \in Channel!FixedTypes
  PROVE  LET block == Channel!BlockOf(type)
         IN  Sound(block.writes, block.reserved, block.length) /\ block.reads = block.writes
BY TypedPayloadSound, ClientHelloSound, SessionPatchAckSound, SessionOpenSound,
   CachePutSound, CacheAckSound, CacheInvalidateSound, ObjectReferenceBlockSound,
   TransportProbeSound, TransportProbeAckSound, FrameSubmitSound, ResultPushSound,
   ResultHintSound, FlowUpdateSound, SessionCloseSound
   DEF Channel!BlockOf, Channel!Block, Channel!FixedTypes

\* What a validator lets through its field can carry.
LEMMA FitsIsCarried ==
  ASSUME NEW v \in Channel!Numbers
  PROVE  /\ Channel!Fits(v, 1) => Carried("u8", v)
         /\ Channel!Fits(v, 2) => Carried("u16", v)
         /\ Channel!Fits(v, 4) => Carried("u32", v)
         /\ Channel!Fits(v, 8) => Carried("u64", v)
BY DEF Channel!Fits, Carried, Channel!Width

LEMMA SmallIsCarried ==
  ASSUME NEW v \in Channel!Numbers, NEW n \in 0 .. 255, Channel!AtMost(v, n)
  PROVE  Carried("u8", v) /\ Carried("u16", v) /\ Carried("u32", v)
<1>1. v \in [1 .. 9 -> 0 .. 255]
  BY DEF Channel!Numbers, Channel!Places, Channel!Bytes
<1>2. /\ \A k \in 3 .. 9 : v[k] = 0
      /\ v[1] + 256 * v[2] <= n
  BY DEF Channel!AtMost, Channel!Fits, Channel!Low
<1>3. v[2] = 0
  <2>1. v[1] \in Nat /\ v[2] \in Nat
    BY <1>1
  <2> QED
    BY <1>2, <2>1
<1> QED
  BY <1>2, <1>3 DEF Carried, Channel!Width

LEMMA RangeIsCarried ==
  ASSUME NEW v \in Channel!Numbers, NEW kind, Channel!InRange(kind, v)
  PROVE  Carried(kind, v)
<1>1. v \in [1 .. 9 -> 0 .. 255]
  BY DEF Channel!Numbers, Channel!Places, Channel!Bytes
<1>2. CASE kind # "i16"
  BY <1>2 DEF Channel!InRange, Channel!Fits, Carried
<1>3. CASE kind = "i16" /\ Channel!AtMost(v, 32767)
  <2>1. (\A k \in 3 .. 9 : v[k] = 0) /\ v[1] \in Nat /\ v[2] \in Nat /\ v[1] + 256 * v[2] <= 32767
    BY <1>1, <1>3 DEF Channel!AtMost, Channel!Fits, Channel!Low
  <2>2. ~(v[2] >= 128)
    BY <2>1
  <2> QED
    BY <1>3, <2>1, <2>2 DEF Carried
<1>4. CASE kind = "i16" /\ (\A k \in 3 .. 9 : v[k] = 255) /\ Channel!Low(v) >= 32768
  <2>1. v[1] \in 0 .. 255 /\ v[2] \in Nat /\ v[1] + 256 * v[2] >= 32768
    BY <1>1, <1>4 DEF Channel!Low
  <2>2. v[2] >= 128
    BY <2>1
  <2> QED
    BY <1>4, <2>2 DEF Carried
<1> QED
  BY <1>2, <1>3, <1>4 DEF Channel!InRange

LEMMA LayoutCarries ==
  ASSUME NEW layout, NEW m \in [DOMAIN layout.fields -> Channel!Numbers], Channel!ValidFields(layout, m)
  PROVE  Carries(layout.fields, m)
<1>1. ASSUME NEW f \in DOMAIN layout.fields
      PROVE  Carried(layout.fields[f].kind, m[f])
  <2>1. Channel!InRange(layout.fields[f].kind, m[f])
    BY DEF Channel!ValidFields
  <2>2. m[f] \in Channel!Numbers
    OBVIOUS
  <2> QED
    BY <2>1, <2>2, RangeIsCarried
<1> QED
  BY <1>1 DEF Carries

LEMMA MaskedIsCarried ==
  ASSUME NEW v \in Channel!Numbers, NEW mask, Channel!Masked(v, mask), Channel!Fits(v, 4)
  PROVE  Carried("u8", v) /\ Carried("u16", v) /\ Carried("u32", v)
BY DEF Channel!Masked, Channel!Fits, Carried, Channel!Width

LEMMA NumeralIsCarried ==
  ASSUME NEW n \in {0, 1, 2, 3, 255}
  PROVE  Carried("u8", Channel!N(n)) /\ Carried("u16", Channel!N(n))
BY DEF Channel!N, Channel!Places, Channel!Weight, Carried, Channel!Width

LEMMA TypedPayloadCarries ==
  ASSUME NEW m \in [DOMAIN Channel!TypedPayloadW -> Channel!Numbers], Channel!ValidTypedPayload(m),
         \A f \in {"payloadKind", "descriptorFlags"} : Channel!Fits(m[f], 4)
  PROVE  Carries(Channel!TypedPayloadW, m)
BY FitsIsCarried, MaskedIsCarried
   DEF Carries, Channel!ValidTypedPayload, Channel!TypedPayloadW, Channel!OnePayloadKind, Channel!AllFit,
       Channel!u8, Channel!u16, Channel!u32

LEMMA ClientHelloCarries ==
  ASSUME NEW m \in [DOMAIN Channel!ClientHelloW -> Channel!Numbers], Channel!ValidClientHello(m)
  PROVE  Carries(Channel!ClientHelloW, m)
BY FitsIsCarried
   DEF Carries, Channel!ValidClientHello, Channel!ClientHelloW, Channel!AllFit, Channel!u8, Channel!u16, Channel!u32

LEMMA SessionPatchAckCarries ==
  ASSUME NEW m \in [DOMAIN Channel!SessionPatchAckW -> Channel!Numbers], Channel!ValidSessionPatchAck(m)
  PROVE  Carries(Channel!SessionPatchAckW, m)
BY FitsIsCarried, SmallIsCarried
   DEF Carries, Channel!ValidSessionPatchAck, Channel!SessionPatchAckW, Channel!AllFit, Channel!u16, Channel!u32,
       Channel!u64

LEMMA SessionOpenCarries ==
  ASSUME NEW m \in [DOMAIN Channel!SessionOpenW -> Channel!Numbers], Channel!ValidSessionOpen(m)
  PROVE  Carries(Channel!SessionOpenW, m)
BY FitsIsCarried, SmallIsCarried
   DEF Carries, Channel!ValidSessionOpen, Channel!SessionOpenW, Channel!AllFit, Channel!u8, Channel!u16,
       Channel!u32, Channel!u64

LEMMA CachePutCarries ==
  ASSUME NEW m \in [DOMAIN Channel!CachePutW -> Channel!Numbers], Channel!ValidCachePut(m)
  PROVE  Carries(Channel!CachePutW, m)
BY FitsIsCarried, SmallIsCarried
   DEF Carries, Channel!ValidCachePut, Channel!CachePutW, Channel!CacheObjectKind, Channel!AllFit, Channel!u32,
       Channel!u64

LEMMA CacheAckCarries ==
  ASSUME NEW m \in [DOMAIN Channel!CacheAckW -> Channel!Numbers], Channel!ValidCacheAck(m)
  PROVE  Carries(Channel!CacheAckW, m)
BY FitsIsCarried, SmallIsCarried
   DEF Carries, Channel!ValidCacheAck, Channel!CacheAckW, Channel!AllFit, Channel!u32, Channel!u64

LEMMA CacheInvalidateCarries ==
  ASSUME NEW m \in [DOMAIN Channel!CacheInvalidateW -> Channel!Numbers], Channel!ValidCacheInvalidate(m)
  PROVE  Carries(Channel!CacheInvalidateW, m)
BY FitsIsCarried, SmallIsCarried
   DEF Carries, Channel!ValidCacheInvalidate, Channel!CacheInvalidateW, Channel!AllFit, Channel!u32, Channel!u64

LEMMA ObjectReferenceBlockCarries ==
  ASSUME NEW m \in [DOMAIN Channel!ObjectReferenceBlockW -> Channel!Numbers], Channel!ValidObjectReferenceBlock(m)
  PROVE  Carries(Channel!ObjectReferenceBlockW, m)
BY FitsIsCarried, SmallIsCarried, NumeralIsCarried
   DEF Carries, Channel!ValidObjectReferenceBlock, Channel!ObjectReferenceBlockW, Channel!CacheObjectKind,
       Channel!AllFit,
       Channel!Zero, Channel!u16, Channel!u32, Channel!u64

LEMMA TransportProbeCarries ==
  ASSUME NEW m \in [DOMAIN Channel!TransportProbeW -> Channel!Numbers], Channel!ValidTransportProbe(m)
  PROVE  Carries(Channel!TransportProbeW, m)
BY FitsIsCarried
   DEF Carries, Channel!ValidTransportProbe, Channel!TransportProbeW, Channel!AllFit, Channel!u32, Channel!u64

LEMMA TransportProbeAckCarries ==
  ASSUME NEW m \in [DOMAIN Channel!TransportProbeAckW -> Channel!Numbers], Channel!ValidTransportProbeAck(m)
  PROVE  Carries(Channel!TransportProbeAckW, m)
BY FitsIsCarried
   DEF Carries, Channel!ValidTransportProbeAck, Channel!TransportProbeAckW, Channel!u32, Channel!u64

LEMMA FrameSubmitCarries ==
  ASSUME NEW m \in [DOMAIN Channel!FrameSubmitW -> Channel!Numbers], Channel!ValidFrameSubmit(m),
         \A f \in {"payloadKindBitmap"} : Channel!Fits(m[f], 4)
  PROVE  Carries(Channel!FrameSubmitW, m)
BY FitsIsCarried, SmallIsCarried, MaskedIsCarried, NumeralIsCarried
   DEF Carries, Channel!ValidFrameSubmit, Channel!FrameSubmitW, Channel!AllFit, Channel!u8, Channel!u16,
       Channel!u32, Channel!u64

LEMMA ResultPushCarries ==
  ASSUME NEW m \in [DOMAIN Channel!ResultPushW -> Channel!Numbers], Channel!ValidResultPush(m),
         \A f \in {"appliedBudgetPolicy"} : Channel!Fits(m[f], 4)
  PROVE  Carries(Channel!ResultPushW, m)
BY FitsIsCarried, SmallIsCarried, MaskedIsCarried
   DEF Carries, Channel!ValidResultPush, Channel!ResultPushW, Channel!AllFit, Channel!u8, Channel!u16, Channel!u32

LEMMA ResultHintCarries ==
  ASSUME NEW m \in [DOMAIN Channel!ResultHintW -> Channel!Numbers], Channel!ValidResultHint(m)
  PROVE  Carries(Channel!ResultHintW, m)
BY FitsIsCarried, SmallIsCarried
   DEF Carries, Channel!ValidResultHint, Channel!ResultHintW, Channel!u32

LEMMA FlowUpdateCarries ==
  ASSUME NEW m \in [DOMAIN Channel!FlowUpdateW -> Channel!Numbers], Channel!ValidFlowUpdate(m)
  PROVE  Carries(Channel!FlowUpdateW, m)
BY FitsIsCarried, SmallIsCarried
   DEF Carries, Channel!ValidFlowUpdate, Channel!FlowUpdateW, Channel!AllFit, Channel!u8, Channel!u16,
       Channel!u32, Channel!u64

LEMMA BlockCarries ==
  ASSUME NEW msg, Channel!WellFormed(msg), msg.type \in Channel!FixedTypes, Channel!SafeFields(msg),
         Channel!ValidBlock(msg.type, msg.metadata)
  PROVE  Carries(Channel!BlockOf(msg.type).writes, msg.metadata)
<1>1. msg.metadata \in [DOMAIN Channel!BlockOf(msg.type).writes -> Channel!Numbers]
  BY DEF Channel!WellFormed, Channel!FieldsOf, Channel!FixedTypes
<1>2. \A f \in Channel!MaskedOnly(msg.type) : Channel!Fits(msg.metadata[f], 4)
  BY DEF Channel!SafeFields
<1>3. CASE msg.type = "TYPED_PAYLOAD"
  BY <1>1, <1>2, <1>3, TypedPayloadCarries
     DEF Channel!BlockOf, Channel!Block, Channel!ValidBlock, Channel!MaskedOnly
<1>4. CASE msg.type = "CLIENT_HELLO"
  BY <1>1, <1>2, <1>4, ClientHelloCarries
     DEF Channel!BlockOf, Channel!Block, Channel!ValidBlock, Channel!MaskedOnly
<1>5. CASE msg.type = "SESSION_PATCH_ACK"
  BY <1>1, <1>2, <1>5, SessionPatchAckCarries
     DEF Channel!BlockOf, Channel!Block, Channel!ValidBlock, Channel!MaskedOnly
<1>6. CASE msg.type = "SESSION_OPEN"
  BY <1>1, <1>2, <1>6, SessionOpenCarries
     DEF Channel!BlockOf, Channel!Block, Channel!ValidBlock, Channel!MaskedOnly
<1>7. CASE msg.type = "CACHE_PUT"
  BY <1>1, <1>2, <1>7, CachePutCarries
     DEF Channel!BlockOf, Channel!Block, Channel!ValidBlock, Channel!MaskedOnly
<1>8. CASE msg.type = "CACHE_ACK"
  BY <1>1, <1>2, <1>8, CacheAckCarries
     DEF Channel!BlockOf, Channel!Block, Channel!ValidBlock, Channel!MaskedOnly
<1>9. CASE msg.type = "CACHE_INVALIDATE"
  BY <1>1, <1>2, <1>9, CacheInvalidateCarries
     DEF Channel!BlockOf, Channel!Block, Channel!ValidBlock, Channel!MaskedOnly
<1>10. CASE msg.type = "OBJECT_REFERENCE_BLOCK"
  BY <1>1, <1>2, <1>10, ObjectReferenceBlockCarries
     DEF Channel!BlockOf, Channel!Block, Channel!ValidBlock, Channel!MaskedOnly
<1>11. CASE msg.type = "TRANSPORT_PROBE"
  BY <1>1, <1>2, <1>11, TransportProbeCarries
     DEF Channel!BlockOf, Channel!Block, Channel!ValidBlock, Channel!MaskedOnly
<1>12. CASE msg.type = "TRANSPORT_PROBE_ACK"
  BY <1>1, <1>2, <1>12, TransportProbeAckCarries
     DEF Channel!BlockOf, Channel!Block, Channel!ValidBlock, Channel!MaskedOnly
<1>13. CASE msg.type = "FRAME_SUBMIT"
  BY <1>1, <1>2, <1>13, FrameSubmitCarries
     DEF Channel!BlockOf, Channel!Block, Channel!ValidBlock, Channel!MaskedOnly
<1>14. CASE msg.type = "RESULT_PUSH"
  BY <1>1, <1>2, <1>14, ResultPushCarries
     DEF Channel!BlockOf, Channel!Block, Channel!ValidBlock, Channel!MaskedOnly
<1>15. CASE msg.type = "RESULT_HINT"
  BY <1>1, <1>2, <1>15, ResultHintCarries
     DEF Channel!BlockOf, Channel!Block, Channel!ValidBlock, Channel!MaskedOnly
<1>16. CASE msg.type = "FLOW_UPDATE"
  BY <1>1, <1>2, <1>16, FlowUpdateCarries
     DEF Channel!BlockOf, Channel!Block, Channel!ValidBlock, Channel!MaskedOnly
<1>17. CASE msg.type = "SESSION_CLOSE"
  <2>1. Channel!BlockOf(msg.type).writes = Channel!SessionCloseR
    BY <1>17 DEF Channel!BlockOf, Channel!Block
  <2>2. ASSUME NEW f \in DOMAIN Channel!SessionCloseR
        PROVE  Carried(Channel!SessionCloseR[f].kind, msg.metadata[f])
    <3>1. Channel!Fits(msg.metadata[f], Channel!Width[Channel!SessionCloseR[f].kind])
      BY <1>17 DEF Channel!WellFormed
    <3>2. Channel!SessionCloseR[f].kind # "i16"
      BY DEF Channel!SessionCloseR, Channel!u8, Channel!u16, Channel!u32, Channel!u64
    <3> QED
      BY <3>1, <3>2 DEF Carried, Channel!Fits
  <2> QED
    BY <1>1, <2>1, <2>2 DEF Carries
<1> QED
  BY <1>3, <1>4, <1>5, <1>6, <1>7, <1>8, <1>9, <1>10, <1>11, <1>12, <1>13, <1>14, <1>15, <1>16, <1>17 DEF Channel!FixedTypes

\* The digits of a number.
LEMMA LowDigits ==
  ASSUME NEW n \in Nat, NEW q, NEW r, q = n \div 256, r = n % 256
  PROVE  n = 256 * q + r /\ r \in 0 .. 255 /\ q \in Nat
OBVIOUS

LEMMA HighDigits ==
  ASSUME NEW n \in Nat, NEW s, NEW t, s = n \div 65536, t = n \div 16777216
  PROVE  s \in Nat /\ t \in Nat /\ 65536 * s <= n /\ 16777216 * t <= n
<1>1. 65536 * s <= n /\ s \in Nat
  OBVIOUS
<1>2. 16777216 * t <= n /\ t \in Nat
  OBVIOUS
<1> QED
  BY <1>1, <1>2

LEMMA Digit ==
  ASSUME NEW q \in Nat, NEW d, d = q % 256
  PROVE  d \in 0 .. 255 /\ d <= q /\ (q <= 255 => d = q)
OBVIOUS

LEMMA DigitsOfNumeral ==
  ASSUME NEW n \in Nat
  PROVE  LET v == Channel!N(n)
             q == n \div 256
         IN  /\ v \in Channel!Numbers
             /\ v[1] = n % 256 /\ v[2] = q % 256 /\ (n <= 65535 => v[3] = 0 /\ v[4] = 0)
             /\ \A k \in 5 .. 9 : v[k] = 0
<1> DEFINE v == Channel!N(n)
           q == n \div 256
           s == n \div 65536
           t == n \div 16777216
<1>1. v = [k \in 1 .. 9 |-> IF k <= 4 THEN (n \div Channel!Weight[k]) % 256 ELSE 0]
  BY DEF Channel!N, Channel!Places
<1>2. /\ v[1] = (n \div 1) % 256 /\ v[2] = q % 256 /\ v[3] = s % 256 /\ v[4] = t % 256
      /\ \A k \in 5 .. 9 : v[k] = 0
  BY <1>1 DEF Channel!Weight
<1>3. n \div 1 = n
  OBVIOUS
<1>0. q = n \div 256 /\ s = n \div 65536 /\ t = n \div 16777216
  OBVIOUS
<1> HIDE DEF v, q, s, t
<1>4. q \in Nat /\ s \in Nat /\ t \in Nat /\ 65536 * s <= n /\ 16777216 * t <= n
  <2>1. q \in Nat
    BY <1>0, LowDigits
  <2> QED
    BY <1>0, <2>1, HighDigits
<1>5. v[1] \in 0 .. 255 /\ v[2] \in 0 .. 255 /\ v[3] \in 0 .. 255 /\ v[4] \in 0 .. 255
  BY <1>2, <1>3, <1>4, Digit
<1>6. n <= 65535 => s = 0 /\ t = 0
  BY <1>4
<1>7. n <= 65535 => v[3] = 0 /\ v[4] = 0
  BY <1>2, <1>4, <1>6, Digit
<1>8. ASSUME NEW k \in 1 .. 9
      PROVE  v[k] \in 0 .. 255
  <2>1. k = 1 \/ k = 2 \/ k = 3 \/ k = 4 \/ k \in 5 .. 9
    OBVIOUS
  <2> QED
    BY <1>2, <1>5, <2>1
<1>9. v \in Channel!Numbers
  BY <1>1, <1>8 DEF Channel!Numbers, Channel!Places, Channel!Bytes
<1> QED
  BY <1>2, <1>3, <1>7, <1>9 DEF v, q

\* The number of a length, and the length of a number.
LEMMA NumeralFacts ==
  ASSUME NEW n \in Nat
  PROVE  /\ Channel!N(n) \in Channel!Numbers
         /\ Channel!Fits(Channel!N(n), 4)
         /\ Channel!Low(Channel!N(n)) \in Nat /\ Channel!Low(Channel!N(n)) <= n
         /\ n <= 65535 => Channel!Fits(Channel!N(n), 2) /\ Channel!Low(Channel!N(n)) = n
<1> DEFINE v == Channel!N(n)
           q == n \div 256
           r == n % 256
           d == q % 256
<1>1. /\ v \in Channel!Numbers /\ v[1] = r /\ v[2] = d /\ (n <= 65535 => v[3] = 0 /\ v[4] = 0)
      /\ \A k \in 5 .. 9 : v[k] = 0
  BY DigitsOfNumeral
<1>0. q = n \div 256 /\ r = n % 256 /\ d = q % 256
  OBVIOUS
<1> HIDE DEF v, q, r, d
<1>2. n = 256 * q + r /\ r \in 0 .. 255 /\ q \in Nat
  BY <1>0, LowDigits
<1>3. d \in 0 .. 255 /\ d <= q /\ (q <= 255 => d = q)
  BY <1>0, <1>2, Digit
<1>4. Channel!Low(v) = r + 256 * d
  BY <1>1 DEF Channel!Low
<1>5. Channel!Low(v) \in Nat /\ Channel!Low(v) <= n /\ (n <= 65535 => Channel!Low(v) = n)
  BY <1>2, <1>3, <1>4
<1>6. Channel!Fits(v, 4)
  BY <1>1 DEF Channel!Fits
<1>7. n <= 65535 => Channel!Fits(v, 2)
  <2> SUFFICES ASSUME n <= 65535, NEW k \in 3 .. 9
               PROVE  v[k] = 0
    BY DEF Channel!Fits
  <2>1. k = 3 \/ k = 4 \/ k \in 5 .. 9
    OBVIOUS
  <2> QED
    BY <1>1, <2>1
<1> QED
  BY <1>1, <1>5, <1>6, <1>7 DEF v

LEMMA TwoDigits ==
  ASSUME NEW c \in 0 .. 255, NEW e \in 0 .. 255
  PROVE  c + 256 * e \in Nat /\ c + 256 * e <= 65535
OBVIOUS

LEMMA OneDigit ==
  ASSUME NEW e \in 0 .. 255
  PROVE  e % 256 = e
OBVIOUS

LEMMA NumeralOfLow ==
  ASSUME NEW v \in Channel!Numbers, Channel!Fits(v, 2)
  PROVE  /\ Channel!Low(v) \in Nat /\ Channel!Low(v) <= 65535
         /\ Channel!N(Channel!Low(v)) = v
<1>1. v \in [1 .. 9 -> 0 .. 255] /\ \A k \in 3 .. 9 : v[k] = 0
  BY DEF Channel!Numbers, Channel!Places, Channel!Bytes, Channel!Fits
<1> DEFINE n == Channel!Low(v)
           u == Channel!N(n)
<1>2. PICK c \in 0 .. 255, e \in 0 .. 255 : v[1] = c /\ v[2] = e
  <2>1. v[1] \in 0 .. 255 /\ v[2] \in 0 .. 255
    BY <1>1
  <2> QED
    BY <2>1, Zenon
<1>3. n = c + 256 * e
  BY <1>2 DEF Channel!Low
<1> HIDE DEF n
<1>4. n \in Nat
  <2>1. c \in 0 .. 255 /\ e \in 0 .. 255
    BY <1>2
  <2>2. c + 256 * e \in Nat
    BY <2>1, TwoDigits
  <2> QED
    BY <1>3, <2>2
<1>5. n <= 65535 /\ u \in Channel!Numbers /\ u[1] = c /\ u[2] = e /\ \A k \in 3 .. 9 : u[k] = 0
  <2>1. c \in 0 .. 255 /\ e \in 0 .. 255
    BY <1>2
  <2>2. n <= 65535
    BY ONLY <1>3, <2>1, TwoDigits
  <2>3. n \div 256 = e /\ n % 256 = c
    BY ONLY <1>3, <1>4, <2>1
  <2>4. /\ u \in Channel!Numbers /\ u[1] = n % 256 /\ u[2] = (n \div 256) % 256 /\ u[3] = 0 /\ u[4] = 0
        /\ \A k \in 5 .. 9 : u[k] = 0
    BY <1>4, <2>2, DigitsOfNumeral DEF u
  <2>5. e % 256 = e
    BY <2>1, OneDigit
  <2>6. ASSUME NEW k \in 3 .. 9
        PROVE  u[k] = 0
    <3>1. k = 3 \/ k = 4 \/ k \in 5 .. 9
      OBVIOUS
    <3> QED
      BY <2>4, <3>1
  <2> QED
    BY <2>2, <2>3, <2>4, <2>5, <2>6
<1> HIDE DEF u
<1>6. u \in [1 .. 9 -> 0 .. 255]
  BY <1>5 DEF Channel!Numbers, Channel!Places, Channel!Bytes
<1>7. ASSUME NEW k \in 1 .. 9
      PROVE  u[k] = v[k]
  <2>1. k = 1 \/ k = 2 \/ k \in 3 .. 9
    OBVIOUS
  <2> QED
    BY <1>1, <1>2, <1>5, <2>1
<1>8. u = v
  BY <1>1, <1>6, <1>7
<1> QED
  BY <1>4, <1>5, <1>8 DEF n, u

\* A block and what follows it.
LEMMA Framed ==
  ASSUME NEW size \in Nat, NEW head \in Seq(Channel!Bytes), Len(head) = size, NEW tail \in Seq(Channel!Bytes)
  PROVE  /\ head \o tail \in Seq(Channel!Bytes) /\ Len(head \o tail) = size + Len(tail)
         /\ \A i \in 1 .. size : (head \o tail)[i] = head[i]
         /\ Channel!After(head \o tail, size) = tail
<1> DEFINE b == head \o tail
<1>1. b \in Seq(Channel!Bytes) /\ Len(b) = size + Len(tail) /\ Len(tail) \in Nat
  OBVIOUS
<1>2. \A i \in 1 .. size : b[i] = head[i]
  OBVIOUS
<1>3. \A i \in 1 .. Len(tail) : b[size + i] = tail[i]
  OBVIOUS
<1> HIDE DEF b
<1>4. /\ SubSeq(b, size + 1, Len(b)) \in Seq(Channel!Bytes)
      /\ Len(SubSeq(b, size + 1, Len(b))) = Len(tail)
      /\ \A i \in 1 .. Len(tail) : SubSeq(b, size + 1, Len(b))[i] = tail[i]
  BY <1>1, <1>3
<1>5. SubSeq(b, size + 1, Len(b)) = tail
  BY <1>4, SeqEqual
<1> QED
  BY <1>1, <1>2, <1>5 DEF b, Channel!After

LEMMA Divided ==
  ASSUME NEW b \in Seq(Channel!Bytes), NEW size \in 0 .. Len(b)
  PROVE  /\ SubSeq(b, 1, size) \in Seq(Channel!Bytes) /\ Len(SubSeq(b, 1, size)) = size
         /\ Channel!After(b, size) \in Seq(Channel!Bytes) /\ Len(Channel!After(b, size)) = Len(b) - size
         /\ SubSeq(b, 1, size) \o Channel!After(b, size) = b
<1> DEFINE h == SubSeq(b, 1, size)
           t == SubSeq(b, size + 1, Len(b))
<1>0. Len(b) \in Nat /\ size \in Nat
  OBVIOUS
<1>1. h \in Seq(Channel!Bytes) /\ Len(h) = size /\ \A i \in 1 .. size : h[i] = b[i]
  BY <1>0
<1>2. t \in Seq(Channel!Bytes) /\ Len(t) = Len(b) - size /\ \A i \in 1 .. (Len(b) - size) : t[i] = b[size + i]
  BY <1>0
<1> HIDE DEF h, t
<1>3. h \o t \in Seq(Channel!Bytes) /\ Len(h \o t) = Len(b)
  BY <1>0, <1>1, <1>2
<1>4. ASSUME NEW i \in 1 .. Len(b)
      PROVE  (h \o t)[i] = b[i]
  <2>1. CASE i \in 1 .. size
    BY <1>0, <1>1, <1>2, <2>1
  <2>2. CASE i \notin 1 .. size
    <3>1. PICK j \in 1 .. (Len(b) - size) : i = size + j
      <4>1. i - size \in 1 .. (Len(b) - size) /\ i = size + (i - size)
        BY <1>0, <2>2
      <4> QED
        BY <4>1
    <3>2. (h \o t)[size + j] = t[j]
      BY <1>0, <1>1, <1>2, ConcatProperties
    <3> QED
      BY <1>2, <3>1, <3>2
  <2> QED
    BY <2>1, <2>2
<1>5. h \o t = b
  BY <1>3, <1>4, SeqEqual
<1> QED
  BY <1>1, <1>2, <1>5 DEF h, t, Channel!After

LEMMA OneElement ==
  ASSUME NEW S, NEW s \in Seq(S), Len(s) = 1
  PROVE  s[1] \in S /\ s = <<s[1]>>
<1>1. s[1] \in S
  OBVIOUS
<1>2. Len(<<s[1]>>) = 1 /\ <<s[1]>>[1] = s[1] /\ <<s[1]>> \in Seq(S)
  BY <1>1
<1>3. \A i \in 1 .. Len(s) : s[i] = <<s[1]>>[i]
  BY <1>2
<1> QED
  BY <1>1, <1>2, <1>3, SeqEqual

LEMMA TwoParts ==
  ASSUME NEW x \in Seq(Channel!Bytes), NEW y \in Seq(Channel!Bytes), NEW b, b = x \o y
  PROVE  /\ b \in Seq(Channel!Bytes) /\ Len(b) = Len(x) + Len(y) /\ Len(x) \in Nat /\ Len(y) \in Nat
         /\ SubSeq(b, 1, Len(x)) = x /\ Channel!After(b, Len(x)) = y
<1>1. b \in Seq(Channel!Bytes) /\ Len(b) = Len(x) + Len(y) /\ Len(x) \in Nat /\ Len(y) \in Nat
  OBVIOUS
<1>2. Channel!After(b, Len(x)) = y /\ \A i \in 1 .. Len(x) : b[i] = x[i]
  BY <1>1, Framed
<1>3. /\ SubSeq(b, 1, Len(x)) \in Seq(Channel!Bytes) /\ Len(SubSeq(b, 1, Len(x))) = Len(x)
      /\ \A i \in 1 .. Len(x) : SubSeq(b, 1, Len(x))[i] = b[i]
  BY <1>1
<1>4. \A i \in 1 .. Len(x) : SubSeq(b, 1, Len(x))[i] = x[i]
  BY <1>2, <1>3
<1>5. SubSeq(b, 1, Len(x)) = x
  BY <1>3, <1>4, SeqEqual
<1> QED
  BY <1>1, <1>2, <1>5

\* A layout's block carries its message there and back, ...
LEMMA LayoutTail ==
  ASSUME NEW msg, Channel!WellFormed(msg), msg.type \in Channel!ControlTypes \cup Channel!ObjectTypes
  PROVE  /\ Channel!Joined(msg.tail) \in Seq(Channel!Bytes)
         /\ (/\ Channel!SegmentsMatch(msg.type, msg.metadata, msg.tail)
             /\ Channel!ValidTail(Channel!LayoutOf(msg.type), msg.metadata, Len(Channel!Joined(msg.tail))))
            => Channel!EventTail(msg.type, msg.metadata, Channel!Joined(msg.tail)) = msg.tail
<1> DEFINE type == msg.type
           m == msg.metadata
           segments == msg.tail
           tail == Channel!Joined(segments)
<1>1. segments \in Seq(Seq(Channel!Bytes)) /\ Len(segments) = IF type \in Channel!TwoSegments THEN 2 ELSE 1
  BY DEF Channel!WellFormed
<1>2. CASE type \notin Channel!TwoSegments
  <2> HIDE DEF segments
  <2>1. Len(segments) = 1 /\ segments[1] \in Seq(Channel!Bytes) /\ segments = <<segments[1]>>
    BY <1>1, <1>2, OneElement
  <2>2. tail = segments[1]
    BY <2>1 DEF Channel!Joined
  <2> QED
    BY <1>2, <2>1, <2>2 DEF Channel!EventTail, segments
<1>3. CASE type \in Channel!TwoSegments
  <2> HIDE DEF segments, m
  <2> DEFINE x == segments[1]
             y == segments[2]
  <2>1. Len(segments) = 2 /\ x \in Seq(Channel!Bytes) /\ y \in Seq(Channel!Bytes) /\ segments = <<x, y>>
    BY <1>1, <1>3
  <2>2. tail = x \o y
    BY <2>1 DEF Channel!Joined
  <2> HIDE DEF x, y
  <2>3. tail \in Seq(Channel!Bytes) /\ Len(tail) = Len(x) + Len(y) /\ Len(x) \in Nat /\ Len(y) \in Nat
        /\ SubSeq(tail, 1, Len(x)) = x /\ Channel!After(tail, Len(x)) = y
    BY <2>1, <2>2, TwoParts
  <2>5. SUFFICES ASSUME Channel!SegmentsMatch(type, m, segments), Channel!ValidTail(Channel!LayoutOf(type), m, Len(tail))
                 PROVE  Channel!EventTail(type, m, tail) = segments
    BY <2>3 DEF m, segments
  <2>6. m.metadataBytes = Channel!N(Len(x)) /\ m.deltaBytes = Channel!N(Len(y))
    BY <1>3, <2>5 DEF Channel!SegmentsMatch, x, y
  <2>7. Len(tail) = Channel!Low(m.metadataBytes) + Channel!Low(m.deltaBytes)
    <3>1. Channel!LayoutOf(type).tailFields = {"metadataBytes", "deltaBytes"}
      BY <1>3 DEF Channel!TwoSegments, Channel!LayoutOf, Channel!ObjectLayout, Channel!ControlTypes,
                  Channel!OBJECT_DELTA_LAYOUT, Channel!Layout
    <3> QED
      BY <2>5, <3>1 DEF Channel!ValidTail
  <2>8. /\ Channel!Low(m.metadataBytes) \in Nat /\ Channel!Low(m.metadataBytes) <= Len(x)
        /\ Channel!Low(m.deltaBytes) \in Nat /\ Channel!Low(m.deltaBytes) <= Len(y)
    BY <2>3, <2>6, NumeralFacts
  <2>9. Channel!Low(m.metadataBytes) = Len(x)
    BY <2>3, <2>7, <2>8
  <2>10. Channel!EventTail(type, m, tail) = <<SubSeq(tail, 1, Len(x)), SubSeq(tail, Len(x) + 1, Len(tail))>>
    BY <1>3, <2>9 DEF Channel!EventTail
  <2> QED
    BY <2>1, <2>3, <2>10 DEF Channel!After
<1> QED
  BY <1>2, <1>3

LEMMA LayoutRoundTrip ==
  ASSUME NEW msg, Channel!WellFormed(msg), msg.type \in Channel!ControlTypes \cup Channel!ObjectTypes,
         Channel!EncodeLayout(msg) # Channel!NotEncoded
  PROVE  /\ Channel!EncodeLayout(msg) \in Seq(Channel!Bytes)
         /\ Channel!DecodeLayout(msg.type, Channel!EncodeLayout(msg))
              = [type |-> msg.type, metadata |-> msg.metadata, tail |-> msg.tail]
<1> DEFINE type == msg.type
           m == msg.metadata
           layout == Channel!LayoutOf(type)
           tail == Channel!Joined(msg.tail)
           w == Channel!Written(layout.length, layout.fields, m)
           b == w \o tail
<1>1. /\ Channel!ValidFields(layout, m) /\ Channel!SegmentsMatch(type, m, msg.tail)
      /\ Channel!ValidTail(layout, m, Len(tail)) /\ Channel!EncodeLayout(msg) = b
  BY DEF Channel!EncodeLayout
<1>2. /\ Placed(layout.fields, layout.length) /\ Kept(layout.reserved, layout.fields, layout.length)
      /\ layout.length \in Nat
  BY LayoutsAreSound DEF SoundLayout, Sound, Placed
<1>3. m \in [DOMAIN layout.fields -> Channel!Numbers]
  BY DEF Channel!WellFormed, Channel!FieldsOf, Channel!FixedTypes, Channel!ControlTypes, Channel!ObjectTypes
<1>4. Carries(layout.fields, m)
  BY <1>1, <1>3, LayoutCarries
<1>5. tail \in Seq(Channel!Bytes) /\ Channel!EventTail(type, m, tail) = msg.tail
  BY <1>1, LayoutTail
<1>6. w \in Seq(Channel!Bytes) /\ Len(w) = layout.length
  BY <1>2, <1>3, WrittenBytes
<1> HIDE DEF tail, w, layout
<1>7. /\ b \in Seq(Channel!Bytes) /\ Len(b) = layout.length + Len(tail) /\ Len(tail) \in Nat
      /\ \A i \in 1 .. layout.length : b[i] = w[i]
      /\ Channel!After(b, layout.length) = tail
  BY <1>2, <1>5, <1>6, Framed
<1> HIDE DEF b
<1>8. Channel!ReadFields(b, layout.fields) = m
  BY <1>2, <1>4, <1>7, ReadsBack DEF w
<1>9. Channel!IsZero(b, layout.reserved)
  BY <1>2, <1>7, ReservedIsZero DEF w
<1>10. Channel!DecodeLayout(type, b) = [type |-> type, metadata |-> m, tail |-> Channel!EventTail(type, m, tail)]
  BY <1>1, <1>2, <1>7, <1>8, <1>9 DEF Channel!DecodeLayout, layout
<1> QED
  BY <1>1, <1>5, <1>7, <1>10

LEMMA BlockRoundTrip ==
  ASSUME NEW msg, Channel!WellFormed(msg), msg.type \in Channel!FixedTypes, Channel!SafeFields(msg),
         Channel!EncodeBlock(msg) # Channel!NotEncoded
  PROVE  Channel!DecodeBlock(msg.type, Channel!EncodeBlock(msg))
           = [type |-> msg.type, metadata |-> msg.metadata, tail |-> msg.tail]
<1> DEFINE type == msg.type
           m == msg.metadata
           block == Channel!BlockOf(type)
           tail == Channel!Joined(msg.tail)
           w == Channel!Written(block.length, block.writes, m)
           b == w \o tail
<1>1. Channel!ValidBlock(type, m) /\ Channel!EncodeBlock(msg) = b
  BY DEF Channel!EncodeBlock
<1>2. /\ Placed(block.writes, block.length) /\ Kept(block.reserved, block.writes, block.length)
      /\ block.length \in Nat /\ block.reads = block.writes
  BY BlocksAreSound DEF Sound, Placed
<1>3. m \in [DOMAIN block.writes -> Channel!Numbers]
  BY DEF Channel!WellFormed, Channel!FieldsOf, Channel!FixedTypes
<1>4. Carries(block.writes, m)
  BY <1>1, BlockCarries
<1>5. tail \in Seq(Channel!Bytes) /\ msg.tail = <<tail>> /\ (type # "RESULT_PUSH" => tail = <<>>)
  <2>1. msg.tail \in Seq(Seq(Channel!Bytes)) /\ Len(msg.tail) = 1
    BY DEF Channel!WellFormed, Channel!FixedTypes, Channel!TwoSegments
  <2>2. tail = msg.tail[1] /\ tail \in Seq(Channel!Bytes) /\ msg.tail = <<tail>>
    BY <2>1, OneElement DEF Channel!Joined
  <2>3. type # "RESULT_PUSH" => msg.tail = <<<<>>>>
    BY DEF Channel!WellFormed
  <2> QED
    BY <2>2, <2>3
<1>6. w \in Seq(Channel!Bytes) /\ Len(w) = block.length
  BY <1>2, <1>3, WrittenBytes
<1> HIDE DEF tail, w, block
<1>7. /\ b \in Seq(Channel!Bytes) /\ Len(b) = block.length + Len(tail) /\ Len(tail) \in Nat
      /\ \A i \in 1 .. block.length : b[i] = w[i]
      /\ Channel!After(b, block.length) = tail
  BY <1>2, <1>5, <1>6, Framed
<1> HIDE DEF b
<1>8. Channel!ReadFields(b, block.reads) = m
  BY <1>2, <1>4, <1>7, ReadsBack DEF w
<1>9. Channel!IsZero(b, block.reserved)
  BY <1>2, <1>7, ReservedIsZero DEF w
<1>10. Len(b) >= block.length /\ (type # "RESULT_PUSH" => Len(b) = block.length)
  <2>1. type # "RESULT_PUSH" => Len(tail) = 0
    BY <1>5
  <2> QED
    BY <1>2, <1>7, <2>1
<1>11. Channel!DecodeBlock(type, b) = [type |-> type, metadata |-> m, tail |-> <<tail>>]
  BY <1>1, <1>7, <1>8, <1>9, <1>10 DEF Channel!DecodeBlock, block
<1> QED
  BY <1>1, <1>5, <1>11

LEMMA BlockBytes ==
  ASSUME NEW msg, Channel!WellFormed(msg), msg.type \in Channel!FixedTypes,
         Channel!EncodeBlock(msg) # Channel!NotEncoded
  PROVE  Channel!EncodeBlock(msg) \in Seq(Channel!Bytes)
<1> DEFINE block == Channel!BlockOf(msg.type)
           tail == Channel!Joined(msg.tail)
           w == Channel!Written(block.length, block.writes, msg.metadata)
<1>1. Channel!EncodeBlock(msg) = w \o tail
  BY DEF Channel!EncodeBlock
<1>2. tail \in Seq(Channel!Bytes)
  <2>1. msg.tail \in Seq(Seq(Channel!Bytes)) /\ Len(msg.tail) = 1
    BY DEF Channel!WellFormed, Channel!FixedTypes, Channel!TwoSegments
  <2> QED
    BY <2>1, OneElement DEF Channel!Joined
<1>3. w \in Seq(Channel!Bytes)
  <2>1. Placed(block.writes, block.length)
    BY BlocksAreSound DEF Sound
  <2>2. msg.metadata \in [DOMAIN block.writes -> Channel!Numbers]
    BY DEF Channel!WellFormed, Channel!FieldsOf, Channel!FixedTypes
  <2> QED
    BY <2>1, <2>2, WrittenBytes
<1> HIDE DEF w, tail
<1> QED
  BY <1>1, <1>2, <1>3

\* A ticket.
LEMMA TicketSound == Sound(Channel!TicketFields, {}, 28)
BY DEF Channel!TicketFields, Sound, Placed, Kept, Covered, Apart, Within, InBlock, Extent, Channel!Width,
       Channel!u8, Channel!u16, Channel!u32, Channel!u64

LEMMA SmallNumerals ==
  /\ Channel!N(0) \in Channel!Numbers /\ Channel!N(1) \in Channel!Numbers /\ Channel!N(0) # Channel!N(1)
  /\ Channel!Fits(Channel!N(0), 2) /\ Channel!Fits(Channel!N(1), 2) /\ Channel!Fits(Channel!N(0), 8)
  /\ Channel!Low(Channel!N(0)) = 0 /\ Channel!Low(Channel!N(1)) = 1
  /\ Channel!Zero = Channel!N(0)
<1>1. Channel!Zero = Channel!N(0)
  BY DEF Channel!Zero
<1>2. Channel!N(0) \in Channel!Numbers /\ Channel!N(1) \in Channel!Numbers
      /\ Channel!Fits(Channel!N(0), 2) /\ Channel!Fits(Channel!N(1), 2)
      /\ Channel!Low(Channel!N(0)) = 0 /\ Channel!Low(Channel!N(1)) = 1
  BY NumeralFacts
<1>3. Channel!N(0) # Channel!N(1)
  BY <1>2
<1>4. Channel!Fits(Channel!N(0), 8)
  BY <1>1, ZeroIs DEF Channel!Fits
<1> QED
  BY <1>1, <1>2, <1>3, <1>4

LEMMA TicketShape ==
  ASSUME NEW version \in Channel!Numbers, NEW flags \in Channel!Numbers, NEW session \in Channel!Numbers,
         NEW bytes \in Channel!Numbers, NEW window \in Channel!Numbers, NEW operation \in Channel!Numbers,
         Channel!Fits(version, 2), Channel!Fits(flags, 2), Channel!Fits(session, 4), Channel!Fits(bytes, 4),
         Channel!Fits(window, 4), Channel!Fits(operation, 8)
  PROVE  Carries(Channel!TicketFields,
                 [magic |-> Channel!Magic, version |-> version, flags |-> flags, sessionId |-> session,
                  tokenBytes |-> bytes, resumeWindowMillis |-> window, operationId |-> operation])
<1>1. Channel!Magic \in Channel!Numbers /\ Channel!Fits(Channel!Magic, 4)
  BY DEF Channel!Magic, Channel!Numbers, Channel!Places, Channel!Bytes, Channel!Fits
<1>2. /\ Carried("u32", Channel!Magic) /\ Carried("u16", version) /\ Carried("u16", flags)
      /\ Carried("u32", session) /\ Carried("u32", bytes) /\ Carried("u32", window)
      /\ Carried("u64", operation)
  BY <1>1, FitsIsCarried
<1> QED
  BY <1>1, <1>2 DEF Carries, Channel!TicketFields, Channel!u16, Channel!u32, Channel!u64

LEMMA TicketParts ==
  ASSUME NEW t, NEW tail, Channel!IsTicket(t, tail)
  PROVE  LET present == t.resumeFromOperationId # Channel!NoOperationId
             flags == Channel!N(IF present THEN 1 ELSE 0)
             operation == IF present THEN t.resumeFromOperationId ELSE Channel!Zero
         IN  /\ flags \in Channel!Numbers /\ Channel!Fits(flags, 2) /\ Channel!AtMost(flags, 1)
             /\ operation \in Channel!Numbers /\ Channel!Fits(operation, 8)
             /\ flags = Channel!N(1) <=> operation # Channel!Zero
             /\ t.resumeFromOperationId = (IF flags = Channel!N(1) THEN operation ELSE Channel!NoOperationId)
<1> DEFINE named == t.resumeFromOperationId
<1>1. /\ named \in Channel!Numbers \cup {Channel!NoOperationId}
      /\ named # Channel!NoOperationId => named # Channel!Zero /\ Channel!Fits(named, 8)
  BY DEF Channel!IsTicket
<1> HIDE DEF named
<1>2. CASE named = Channel!NoOperationId
  <2>1. (IF named # Channel!NoOperationId THEN 1 ELSE 0) = 0
    BY <1>2
  <2>2. (IF named # Channel!NoOperationId THEN named ELSE Channel!Zero) = Channel!Zero
    BY <1>2
  <2> QED
    BY <1>2, <2>1, <2>2, SmallNumerals DEF named, Channel!AtMost
<1>3. CASE named # Channel!NoOperationId
  <2>1. (IF named # Channel!NoOperationId THEN 1 ELSE 0) = 1
    BY <1>3
  <2>2. (IF named # Channel!NoOperationId THEN named ELSE Channel!Zero) = named
    BY <1>3
  <2> QED
    BY <1>1, <1>3, <2>1, <2>2, SmallNumerals DEF named, Channel!AtMost
<1> QED
  BY <1>2, <1>3

LEMMA TicketRoundTrip ==
  ASSUME NEW msg, Channel!WellFormed(msg), msg.type = "TICKET"
  PROVE  LET tail == Channel!Joined(msg.tail)
             b == Channel!TicketBytes(msg.metadata, Len(tail)) \o tail
         IN  /\ b \in Seq(Channel!Bytes)
             /\ Channel!DecodeTicket(b) = [type |-> msg.type, metadata |-> msg.metadata, tail |-> msg.tail]
<1> DEFINE t == msg.metadata
           tail == Channel!Joined(msg.tail)
           n == Len(tail)
           flags == Channel!N(IF t.resumeFromOperationId # Channel!NoOperationId THEN 1 ELSE 0)
           operation == IF t.resumeFromOperationId # Channel!NoOperationId THEN t.resumeFromOperationId ELSE Channel!Zero
           m == [magic |-> Channel!Magic, version |-> Channel!N(1), flags |-> flags, sessionId |-> t.sessionId,
                 tokenBytes |-> Channel!N(n), resumeWindowMillis |-> t.resumeWindowMillis, operationId |-> operation]
           size == 28
           w == Channel!Written(size, Channel!TicketFields, m)
           b == w \o tail
<1>1. Channel!IsTicket(t, tail) /\ 0 < n /\ n <= 65535
  BY DEF Channel!WellFormed, Channel!IsTicket
<1>2. tail \in Seq(Channel!Bytes) /\ msg.tail = <<tail>>
  <2>1. msg.tail \in Seq(Seq(Channel!Bytes)) /\ Len(msg.tail) = 1
    BY DEF Channel!WellFormed, Channel!TwoSegments
  <2> QED
    BY <2>1, OneElement DEF Channel!Joined
<1>3. Channel!TicketBytes(t, n) = w
  BY DEF Channel!TicketBytes
<1>4. /\ t = [sessionId |-> t.sessionId, resumeWindowMillis |-> t.resumeWindowMillis,
              resumeFromOperationId |-> t.resumeFromOperationId]
      /\ t.sessionId \in Channel!Numbers /\ t.resumeWindowMillis \in Channel!Numbers
      /\ t.sessionId # Channel!Zero /\ Channel!Fits(t.sessionId, 4) /\ Channel!Fits(t.resumeWindowMillis, 4)
  BY <1>1 DEF Channel!IsTicket, Channel!AllFit
<1>5. /\ Channel!N(n) \in Channel!Numbers /\ Channel!Fits(Channel!N(n), 4) /\ Channel!Fits(Channel!N(n), 2)
      /\ Channel!Low(Channel!N(n)) = n /\ Channel!N(n) # Channel!Zero
  <2>1. n \in Nat
    BY <1>2
  <2> HIDE DEF n
  <2> QED
    BY <1>1, <2>1, NumeralFacts, SmallNumerals
<1>6. /\ flags \in Channel!Numbers /\ Channel!Fits(flags, 2) /\ Channel!AtMost(flags, 1)
      /\ operation \in Channel!Numbers /\ Channel!Fits(operation, 8)
      /\ flags = Channel!N(1) <=> operation # Channel!Zero
      /\ t.resumeFromOperationId = (IF flags = Channel!N(1) THEN operation ELSE Channel!NoOperationId)
  BY <1>1, TicketParts
<1> HIDE DEF flags, operation, n, t
<1>7. Carries(Channel!TicketFields, m)
  BY <1>4, <1>5, <1>6, SmallNumerals, TicketShape
<1>8. Channel!ValidTicket(m, n)
  BY <1>4, <1>5, <1>6 DEF Channel!ValidTicket
<1>9. Channel!TicketOf(m) = t
  BY <1>4, <1>6 DEF Channel!TicketOf
<1>10. Placed(Channel!TicketFields, size) /\ size \in Nat
  BY TicketSound DEF Sound
<1> HIDE DEF m, tail, size
<1>11. w \in Seq(Channel!Bytes) /\ Len(w) = size
  BY <1>7, <1>10, WrittenBytes DEF Carries
<1> HIDE DEF w
<1>12. /\ b \in Seq(Channel!Bytes) /\ Len(b) = size + n /\ n \in Nat
       /\ \A i \in 1 .. size : b[i] = w[i]
       /\ Channel!After(b, size) = tail
  BY <1>2, <1>10, <1>11, Framed DEF n
<1> HIDE DEF b
<1>13. Channel!ReadFields(b, Channel!TicketFields) = m
  BY <1>7, <1>10, <1>12, ReadsBack DEF w
<1>14. Len(b) >= 28 /\ Len(b) - 28 = n /\ Channel!After(b, 28) = tail
  BY <1>12 DEF size
<1>15. Channel!DecodeTicket(b) = [type |-> "TICKET", metadata |-> t, tail |-> <<tail>>]
  BY <1>8, <1>9, <1>13, <1>14 DEF Channel!DecodeTicket
<1> QED
  BY <1>2, <1>3, <1>12, <1>15 DEF b, n, t, tail

\* ... and what a decoder accepts is what its encoder writes.
LEMMA DeltaLayout ==
  ASSUME NEW type \in Channel!TwoSegments
  PROVE  /\ Channel!LayoutOf(type).tailFields = {"metadataBytes", "deltaBytes"}
         /\ {"metadataBytes", "deltaBytes"} \subseteq DOMAIN Channel!LayoutOf(type).fields
BY DEF Channel!TwoSegments, Channel!LayoutOf, Channel!ObjectLayout, Channel!ControlTypes,
       Channel!OBJECT_DELTA_LAYOUT, Channel!Layout

LEMMA TailCanonical ==
  ASSUME NEW type \in Channel!ControlTypes \cup Channel!ObjectTypes, NEW tail \in Seq(Channel!Bytes),
         NEW m \in [DOMAIN Channel!LayoutOf(type).fields -> Channel!Numbers],
         Channel!ValidTail(Channel!LayoutOf(type), m, Len(tail))
  PROVE  /\ Channel!Joined(Channel!EventTail(type, m, tail)) = tail
         /\ Channel!SegmentsMatch(type, m, Channel!EventTail(type, m, tail))
<1>1. CASE type \notin Channel!TwoSegments
  <2>1. Channel!EventTail(type, m, tail) = <<tail>>
    BY <1>1 DEF Channel!EventTail
  <2> QED
    BY <1>1, <2>1 DEF Channel!Joined, Channel!SegmentsMatch
<1>2. CASE type \in Channel!TwoSegments
  <2> DEFINE end == Channel!Low(m.metadataBytes)
             rest == Channel!Low(m.deltaBytes)
             x == SubSeq(tail, 1, end)
             y == Channel!After(tail, end)
  <2>1. /\ m.metadataBytes \in Channel!Numbers /\ m.deltaBytes \in Channel!Numbers
        /\ Channel!LayoutOf(type).tailFields = {"metadataBytes", "deltaBytes"}
    BY <1>2, DeltaLayout
  <2>2. /\ Channel!Fits(m.metadataBytes, 2) /\ Channel!Fits(m.deltaBytes, 2) /\ Len(tail) = end + rest
    BY <2>1 DEF Channel!ValidTail
  <2>3. end \in Nat /\ rest \in Nat /\ Channel!N(end) = m.metadataBytes /\ Channel!N(rest) = m.deltaBytes
    BY <2>1, <2>2, NumeralOfLow
  <2> HIDE DEF end, rest
  <2>4. end \in 0 .. Len(tail) /\ Len(tail) - end = rest
    BY <2>2, <2>3
  <2>5. Len(x) = end /\ Len(y) = rest /\ x \o y = tail
    BY <2>4, Divided
  <2>6. Channel!EventTail(type, m, tail) = <<x, y>>
    BY <1>2 DEF Channel!EventTail, Channel!After, end
  <2> HIDE DEF x, y
  <2> QED
    BY <2>3, <2>5, <2>6 DEF Channel!Joined, Channel!SegmentsMatch
<1> QED
  BY <1>1, <1>2

LEMMA LayoutCanonical ==
  ASSUME NEW type \in Channel!ControlTypes \cup Channel!ObjectTypes, NEW b \in Seq(Channel!Bytes),
         Channel!DecodeLayout(type, b) # Channel!Refused
  PROVE  /\ Channel!DecodeLayout(type, b).type = type
         /\ Channel!EncodeLayout(Channel!DecodeLayout(type, b)) = b
<1> DEFINE layout == Channel!LayoutOf(type)
           m == Channel!ReadFields(b, layout.fields)
           tail == Channel!After(b, layout.length)
           segments == Channel!EventTail(type, m, tail)
           d == [type |-> type, metadata |-> m, tail |-> segments]
<1>1. /\ Channel!DecodeLayout(type, b) = d /\ Len(b) >= layout.length
      /\ Channel!IsZero(b, layout.reserved) /\ Channel!ValidFields(layout, m)
      /\ Channel!ValidTail(layout, m, Len(tail))
  BY DEF Channel!DecodeLayout
<1>2. Sound(layout.fields, layout.reserved, layout.length) /\ layout.length \in Nat
  BY LayoutsAreSound DEF SoundLayout, Sound, Placed
<1>3. /\ Channel!Written(layout.length, layout.fields, m) = SubSeq(b, 1, layout.length)
      /\ Carries(layout.fields, m)
  BY <1>1, <1>2, WritesBack
<1>4. /\ tail \in Seq(Channel!Bytes) /\ SubSeq(b, 1, layout.length) \o tail = b
  <2>1. layout.length \in 0 .. Len(b)
    BY <1>1, <1>2
  <2> QED
    BY <2>1, Divided
<1>5. m \in [DOMAIN layout.fields -> Channel!Numbers]
  BY <1>3 DEF Carries
<1>6. Channel!Joined(segments) = tail /\ Channel!SegmentsMatch(type, m, segments)
  BY <1>1, <1>4, <1>5, TailCanonical
<1> HIDE DEF m, tail, segments
<1>7. d.type = type /\ d.metadata = m /\ d.tail = segments
  OBVIOUS
<1> HIDE DEF d
<1>8. Channel!EncodeLayout(d) = Channel!Written(layout.length, layout.fields, m) \o tail
  BY <1>1, <1>6, <1>7 DEF Channel!EncodeLayout
<1> QED
  BY <1>1, <1>3, <1>4, <1>7, <1>8

LEMMA BlockCanonical ==
  ASSUME NEW type \in Channel!FixedTypes, NEW b \in Seq(Channel!Bytes),
         Channel!DecodeBlock(type, b) # Channel!Refused
  PROVE  /\ Channel!DecodeBlock(type, b).type = type
         /\ Channel!EncodeBlock(Channel!DecodeBlock(type, b)) = b
<1> DEFINE block == Channel!BlockOf(type)
           m == Channel!ReadFields(b, block.reads)
           tail == Channel!After(b, block.length)
           d == [type |-> type, metadata |-> m, tail |-> <<tail>>]
<1>1. /\ Channel!DecodeBlock(type, b) = d /\ Len(b) >= block.length
      /\ Channel!IsZero(b, block.reserved) /\ Channel!ValidBlock(type, m)
  BY DEF Channel!DecodeBlock
<1>2. /\ Sound(block.writes, block.reserved, block.length) /\ block.length \in Nat
      /\ block.reads = block.writes
  BY BlocksAreSound DEF Sound, Placed
<1>3. Channel!Written(block.length, block.writes, m) = SubSeq(b, 1, block.length)
  BY <1>1, <1>2, WritesBack
<1>4. /\ tail \in Seq(Channel!Bytes) /\ SubSeq(b, 1, block.length) \o tail = b
  <2>1. block.length \in 0 .. Len(b)
    BY <1>1, <1>2
  <2> QED
    BY <2>1, Divided
<1> HIDE DEF m, tail
<1>7. d.type = type /\ d.metadata = m /\ d.tail = <<tail>> /\ Channel!Joined(<<tail>>) = tail
  BY DEF Channel!Joined
<1> HIDE DEF d
<1>8. Channel!EncodeBlock(d) = Channel!Written(block.length, block.writes, m) \o tail
  BY <1>1, <1>7 DEF Channel!EncodeBlock
<1> QED
  BY <1>1, <1>3, <1>4, <1>7, <1>8

LEMMA TicketNamed ==
  ASSUME NEW flags \in Channel!Numbers, NEW operation \in Channel!Numbers, Channel!AtMost(flags, 1),
         flags = Channel!N(1) <=> operation # Channel!Zero,
         NEW named, named = IF flags = Channel!N(1) THEN operation ELSE Channel!NoOperationId
  PROVE  /\ flags = Channel!N(IF named # Channel!NoOperationId THEN 1 ELSE 0)
         /\ operation = IF named # Channel!NoOperationId THEN named ELSE Channel!Zero
<1>1. operation # Channel!NoOperationId
  BY DEF Channel!Numbers, Channel!Places, Channel!NoOperationId
<1>2. CASE flags = Channel!N(1)
  <2>1. named # Channel!NoOperationId /\ named = operation
    BY <1>1, <1>2
  <2>2. (IF named # Channel!NoOperationId THEN 1 ELSE 0) = 1
    BY <2>1
  <2> QED
    BY <1>2, <2>1, <2>2
<1>3. CASE flags # Channel!N(1)
  <2>1. named = Channel!NoOperationId
    BY <1>3
  <2>2. (IF named # Channel!NoOperationId THEN 1 ELSE 0) = 0
    BY <2>1
  <2>3. Channel!Low(flags) \in Nat /\ Channel!Low(flags) <= 1 /\ Channel!N(Channel!Low(flags)) = flags
    BY NumeralOfLow DEF Channel!AtMost
  <2>4. Channel!Low(flags) = 0 \/ Channel!Low(flags) = 1
    BY <2>3
  <2>5. flags = Channel!N(0)
    BY <1>3, <2>3, <2>4
  <2> QED
    BY <1>3, <2>1, <2>2, <2>5
<1> QED
  BY <1>2, <1>3

LEMMA TicketCanonical ==
  ASSUME NEW b \in Seq(Channel!Bytes), Channel!DecodeTicket(b) # Channel!Refused
  PROVE  LET d == Channel!DecodeTicket(b)
             tail == Channel!Joined(d.tail)
         IN  d.type = "TICKET" /\ Channel!TicketBytes(d.metadata, Len(tail)) \o tail = b
<1> DEFINE size == 28
           m == Channel!ReadFields(b, Channel!TicketFields)
           tail == Channel!After(b, size)
           n == Len(tail)
           t == Channel!TicketOf(m)
           d == [type |-> "TICKET", metadata |-> t, tail |-> <<tail>>]
           flags == Channel!N(IF t.resumeFromOperationId # Channel!NoOperationId THEN 1 ELSE 0)
           operation == IF t.resumeFromOperationId # Channel!NoOperationId THEN t.resumeFromOperationId ELSE Channel!Zero
           anew == [magic |-> Channel!Magic, version |-> Channel!N(1), flags |-> flags, sessionId |-> t.sessionId,
                     tokenBytes |-> Channel!N(n), resumeWindowMillis |-> t.resumeWindowMillis, operationId |-> operation]
<1>1. Channel!DecodeTicket(b) = d /\ Len(b) >= size /\ Channel!ValidTicket(m, Len(b) - size)
  BY DEF Channel!DecodeTicket
<1>2. size \in Nat /\ Sound(Channel!TicketFields, {}, size) /\ Channel!IsZero(b, {})
  BY TicketSound DEF Channel!IsZero
<1>3. Channel!TicketBytes(t, n) = Channel!Written(size, Channel!TicketFields, anew)
  BY DEF Channel!TicketBytes
<1>4. d.type = "TICKET" /\ d.metadata = t /\ d.tail = <<tail>> /\ Channel!Joined(<<tail>>) = tail
  BY DEF Channel!Joined
<1> HIDE DEF size, d
<1>5. Channel!Written(size, Channel!TicketFields, m) = SubSeq(b, 1, size) /\ Carries(Channel!TicketFields, m)
  BY <1>1, <1>2, WritesBack
<1>6. tail \in Seq(Channel!Bytes) /\ n = Len(b) - size /\ SubSeq(b, 1, size) \o tail = b
  <2>1. size \in 0 .. Len(b)
    BY <1>1, <1>2
  <2> QED
    BY <2>1, Divided
<1>7. /\ m \in [DOMAIN Channel!TicketFields -> Channel!Numbers]
      /\ DOMAIN Channel!TicketFields = {"magic", "version", "flags", "sessionId", "tokenBytes", "resumeWindowMillis", "operationId"}
  BY <1>5 DEF Carries, Channel!TicketFields
<1> HIDE DEF m, tail
<1>8. /\ m = [magic |-> m.magic, version |-> m.version, flags |-> m.flags, sessionId |-> m.sessionId,
              tokenBytes |-> m.tokenBytes, resumeWindowMillis |-> m.resumeWindowMillis, operationId |-> m.operationId]
      /\ m.flags \in Channel!Numbers /\ m.tokenBytes \in Channel!Numbers /\ m.operationId \in Channel!Numbers
  BY <1>7
<1>9. /\ m.magic = Channel!Magic /\ m.version = Channel!N(1) /\ Channel!AtMost(m.flags, 1)
      /\ Channel!Fits(m.tokenBytes, 2) /\ Channel!Low(m.tokenBytes) = n
      /\ (m.flags = Channel!N(1) <=> m.operationId # Channel!Zero)
  BY <1>1, <1>6 DEF Channel!ValidTicket
<1>10. /\ t.sessionId = m.sessionId /\ t.resumeWindowMillis = m.resumeWindowMillis
       /\ t.resumeFromOperationId = IF m.flags = Channel!N(1) THEN m.operationId ELSE Channel!NoOperationId
  BY DEF Channel!TicketOf
<1> HIDE DEF t
<1>11. m.flags = flags /\ m.operationId = operation
  BY <1>8, <1>9, <1>10, TicketNamed
<1>12. Channel!N(n) = m.tokenBytes
  BY <1>8, <1>9, NumeralOfLow
<1> HIDE DEF flags, operation, n
<1>13. anew = m
  BY <1>8, <1>9, <1>10, <1>11, <1>12
<1> HIDE DEF anew
<1>14. Channel!TicketBytes(t, Len(tail)) \o tail = b
  BY <1>3, <1>5, <1>6, <1>13 DEF n
<1> QED
  BY <1>1, <1>4, <1>14

LEMMA DecodersAnswer ==
  ASSUME NEW type \in Channel!Types, NEW metadata, NEW tail
  PROVE  [type |-> type, metadata |-> metadata, tail |-> tail] # Channel!Refused
<1>1. type # "refused"
  BY DEF Channel!Types, Channel!FixedTypes, Channel!ControlTypes, Channel!ObjectTypes
<1>2. Channel!Refused.type = "refused"
  BY DEF Channel!Refused
<1>3. [type |-> type, metadata |-> metadata, tail |-> tail].type = type
  OBVIOUS
<1> QED
  BY <1>1, <1>2, <1>3

\* The channel: what is written is a sequence of bytes, ...
LEMMA Kinds ==
  ASSUME NEW type \in Channel!Types
  PROVE  \/ type = "TICKET" /\ type \notin Channel!FixedTypes
         \/ type \in Channel!FixedTypes /\ type # "TICKET"
         \/ /\ type \in Channel!ControlTypes \cup Channel!ObjectTypes
            /\ type # "TICKET" /\ type \notin Channel!FixedTypes
BY DEF Channel!Types, Channel!FixedTypes, Channel!ControlTypes, Channel!ObjectTypes

LEMMA EncodedBytes ==
  ASSUME NEW msg, Channel!WellFormed(msg), Channel!Encode(msg) # Channel!NotEncoded
  PROVE  Channel!Encode(msg) \in Seq(Channel!Bytes)
<1>0. msg.type \in Channel!Types
  BY DEF Channel!WellFormed
<1>1. CASE msg.type = "TICKET" /\ msg.type \notin Channel!FixedTypes
  BY <1>1, TicketRoundTrip DEF Channel!Encode
<1>2. CASE msg.type \in Channel!FixedTypes /\ msg.type # "TICKET"
  BY <1>2, BlockBytes DEF Channel!Encode
<1>3. CASE /\ msg.type \in Channel!ControlTypes \cup Channel!ObjectTypes
           /\ msg.type # "TICKET" /\ msg.type \notin Channel!FixedTypes
  BY <1>3, LayoutRoundTrip DEF Channel!Encode
<1> QED
  BY <1>0, <1>1, <1>2, <1>3, Kinds

\* ... read back as it was meant, ...
LEMMA RoundTrip ==
  ASSUME NEW msg, Channel!WellFormed(msg), Channel!SafeFields(msg), Channel!Encode(msg) # Channel!NotEncoded
  PROVE  Channel!Decode(msg.type, Channel!Encode(msg)) = [type |-> msg.type, metadata |-> msg.metadata, tail |-> msg.tail]
<1>0. msg.type \in Channel!Types
  BY DEF Channel!WellFormed
<1>1. CASE msg.type = "TICKET" /\ msg.type \notin Channel!FixedTypes
  BY <1>1, TicketRoundTrip DEF Channel!Encode, Channel!Decode
<1>2. CASE msg.type \in Channel!FixedTypes /\ msg.type # "TICKET"
  BY <1>2, BlockRoundTrip DEF Channel!Encode, Channel!Decode
<1>3. CASE /\ msg.type \in Channel!ControlTypes \cup Channel!ObjectTypes
           /\ msg.type # "TICKET" /\ msg.type \notin Channel!FixedTypes
  BY <1>3, LayoutRoundTrip DEF Channel!Encode, Channel!Decode
<1> QED
  BY <1>0, <1>1, <1>2, <1>3, Kinds

\* ... and read in one way only.
LEMMA Canonical ==
  ASSUME NEW type \in Channel!Types, NEW b \in Seq(Channel!Bytes), Channel!Decode(type, b) # Channel!Refused
  PROVE  Channel!Encode(Channel!Decode(type, b)) = b
<1> DEFINE d == Channel!Decode(type, b)
<1>1. CASE type = "TICKET" /\ type \notin Channel!FixedTypes
  <2>1. d = Channel!DecodeTicket(b)
    BY <1>1 DEF Channel!Decode
  <2> HIDE DEF d
  <2>2. d.type = "TICKET" /\ Channel!TicketBytes(d.metadata, Len(Channel!Joined(d.tail))) \o Channel!Joined(d.tail) = b
    BY <2>1, TicketCanonical DEF d
  <2> QED
    BY <1>1, <2>2 DEF Channel!Encode, d
<1>2. CASE type \in Channel!FixedTypes /\ type # "TICKET"
  <2>1. d = Channel!DecodeBlock(type, b)
    BY <1>2 DEF Channel!Decode
  <2> HIDE DEF d
  <2>2. d.type = type /\ Channel!EncodeBlock(d) = b
    BY <1>2, <2>1, BlockCanonical DEF d
  <2> QED
    BY <1>2, <2>2 DEF Channel!Encode, d
<1>3. CASE type \in Channel!ControlTypes \cup Channel!ObjectTypes /\ type # "TICKET" /\ type \notin Channel!FixedTypes
  <2>1. d = Channel!DecodeLayout(type, b)
    BY <1>3 DEF Channel!Decode
  <2> HIDE DEF d
  <2>2. d.type = type /\ Channel!EncodeLayout(d) = b
    BY <1>3, <2>1, LayoutCanonical DEF d
  <2> QED
    BY <1>3, <2>2 DEF Channel!Encode, d
<1> QED
  BY <1>1, <1>2, <1>3, Kinds

\* ChannelInv: the wire carries bytes, those of the encoder until a peer alters them,
\* and the answer is the decoder's about what is on the wire.
ChannelInv ==
  /\ sent \in Messages
  /\ wire \in Seq(Channel!Bytes) \cup {Channel!NotEncoded}
  /\ ~altered /\ wire # Channel!Unwritten => wire = Channel!Encode(sent)
  /\ heard # Channel!Nothing =>
       wire \notin {Channel!Unwritten, Channel!NotEncoded} /\ heard = Channel!Decode(sent.type, wire)

LEMMA ChannelValuesFit ==
  /\ \A msg \in Messages : Channel!WellFormed(msg)
  /\ Strange \subseteq Channel!Bytes
BY ChannelAssumption

LEMMA InitChannel == Channel!Init => ChannelInv
BY DEF Channel!Init, ChannelInv, Channel!Unwritten

LEMMA AlteredBytes ==
  ASSUME NEW b \in Seq(Channel!Bytes), b # <<>>
  PROVE  /\ \A i \in 1 .. Len(b), s \in Channel!Bytes : [b EXCEPT ![i] = s] \in Seq(Channel!Bytes)
         /\ Channel!Front(b) \in Seq(Channel!Bytes)
         /\ Append(b, 1) \in Seq(Channel!Bytes)
<1>1. \A i \in 1 .. Len(b), s \in Channel!Bytes : [b EXCEPT ![i] = s] \in Seq(Channel!Bytes)
  OBVIOUS
<1>2. Channel!Front(b) \in Seq(Channel!Bytes)
  BY DEF Channel!Front
<1>3. 1 \in Channel!Bytes
  BY DEF Channel!Bytes
<1> QED
  BY <1>1, <1>2, <1>3

LEMMA ChannelStep == ChannelInv /\ [Channel!Next]_channelVars => ChannelInv'
<1> SUFFICES ASSUME ChannelInv, [Channel!Next]_channelVars
             PROVE  ChannelInv'
  OBVIOUS
<1>1. CASE Channel!Send
  <2>1. Channel!Encode(sent) \in Seq(Channel!Bytes) \cup {Channel!NotEncoded}
    BY ChannelValuesFit, EncodedBytes DEF ChannelInv
  <2>2. heard = Channel!Nothing
    BY <1>1 DEF ChannelInv, Channel!Send
  <2> QED
    BY <1>1, <2>1, <2>2 DEF ChannelInv, Channel!Send
<1>2. CASE Channel!Vary
  <2>1. wire \in Seq(Channel!Bytes) /\ wire # <<>> /\ heard = Channel!Nothing
    BY <1>2 DEF ChannelInv, Channel!Vary, Channel!Unwritten
  <2>2. wire' \in Seq(Channel!Bytes)
    BY <1>2, <2>1, AlteredBytes, ChannelValuesFit DEF Channel!Vary, Channel!Front
  <2> QED
    BY <1>2, <2>1, <2>2 DEF ChannelInv, Channel!Vary
<1>3. CASE Channel!Receive
  BY <1>3 DEF ChannelInv, Channel!Receive
<1>4. CASE UNCHANGED channelVars
  BY <1>4 DEF ChannelInv, channelVars
<1> QED
  BY <1>1, <1>2, <1>3, <1>4 DEF Channel!Next

LEMMA ChannelAlone ==
  ASSUME [PartsNext]_<<part, registryVars, channelVars, submitVars, hostVars, roleVars>>
  PROVE  part' = part /\ (part = "channel" => [Channel!Next]_channelVars)
BY DEF PartsNext

\* ChannelInv holds throughout: what is on the wire and what was read from it.
THEOREM ChannelInvariance == PartsSpec => [](part = "channel" => ChannelInv)
<1>1. PartsInit => (part = "channel" => ChannelInv)
  BY InitChannel DEF PartsInit
<1>2. (part = "channel" => ChannelInv) /\ [PartsNext]_<<part, registryVars, channelVars, submitVars, hostVars, roleVars>>
        => (part = "channel" => ChannelInv)'
  BY ChannelAlone, ChannelStep
<1> QED BY <1>1, <1>2, PTL DEF PartsSpec

\* Whatever an encoder of packages/core accepts, its decoder accepts and reads back field
\* by field and segment by segment, for every message an application can form.
THEOREM SurvivesTheorem == PartsSpec => []SurvivesTheWire
<1>1. ChannelInv => Channel!SurvivesTheWire
  <2> SUFFICES ASSUME ChannelInv, heard # Channel!Nothing, ~altered, Channel!SafeFields(sent)
               PROVE  heard # Channel!Refused /\ heard.metadata = sent.metadata /\ heard.tail = sent.tail
    BY DEF Channel!SurvivesTheWire
  <2>1. /\ Channel!WellFormed(sent) /\ wire = Channel!Encode(sent) /\ wire # Channel!NotEncoded
        /\ heard = Channel!Decode(sent.type, wire)
    BY ChannelValuesFit DEF ChannelInv
  <2>2. heard = [type |-> sent.type, metadata |-> sent.metadata, tail |-> sent.tail]
    BY <2>1, RoundTrip
  <2>3. sent.type \in Channel!Types
    BY <2>1 DEF Channel!WellFormed
  <2> QED
    BY <2>2, <2>3, DecodersAnswer
<1>2. (part = "channel" => ChannelInv) => SurvivesTheWire
  BY <1>1 DEF SurvivesTheWire
<1> QED BY <1>2, ChannelInvariance, PTL

\* Whatever bytes a peer sends, those a decoder accepts are the ones its encoder writes
\* for what it read: no byte is ignored and no two blocks mean the same message.
THEOREM NoByteIgnoredTheorem == PartsSpec => []NoByteIgnored
<1>1. ChannelInv => Channel!NoByteIgnored
  <2> SUFFICES ASSUME ChannelInv, heard # Channel!Nothing, heard # Channel!Refused
               PROVE  Channel!Encode(heard) = wire
    BY DEF Channel!NoByteIgnored
  <2>1. /\ Channel!WellFormed(sent) /\ wire \in Seq(Channel!Bytes)
        /\ heard = Channel!Decode(sent.type, wire)
    BY ChannelValuesFit DEF ChannelInv
  <2>2. sent.type \in Channel!Types
    BY <2>1 DEF Channel!WellFormed
  <2> QED
    BY <2>1, <2>2, Canonical
<1>2. (part = "channel" => ChannelInv) => NoByteIgnored
  BY <1>1 DEF NoByteIgnored
<1> QED BY <1>2, ChannelInvariance, PTL

------------------------------------------------------------------------------
\* SubmitRequests: a builder's bytes, as the decoder and the reference reader see them.

Strings == Seq(Channel!Bytes)

\* Induction along 1 .. n, over a set.
LEMMA Upwards ==
  ASSUME NEW n \in Nat, NEW A,
         \A k \in 1 .. n : (\A j \in 1 .. n : j < k => j \in A) => k \in A
  PROVE  \A k \in 1 .. n : k \in A
<1> DEFINE Bad == {k \in 1 .. n : k \notin A}
<1>1. Bad = {}
  <2> SUFFICES ASSUME Bad # {} PROVE FALSE
    OBVIOUS
  <2>1. PICK m \in Bad : \A y \in Bad : <<y, m>> \notin OpToRel(<, Nat)
    <3>1. Bad \subseteq Nat OBVIOUS
    <3> HIDE DEF Bad
    <3> QED BY <3>1, NatLessThanWellFounded, WFMin
  <2>2. \A y \in Bad : ~(y < m)
    <3>1. \A y \in Bad : y \in Nat /\ m \in Nat OBVIOUS
    <3> HIDE DEF Bad
    <3> QED BY <2>1, <3>1 DEF OpToRel
  <2>3. \A j \in 1 .. n : j < m => j \in A
    BY <2>2
  <2> QED
    BY <2>3
<1> QED BY <1>1

\* The strings of a sequence, put one behind another step by step.
LEMMA Unfolded ==
  ASSUME NEW n \in Nat, NEW s \in [1 .. n -> Strings]
  PROVE  \E g \in [0 .. n -> Strings] : g[0] = <<>> /\ \A k \in 1 .. n : g[k] = g[k - 1] \o s[k]
<1> DEFINE Is(g, m) == g \in [0 .. m -> Strings] /\ g[0] = <<>> /\ \A k \in 1 .. m : g[k] = g[k - 1] \o s[k]
           Bad == {m \in 0 .. n : \A g : ~Is(g, m)}
<1>1. Bad = {}
  <2> SUFFICES ASSUME Bad # {} PROVE FALSE
    OBVIOUS
  <2>1. PICK m \in Bad : \A y \in Bad : <<y, m>> \notin OpToRel(<, Nat)
    <3>1. Bad \subseteq Nat
      <4> HIDE DEF Is
      <4> QED OBVIOUS
    <3> HIDE DEF Bad
    <3> QED BY <3>1, NatLessThanWellFounded, WFMin
  <2>2. m \in 0 .. n /\ \A g : ~Is(g, m)
    OBVIOUS
  <2>3. \A y \in Bad : ~(y < m)
    <3>1. \A y \in Bad : y \in Nat /\ m \in Nat OBVIOUS
    <3> HIDE DEF Bad
    <3> QED BY <2>1, <3>1 DEF OpToRel
  <2>4. CASE m = 0
    <3> DEFINE g == [k \in 0 .. 0 |-> <<>>]
    <3>1. g \in [0 .. 0 -> Strings] /\ g[0] = <<>>
      BY DEF Strings
    <3>2. Is(g, 0)
      BY <3>1
    <3> QED
      BY <2>2, <2>4, <3>2
  <2>5. CASE m # 0
    <3>1. m - 1 \in 0 .. n /\ m - 1 < m /\ m \in 1 .. n
      BY <2>2, <2>5
    <3>2. PICK f : Is(f, m - 1)
      BY <2>3, <3>1
    <3> DEFINE g == [k \in 0 .. m |-> IF k = m THEN f[m - 1] \o s[m] ELSE f[k]]
    <3>3. g[0] = <<>> /\ g[m] = f[m - 1] \o s[m] /\ \A k \in 0 .. m - 1 : g[k] = f[k] /\ f[k] \in Strings
      BY <2>5, <3>1, <3>2
    <3>4. g \in [0 .. m -> Strings]
      <4>1. f[m - 1] \in Strings /\ s[m] \in Strings
        <5>1. m - 1 \in 0 .. m - 1
          BY <3>1
        <5>2. f[m - 1] \in Strings
          BY <3>3, <5>1
        <5>3. s[m] \in Strings
          BY <3>1
        <5> QED
          BY <5>2, <5>3
      <4>2. f[m - 1] \o s[m] \in Strings
        BY <4>1 DEF Strings
      <4>3. \A k \in 0 .. m : k = m \/ k \in 0 .. m - 1
        BY <3>1
      <4>4. \A k \in 0 .. m : g[k] \in Strings
        <5>1. g[m] \in Strings /\ \A k \in 0 .. m - 1 : g[k] \in Strings
          <6>1. g[m] = f[m - 1] \o s[m] /\ \A k \in 0 .. m - 1 : g[k] = f[k] /\ f[k] \in Strings
            BY <3>3
          <6> HIDE DEF g
          <6> QED
            BY ONLY <4>2, <6>1
        <5> HIDE DEF g
        <5> QED
          BY ONLY <4>3, <5>1
      <4> HIDE DEF Is
      <4> QED
        BY <4>4
    <3>5. ASSUME NEW k \in 1 .. m
          PROVE  g[k] = g[k - 1] \o s[k]
      <4>1. k - 1 \in 0 .. m - 1
        BY <3>1
      <4>2. CASE k = m
        BY <3>3, <4>1, <4>2
      <4>3. CASE k # m
        <5>1. k \in 1 .. m - 1 /\ k \in 0 .. m - 1
          BY <3>1, <4>3
        <5> QED
          BY <3>2, <3>3, <4>1, <5>1
      <4> QED
        BY <4>2, <4>3
    <3> QED
      BY <2>2, <3>3, <3>4, <3>5
  <2> QED
    BY <2>4, <2>5
<1>2. n \in 0 .. n
  OBVIOUS
<1> QED
  BY <1>1, <1>2

Folded(f, t, k) == f = [i \in 1 .. k |-> IF i = 1 THEN t[i] ELSE f[i - 1] \o t[i]]

\* The fold of FlattenSeq is that function.
LEMMA SameFold ==
  ASSUME NEW k \in Nat, NEW t, NEW f, NEW h, Folded(f, t, k), Folded(h, t, k)
  PROVE  f = h
<1>a. /\ f = [i \in 1 .. k |-> IF i = 1 THEN t[i] ELSE f[i - 1] \o t[i]]
      /\ h = [i \in 1 .. k |-> IF i = 1 THEN t[i] ELSE h[i - 1] \o t[i]]
  BY DEF Folded
<1>1. ASSUME NEW i \in 1 .. k, \A j \in 1 .. k : j < i => f[j] = h[j]
      PROVE  f[i] = h[i]
  <2>1. /\ f[i] = IF i = 1 THEN t[i] ELSE f[i - 1] \o t[i]
        /\ h[i] = IF i = 1 THEN t[i] ELSE h[i - 1] \o t[i]
    BY <1>a
  <2>2. CASE i = 1
    BY <2>1, <2>2
  <2>3. CASE i # 1
    <3>1. i - 1 \in 1 .. k /\ i - 1 < i
      BY <2>3
    <3> QED
      BY <1>1, <2>1, <2>3, <3>1
  <2> QED
    BY <2>2, <2>3
<1> DEFINE A == {i \in 1 .. k : f[i] = h[i]}
<1>2. \A i \in 1 .. k : (\A j \in 1 .. k : j < i => j \in A) => i \in A
  BY <1>1
<1> HIDE DEF A
<1>3. \A i \in 1 .. k : i \in A
  BY <1>2, Upwards
<1>4. \A i \in 1 .. k : f[i] = h[i]
  BY <1>3 DEF A
<1>5. f = [i \in 1 .. k |-> f[i]] /\ h = [i \in 1 .. k |-> h[i]]
  BY ONLY <1>a
<1> QED
  BY ONLY <1>4, <1>5

\* What FlattenSeq() makes of the first strings of a sequence.
LEMMA Flattening ==
  ASSUME NEW n \in Nat, NEW s \in [1 .. n -> Strings]
  PROVE  \E g \in [0 .. n -> Strings] :
           /\ g[0] = <<>>
           /\ \A k \in 1 .. n : g[k] = g[k - 1] \o s[k]
           /\ \A k \in 0 .. n : Submits!FlattenSeq([j \in 1 .. k |-> s[j]]) = g[k]
<1>1. PICK g \in [0 .. n -> Strings] : g[0] = <<>> /\ \A k \in 1 .. n : g[k] = g[k - 1] \o s[k]
  BY Unfolded
<1>2. ASSUME NEW k \in 0 .. n
      PROVE  Submits!FlattenSeq([j \in 1 .. k |-> s[j]]) = g[k]
  <2> DEFINE t == [j \in 1 .. k |-> s[j]]
  <2>1. t \in Seq(Strings) /\ Len(t) = k /\ \A j \in 1 .. k : t[j] = s[j]
    OBVIOUS
  <2> HIDE DEF t
  <2>2. CASE k = 0
    <3>1. t = <<>>
      BY <2>1, <2>2
    <3> QED
      BY <1>1, <2>1, <2>2, <3>1 DEF Submits!FlattenSeq, t
  <2>3. CASE k # 0
    <3> DEFINE Flat(f) == f = [i \in 1 .. Len(t) |-> IF i = 1 THEN t[i] ELSE f[i - 1] \o t[i]]
               f == CHOOSE h : Flat(h)
               h == [i \in 1 .. k |-> g[i]]
    <3>1. Submits!FlattenSeq(t) = f[k]
      BY <2>1, <2>3 DEF Submits!FlattenSeq
    <3>2. ASSUME NEW i \in 1 .. k
          PROVE  h[i] = IF i = 1 THEN t[i] ELSE h[i - 1] \o t[i]
      <4>1. i \in 1 .. n /\ h[i] = g[i] /\ g[i] = g[i - 1] \o t[i]
        <5>1. i \in 1 .. n /\ t[i] = s[i]
          BY <2>1
        <5> QED
          BY <1>1, <5>1
      <4>2. CASE i = 1
        <5>1. g[0] \o t[1] = t[1]
          BY <1>1, <2>1, <4>1, <4>2 DEF Strings
        <5> QED
          BY <4>1, <4>2, <5>1
      <4>3. CASE i # 1
        <5>1. i - 1 \in 1 .. k
          BY <4>3
        <5>2. h[i - 1] = g[i - 1]
          BY <5>1
        <5> QED
          BY <4>1, <4>3, <5>2
      <4> QED
        BY ONLY <4>2, <4>3
    <3>3. Flat(h)
      <4>1. h = [i \in 1 .. k |-> IF i = 1 THEN t[i] ELSE h[i - 1] \o t[i]]
        <5>1. h = [i \in 1 .. k |-> h[i]]
          OBVIOUS
        <5> HIDE DEF h
        <5>2. [i \in 1 .. k |-> h[i]] = [i \in 1 .. k |-> IF i = 1 THEN t[i] ELSE h[i - 1] \o t[i]]
          BY ONLY <3>2
        <5> QED
          BY ONLY <5>1, <5>2
      <4>2. Len(t) = k
        BY <2>1
      <4> HIDE DEF h
      <4> QED
        BY ONLY <4>1, <4>2
    <3>4. Flat(f)
      <4>1. \E z : Flat(z)
        BY <3>3
      <4> HIDE DEF Flat
      <4> QED
        BY ONLY <4>1
    <3> HIDE DEF f
    <3>5. f = [i \in 1 .. k |-> IF i = 1 THEN t[i] ELSE f[i - 1] \o t[i]] /\ k \in Nat
      <4>1. Len(t) = k /\ k \in Nat
        BY <2>1
      <4>2. f = [i \in 1 .. Len(t) |-> IF i = 1 THEN t[i] ELSE f[i - 1] \o t[i]]
        BY <3>4
      <4> HIDE DEF Flat
      <4> QED
        BY ONLY <4>1, <4>2
    <3>6. h = [i \in 1 .. k |-> IF i = 1 THEN t[i] ELSE h[i - 1] \o t[i]]
      BY <3>2
    <3> HIDE DEF h
    <3>7. f = h
      <4>1. Folded(f, t, k) /\ Folded(h, t, k) /\ k \in Nat
        BY ONLY <3>5, <3>6 DEF Folded
      <4> QED
        BY ONLY <4>1, SameFold
    <3> HIDE DEF Flat
    <3>8. h[k] = g[k]
      BY <2>3 DEF h
    <3> QED
      BY ONLY <3>1, <3>7, <3>8 DEF t
  <2> QED
    BY <2>2, <2>3 DEF t
<1> QED
  BY <1>1, <1>2

\* Strings one behind the other: at[k] is where the k-th ends.
Lays(s, n, at) ==
  /\ at[0] = 0
  /\ \A k \in 1 .. n : at[k] = at[k - 1] + Len(s[k]) /\ at[k] <= at[n]
  /\ \A k \in 1 .. n : \A i \in 1 .. Len(s[k]) : Submits!FlattenSeq(s)[at[k - 1] + i] = s[k][i]
  /\ \A k \in 0 .. n : Len(Submits!FlattenSeq([j \in 1 .. k |-> s[j]])) = at[k]
  /\ Submits!FlattenSeq(s) \in Strings /\ Len(Submits!FlattenSeq(s)) = at[n]

\* Strings one behind another: where each begins, and that its bytes are found there.
LEMMA Laying ==
  ASSUME NEW n \in Nat, NEW s \in [1 .. n -> Strings]
  PROVE  \E at \in [0 .. n -> Nat] : Lays(s, n, at)
<1>1. PICK g \in [0 .. n -> Strings] :
           /\ g[0] = <<>>
           /\ \A k \in 1 .. n : g[k] = g[k - 1] \o s[k]
           /\ \A k \in 0 .. n : Submits!FlattenSeq([j \in 1 .. k |-> s[j]]) = g[k]
  BY Flattening
<1> DEFINE at == [k \in 0 .. n |-> Len(g[k])]
           Starts(k, m) == Len(g[k]) <= Len(g[m]) /\ \A i \in 1 .. Len(g[k]) : g[m][i] = g[k][i]
<1>2. \A k \in 0 .. n : g[k] \in Strings /\ Len(g[k]) \in Nat
  BY DEF Strings
<1>3. ASSUME NEW k \in 1 .. n
      PROVE  /\ k - 1 \in 0 .. n /\ k \in 0 .. n /\ Len(s[k]) \in Nat
             /\ Len(g[k]) = Len(g[k - 1]) + Len(s[k])
             /\ \A i \in 1 .. Len(g[k - 1]) : g[k][i] = g[k - 1][i]
             /\ \A i \in 1 .. Len(s[k]) : g[k][Len(g[k - 1]) + i] = s[k][i]
  <2>1. k - 1 \in 0 .. n /\ k \in 0 .. n
    OBVIOUS
  <2> DEFINE p == g[k - 1]
             q == s[k]
  <2>2. p \in Seq(Channel!Bytes) /\ q \in Seq(Channel!Bytes) /\ g[k] = p \o q
    BY <1>1, <1>2, <2>1 DEF Strings
  <2> HIDE DEF p, q
  <2>3. /\ Len(p \o q) = Len(p) + Len(q) /\ Len(q) \in Nat
        /\ \A i \in 1 .. Len(p) : (p \o q)[i] = p[i]
        /\ \A i \in 1 .. Len(q) : (p \o q)[Len(p) + i] = q[i]
    BY <2>2
  <2> QED
    BY <2>1, <2>2, <2>3 DEF p, q
<1>4. \A m \in 1 .. n : \A k \in 0 .. m : Starts(k, m)
  <2> DEFINE A == {m \in 1 .. n : \A k \in 0 .. m : Starts(k, m)}
  <2>1. ASSUME NEW m \in 1 .. n, \A j \in 1 .. n : j < m => j \in A
        PROVE  m \in A
    <3> SUFFICES ASSUME NEW k \in 0 .. m
                 PROVE  Starts(k, m)
      OBVIOUS
    <3>1. CASE k = m
      BY <1>2, <1>3, <3>1
    <3>2. CASE k = m - 1
      BY <1>2, <1>3, <3>2
    <3>3. CASE k # m /\ k # m - 1
      <4>1. m - 1 \in 1 .. n /\ m - 1 < m /\ k \in 0 .. m - 1 /\ k \in 0 .. n
        BY <3>3
      <4>2. Starts(k, m - 1)
        BY <2>1, <4>1
      <4>3. \A i \in 1 .. Len(g[k]) : i \in 1 .. Len(g[m - 1])
        BY <1>2, <1>3, <4>1, <4>2
      <4> QED
        BY <1>2, <1>3, <4>1, <4>2, <4>3
    <3> QED
      BY <3>1, <3>2, <3>3
  <2> HIDE DEF A
  <2>2. \A m \in 1 .. n : m \in A
    BY <2>1, Upwards
  <2> QED
    BY <2>2 DEF A
<1>5. at \in [0 .. n -> Nat] /\ \A k \in 0 .. n : at[k] = Len(g[k])
  BY <1>2
<1> HIDE DEF at
<1>6. Submits!FlattenSeq(s) = g[n]
  <2>1. [j \in 1 .. n |-> s[j]] = s /\ n \in 0 .. n
    OBVIOUS
  <2> QED
    BY <1>1, <2>1
<1>7. at[0] = 0 /\ n \in 0 .. n
  BY <1>1, <1>5
<1>8. ASSUME NEW k \in 1 .. n
      PROVE  at[k] = at[k - 1] + Len(s[k]) /\ at[k] <= at[n] /\ \A i \in 1 .. Len(s[k]) : g[n][at[k - 1] + i] = s[k][i]
  <2>1. at[k] = at[k - 1] + Len(s[k]) /\ at[k - 1] \in Nat /\ at[k] = Len(g[k]) /\ at[k - 1] = Len(g[k - 1])
    BY <1>3, <1>5
  <2>2. n \in 1 .. n /\ k \in 0 .. n
    OBVIOUS
  <2>3. Starts(k, n)
    BY <1>4, <2>2
  <2>4. \A i \in 1 .. Len(s[k]) : at[k - 1] + i \in 1 .. Len(g[k])
    BY <1>3, <2>1
  <2>5. at[k] <= at[n]
    BY <1>5, <1>7, <2>1, <2>3
  <2>6. \A i \in 1 .. Len(s[k]) : g[k][at[k - 1] + i] = s[k][i]
    BY <1>3, <2>1
  <2>7. \A x \in 1 .. Len(g[k]) : g[n][x] = g[k][x]
    BY <2>3
  <2>8. \A i \in 1 .. Len(s[k]) : g[n][at[k - 1] + i] = s[k][i]
    BY ONLY <2>4, <2>6, <2>7
  <2> QED
    BY ONLY <2>1, <2>5, <2>8
<1>9. \A k \in 0 .. n : Len(Submits!FlattenSeq([j \in 1 .. k |-> s[j]])) = at[k]
  BY <1>1, <1>5
<1>10. Submits!FlattenSeq(s) \in Strings /\ Len(Submits!FlattenSeq(s)) = at[n]
  BY <1>2, <1>5, <1>6, <1>7
<1>11. Lays(s, n, at)
  BY ONLY <1>6, <1>7, <1>8, <1>9, <1>10 DEF Lays
<1> QED
  BY <1>5, <1>11

LEMMA Times ==
  ASSUME NEW w \in Nat, NEW k \in Nat
  PROVE  w * k \in Nat /\ w * (k + 1) = w * k + w /\ w * 0 = 0
OBVIOUS

\* Strings of one length lie at its multiples.
LEMMA EvenlyLaid ==
  ASSUME NEW n \in Nat, NEW w \in Nat, NEW at \in [0 .. n -> Nat], at[0] = 0, \A k \in 1 .. n : at[k] = at[k - 1] + w
  PROVE  \A k \in 0 .. n : at[k] = w * k
<1> DEFINE A == {k \in 1 .. n : at[k] = w * k}
<1>1. ASSUME NEW k \in 1 .. n, \A j \in 1 .. n : j < k => j \in A
      PROVE  k \in A
  <2>1. k - 1 \in Nat /\ (k - 1) + 1 = k
    OBVIOUS
  <2>2. at[k - 1] = w * (k - 1)
    <3>1. CASE k = 1
      BY <3>1, Times
    <3>2. CASE k # 1
      <4>1. k - 1 \in 1 .. n /\ k - 1 < k
        BY <3>2
      <4> QED
        BY <1>1, <4>1
    <3> QED
      BY <3>1, <3>2
  <2>3. w * ((k - 1) + 1) = w * (k - 1) + w
    BY <2>1, Times
  <2> QED
    BY <2>1, <2>2, <2>3
<1> HIDE DEF A
<1>2. \A k \in 1 .. n : k \in A
  BY <1>1, Upwards
<1>3. \A k \in 0 .. n : k = 0 \/ k \in 1 .. n
  OBVIOUS
<1> QED
  BY <1>2, <1>3, Times DEF A

\* A string that lies in another is what SubSeq cuts out of it.
LEMMA Cut ==
  ASSUME NEW b \in Strings, NEW c \in Strings, NEW o \in Nat, o + Len(c) <= Len(b),
         \A i \in 1 .. Len(c) : b[o + i] = c[i]
  PROVE  SubSeq(b, o + 1, o + Len(c)) = c
<1> DEFINE d == SubSeq(b, o + 1, o + Len(c))
<1>1. Len(b) \in Nat /\ Len(c) \in Nat /\ b \in Seq(Channel!Bytes) /\ c \in Seq(Channel!Bytes)
  BY DEF Strings
<1>2. d \in Seq(Channel!Bytes) /\ Len(d) = Len(c) /\ \A i \in 1 .. Len(c) : d[i] = b[o + i]
  BY <1>1
<1> HIDE DEF d
<1>3. d = c
  BY <1>1, <1>2, SeqEqual
<1> QED
  BY <1>3 DEF d

\* The integers of the submit requests are those of the channel.
LEMMA SameIntegers ==
  /\ \A n : Submits!N(n) = Channel!N(n)
  /\ Submits!Zero = Channel!Zero
  /\ \A v : Submits!Low(v) = Channel!Low(v)
  /\ \A v, w : Submits!Fits(v, w) <=> Channel!Fits(v, w)
  /\ \A size, fields, m : Submits!Written(size, fields, m) = Channel!Written(size, fields, m)
  /\ \A b, fields : Submits!ReadFields(b, fields) = Channel!ReadFields(b, fields)
  /\ \A b, reserved : Submits!IsZero(b, reserved) <=> Channel!IsZero(b, reserved)
<1>1. \A n : Submits!N(n) = Channel!N(n)
  BY DEF Submits!N, Channel!N, Submits!Places, Channel!Places, Submits!Weight, Channel!Weight
<1>2. Submits!Zero = Channel!Zero
  BY <1>1 DEF Submits!Zero, Channel!Zero
<1>3. /\ \A v : Submits!Low(v) = Channel!Low(v)
      /\ \A v, w : Submits!Fits(v, w) <=> Channel!Fits(v, w)
  BY DEF Submits!Low, Channel!Low, Submits!Fits, Channel!Fits
<1>4. Submits!Width = Channel!Width
  BY DEF Submits!Width, Channel!Width
<1>5. \A size, fields, m : Submits!Written(size, fields, m) = Channel!Written(size, fields, m)
  BY <1>4 DEF Submits!Written, Channel!Written
<1>6. \A b, f : Submits!ReadInteger(b, f) = Channel!ReadInteger(b, f)
  BY <1>4 DEF Submits!ReadInteger, Channel!ReadInteger, Submits!Places, Channel!Places
<1>7. \A b, fields : Submits!ReadFields(b, fields) = Channel!ReadFields(b, fields)
  BY <1>6 DEF Submits!ReadFields, Channel!ReadFields
<1>8. \A b, reserved : Submits!IsZero(b, reserved) <=> Channel!IsZero(b, reserved)
  BY <1>2, <1>6 DEF Submits!IsZero, Channel!IsZero
<1> QED
  BY <1>1, <1>2, <1>3, <1>5, <1>7, <1>8

\* A block somewhere in a string.
LEMMA BlockAt ==
  ASSUME NEW fields, NEW size, NEW m, Placed(fields, size), Carries(fields, m),
         NEW b \in Strings, NEW o \in Nat, o + size <= Len(b),
         \A i \in 1 .. size : b[o + i] = Submits!Written(size, fields, m)[i]
  PROVE  Submits!ReadFields(SubSeq(b, o + 1, o + size), fields) = m
<1> DEFINE c == SubSeq(b, o + 1, o + size)
<1>1. size \in Nat /\ Len(b) \in Nat /\ b \in Seq(Channel!Bytes)
  BY DEF Placed, Strings
<1>2. \A i \in 1 .. size : c[i] = b[o + i]
  BY <1>1
<1> HIDE DEF c
<1>3. \A i \in 1 .. size : c[i] = Channel!Written(size, fields, m)[i]
  BY <1>2, SameIntegers
<1>4. Channel!ReadFields(c, fields) = m
  BY <1>3, ReadsBack
<1> QED
  BY <1>4, SameIntegers DEF c

\* Their tables too.
LEMMA SameTables ==
  /\ Submits!FrameSubmitW = Channel!FrameSubmitW /\ Submits!FrameSubmitR = Channel!FrameSubmitR
  /\ Submits!FrameSubmitZ = Channel!FrameSubmitZ
  /\ Submits!TypedPayloadW = Channel!TypedPayloadW /\ Submits!TypedPayloadR = Channel!TypedPayloadR
  /\ Submits!ObjectReferenceBlockW = Channel!ObjectReferenceBlockW
  /\ \A m : Submits!ValidFrameSubmit(m) <=> Channel!ValidFrameSubmit(m)
<1>1. /\ \A n : Submits!u8(n) = Channel!u8(n) /\ Submits!u16(n) = Channel!u16(n)
      /\ \A n : Submits!u32(n) = Channel!u32(n) /\ Submits!u64(n) = Channel!u64(n)
  BY DEF Submits!u8, Submits!u16, Submits!u32, Submits!u64, Channel!u8, Channel!u16, Channel!u32, Channel!u64
<1>2. Submits!FrameSubmitW = Channel!FrameSubmitW
  BY <1>1 DEF Submits!FrameSubmitW, Channel!FrameSubmitW
<1>3. Submits!FrameSubmitR = Channel!FrameSubmitR
  BY <1>1 DEF Submits!FrameSubmitR, Channel!FrameSubmitR
<1>4. Submits!FrameSubmitZ = Channel!FrameSubmitZ
  BY <1>1 DEF Submits!FrameSubmitZ, Channel!FrameSubmitZ
<1>5. Submits!TypedPayloadW = Channel!TypedPayloadW /\ Submits!TypedPayloadR = Channel!TypedPayloadR
  BY <1>1 DEF Submits!TypedPayloadW, Channel!TypedPayloadW, Submits!TypedPayloadR, Channel!TypedPayloadR
<1>6. Submits!ObjectReferenceBlockW = Channel!ObjectReferenceBlockW
  BY <1>1 DEF Submits!ObjectReferenceBlockW, Channel!ObjectReferenceBlockW
<1>7. ASSUME NEW m
      PROVE  Submits!ValidFrameSubmit(m) <=> Channel!ValidFrameSubmit(m)
  BY SameIntegers DEF Submits!ValidFrameSubmit, Channel!ValidFrameSubmit, Submits!AllFit, Channel!AllFit,
     Submits!AtMost, Channel!AtMost, Submits!Masked, Channel!Masked, Submits!HasBit, Channel!HasBit
<1> QED
  BY <1>2, <1>3, <1>4, <1>5, <1>6, <1>7

LEMMA IntegerBytes ==
  ASSUME NEW n \in Int
  PROVE  Submits!N(n) \in Channel!Numbers
<1>1. Submits!N(n) = [k \in 1 .. 9 |-> IF k <= 4 THEN (n \div Channel!Weight[k]) % 256 ELSE IF n < 0 THEN 255 ELSE 0]
  BY SameIntegers DEF Channel!N, Channel!Places
<1>2. ASSUME NEW k \in 1 .. 4
      PROVE  (n \div Channel!Weight[k]) % 256 \in 0 .. 255
  <2>1. k = 1 \/ k = 2 \/ k = 3 \/ k = 4
    OBVIOUS
  <2>2. n \div Channel!Weight[k] \in Int
    BY <2>1 DEF Channel!Weight
  <2> QED
    BY <2>2
<1>3. \A k \in 1 .. 9 : k <= 4 => k \in 1 .. 4
  OBVIOUS
<1> QED
  BY <1>1, <1>2, <1>3 DEF Channel!Numbers, Channel!Places, Channel!Bytes

LEMMA LengthBytes ==
  ASSUME NEW n \in Nat
  PROVE  /\ Submits!N(n) \in Channel!Numbers /\ Carried("u32", Submits!N(n))
         /\ Submits!Low(Submits!N(n)) \in Nat /\ Submits!Low(Submits!N(n)) <= n
         /\ n <= 65535 => Carried("u16", Submits!N(n)) /\ Submits!Low(Submits!N(n)) = n
BY NumeralFacts, FitsIsCarried, SameIntegers

LEMMA ZeroBytes ==
  /\ Submits!Zero \in Channel!Numbers /\ Submits!Low(Submits!Zero) = 0
  /\ \A kind \in {"u8", "u16", "u32", "u64"} : Carried(kind, Submits!Zero)
BY SameIntegers, ZeroIs DEF Channel!Numbers, Channel!Places, Channel!Bytes, Channel!Low, Carried, Channel!Width

LEMMA PreludePlaced ==
  /\ Placed(Submits!PreludeFields, 32)
  /\ DOMAIN Submits!PreludeFields = {"inline", "references", "descriptors", "frames", "extensionDescriptors", "extensions"}
  /\ \A f \in DOMAIN Submits!PreludeFields : Submits!PreludeFields[f].kind = "u32"
BY DEF Submits!PreludeFields, Placed, Apart, Within, InBlock, Extent, Channel!Width, Submits!u32

PreludeOf(inline, references, descriptors, frames) ==
  [inline |-> Submits!N(Len(inline)), references |-> Submits!N(Len(references)), descriptors |-> Submits!N(Len(descriptors)),
   frames |-> Submits!N(Len(frames)), extensionDescriptors |-> Submits!Zero, extensions |-> Submits!Zero]

\* The prelude of a body: its fields hold the lengths of the regions.
LEMMA PreludeCarries ==
  ASSUME NEW inline \in Strings, NEW references \in Strings, NEW descriptors \in Strings, NEW frames \in Strings
  PROVE  Carries(Submits!PreludeFields, PreludeOf(inline, references, descriptors, frames))
<1>1. Len(inline) \in Nat /\ Len(references) \in Nat /\ Len(descriptors) \in Nat /\ Len(frames) \in Nat
  BY DEF Strings
<1> DEFINE p == PreludeOf(inline, references, descriptors, frames)
<1>2. DOMAIN p = DOMAIN Submits!PreludeFields /\ p = [f \in DOMAIN p |-> p[f]]
  BY PreludePlaced DEF PreludeOf
<1>3. ASSUME NEW f \in DOMAIN Submits!PreludeFields
      PROVE  p[f] \in Channel!Numbers /\ Carried("u32", p[f])
  <2>1. \/ p[f] = Submits!N(Len(inline)) \/ p[f] = Submits!N(Len(references))
        \/ p[f] = Submits!N(Len(descriptors)) \/ p[f] = Submits!N(Len(frames)) \/ p[f] = Submits!Zero
    BY PreludePlaced DEF PreludeOf
  <2>2. PICK l \in Nat : p[f] = Submits!N(l) \/ p[f] = Submits!Zero
    BY ONLY <1>1, <2>1
  <2>3. Submits!N(l) \in Channel!Numbers /\ Carried("u32", Submits!N(l))
    BY LengthBytes
  <2>4. Submits!Zero \in Channel!Numbers /\ Carried("u32", Submits!Zero)
    BY ZeroBytes
  <2> QED
    BY ONLY <2>2, <2>3, <2>4
<1> HIDE DEF p
<1> QED
  BY <1>2, <1>3, PreludePlaced DEF Carries, p

\* A string behind another.
LEMMA Behind ==
  ASSUME NEW s \in Strings, NEW t \in Strings
  PROVE  /\ s \o t \in Strings /\ Len(s \o t) = Len(s) + Len(t) /\ Len(s) \in Nat /\ Len(t) \in Nat
         /\ \A i \in 1 .. Len(s) : (s \o t)[i] = s[i]
         /\ \A i \in 1 .. Len(t) : (s \o t)[Len(s) + i] = t[i]
BY DEF Strings

\* A body, with its regions one behind the other.
Laid(b, size, inline, references, descriptors, frames) ==
  /\ b \in Strings
  /\ Len(b) = 32 + Len(inline) + Len(references) + Len(descriptors) + Len(frames)
  /\ \A i \in 1 .. size :
       b[i] = Submits!Written(32, Submits!PreludeFields, PreludeOf(inline, references, descriptors, frames))[i]
  /\ \A i \in 1 .. Len(inline) : b[32 + i] = inline[i]
  /\ \A i \in 1 .. Len(references) : b[32 + Len(inline) + i] = references[i]
  /\ \A i \in 1 .. Len(descriptors) : b[32 + Len(inline) + Len(references) + i] = descriptors[i]
  /\ \A i \in 1 .. Len(frames) : b[32 + Len(inline) + Len(references) + Len(descriptors) + i] = frames[i]

\* What Body() puts together.
LEMMA BodyShape ==
  ASSUME NEW inline \in Strings, NEW references \in Strings, NEW descriptors \in Strings, NEW frames \in Strings,
         NEW b, b = Submits!Body(inline, references, descriptors, frames), NEW size, size = 32
  PROVE  Laid(b, size, inline, references, descriptors, frames)
<1> DEFINE w == Submits!Written(32, Submits!PreludeFields, PreludeOf(inline, references, descriptors, frames))
           x == w \o inline
           y == x \o references
           z == y \o descriptors
<1>1. b = z \o frames
  BY DEF Submits!Body, PreludeOf
<1>2. w \in Strings /\ Len(w) = 32
  <2> DEFINE p == PreludeOf(inline, references, descriptors, frames)
  <2>1. Placed(Submits!PreludeFields, 32) /\ p \in [DOMAIN Submits!PreludeFields -> Channel!Numbers]
    BY PreludeCarries, PreludePlaced DEF Carries
  <2> HIDE DEF p
  <2>2. Channel!Written(32, Submits!PreludeFields, p) \in Strings /\ Len(Channel!Written(32, Submits!PreludeFields, p)) = 32
    BY <2>1, WrittenBytes DEF Strings
  <2>3. Channel!Written(32, Submits!PreludeFields, p) = Submits!Written(32, Submits!PreludeFields, p)
    BY SameIntegers
  <2> QED
    BY <2>2, <2>3 DEF p
<1> HIDE DEF w
<1>3. /\ Len(w) = size /\ Len(inline) \in Nat /\ Len(references) \in Nat /\ Len(descriptors) \in Nat /\ Len(frames) \in Nat
  BY <1>2 DEF Strings
<1>4. /\ x \in Strings /\ Len(x) = Len(w) + Len(inline)
      /\ \A i \in 1 .. Len(w) : x[i] = w[i]
      /\ \A i \in 1 .. Len(inline) : x[Len(w) + i] = inline[i]
  <2>1. w \in Strings
    BY <1>2
  <2> QED
    BY ONLY <2>1, inline \in Strings, Behind
<1> HIDE DEF x
<1>5. /\ y \in Strings /\ Len(y) = Len(x) + Len(references)
      /\ \A i \in 1 .. Len(x) : y[i] = x[i]
      /\ \A i \in 1 .. Len(references) : y[Len(x) + i] = references[i]
  BY ONLY <1>4, references \in Strings, Behind
<1> HIDE DEF y
<1>6. /\ z \in Strings /\ Len(z) = Len(y) + Len(descriptors)
      /\ \A i \in 1 .. Len(y) : z[i] = y[i]
      /\ \A i \in 1 .. Len(descriptors) : z[Len(y) + i] = descriptors[i]
  BY ONLY <1>5, descriptors \in Strings, Behind
<1> HIDE DEF z
<1>7. /\ b \in Strings /\ Len(b) = Len(z) + Len(frames)
      /\ \A i \in 1 .. Len(z) : b[i] = z[i]
      /\ \A i \in 1 .. Len(frames) : b[Len(z) + i] = frames[i]
  <2>1. /\ z \o frames \in Strings /\ Len(z \o frames) = Len(z) + Len(frames)
        /\ \A i \in 1 .. Len(z) : (z \o frames)[i] = z[i]
        /\ \A i \in 1 .. Len(frames) : (z \o frames)[Len(z) + i] = frames[i]
    BY <1>6, Behind
  <2> QED
    BY ONLY <1>1, <2>1
<1>8. /\ Len(x) = 32 + Len(inline) /\ Len(y) = 32 + Len(inline) + Len(references)
      /\ Len(z) = 32 + Len(inline) + Len(references) + Len(descriptors)
      /\ Len(b) = 32 + Len(inline) + Len(references) + Len(descriptors) + Len(frames)
  <2>1. /\ Len(w) = 32 /\ Len(x) = Len(w) + Len(inline) /\ Len(y) = Len(x) + Len(references)
        /\ Len(z) = Len(y) + Len(descriptors) /\ Len(b) = Len(z) + Len(frames)
    BY <1>2, <1>4, <1>5, <1>6, <1>7
  <2> QED
    BY ONLY <1>3, <2>1
<1>8a. Len(x) \in Nat /\ Len(y) \in Nat /\ Len(z) \in Nat /\ Len(w) <= Len(x) /\ Len(x) <= Len(y) /\ Len(y) <= Len(z)
  BY ONLY <1>2, <1>3, <1>8
<1>9. ASSUME NEW i \in 1 .. size
      PROVE  b[i] = w[i]
  <2>1. i \in 1 .. Len(w) /\ i \in 1 .. Len(x) /\ i \in 1 .. Len(y) /\ i \in 1 .. Len(z)
    BY ONLY <1>3, <1>8a, i \in 1 .. size, size = 32
  <2> QED
    BY <1>4, <1>5, <1>6, <1>7, <2>1
<1>10. ASSUME NEW i \in 1 .. Len(inline)
       PROVE  b[32 + i] = inline[i]
  <2>1. Len(w) + i \in 1 .. Len(x) /\ Len(w) + i \in 1 .. Len(y) /\ Len(w) + i \in 1 .. Len(z) /\ Len(w) + i = 32 + i
    BY ONLY <1>2, <1>3, <1>8, <1>8a, i \in 1 .. Len(inline)
  <2> QED
    BY <1>4, <1>5, <1>6, <1>7, <2>1
<1>11. ASSUME NEW i \in 1 .. Len(references)
       PROVE  b[32 + Len(inline) + i] = references[i]
  <2>1. Len(x) + i \in 1 .. Len(y) /\ Len(x) + i \in 1 .. Len(z)
    BY ONLY <1>3, <1>8, <1>8a, i \in 1 .. Len(references)
  <2>2. b[Len(x) + i] = references[i]
    BY <1>5, <1>6, <1>7, <2>1
  <2> QED
    BY <1>8, <2>2
<1>12. ASSUME NEW i \in 1 .. Len(descriptors)
       PROVE  b[32 + Len(inline) + Len(references) + i] = descriptors[i]
  <2>1. Len(y) + i \in 1 .. Len(z)
    BY ONLY <1>3, <1>8, <1>8a, i \in 1 .. Len(descriptors)
  <2>2. b[Len(y) + i] = descriptors[i]
    BY <1>6, <1>7, <2>1
  <2> QED
    BY <1>8, <2>2
<1>13. \A i \in 1 .. Len(frames) : b[32 + Len(inline) + Len(references) + Len(descriptors) + i] = frames[i]
  BY <1>7, <1>8
<1> QED
  BY <1>7, <1>8, <1>9, <1>10, <1>11, <1>12, <1>13 DEF w, Laid

\* A body that passes the check has its regions where the prelude says.
LEMMA BodyRegions ==
  ASSUME NEW inline \in Strings, NEW references \in Strings, NEW descriptors \in Strings, NEW frames \in Strings,
         NEW b, b = Submits!Body(inline, references, descriptors, frames), NEW m, Submits!ValidBody(m, b)
  PROVE  /\ Submits!Region(b, "inline") = inline /\ Submits!Region(b, "references") = references
         /\ Submits!Region(b, "descriptors") = descriptors /\ Submits!Region(b, "frames") = frames
         /\ Len(inline) <= 65535 /\ Len(references) <= 65535 /\ Len(descriptors) <= 65535 /\ Len(frames) <= 65535
         /\ Len(descriptors) = 24 * Submits!Low(m.payloadFrameCount)
<1> DEFINE p == PreludeOf(inline, references, descriptors, frames)
<1>0. PICK size : size = 32
  OBVIOUS
<1>0a. Laid(b, size, inline, references, descriptors, frames)
  BY <1>0, BodyShape
<1>1. Submits!Prelude(b) = p
  <2>1. \A i \in 1 .. size : b[i] = Submits!Written(32, Submits!PreludeFields, p)[i]
    BY <1>0a DEF Laid
  <2> HIDE DEF p
  <2>2. Placed(Submits!PreludeFields, 32) /\ Carries(Submits!PreludeFields, p)
    BY PreludePlaced, PreludeCarries DEF p
  <2>5. \A i \in 1 .. size : b[i] = Submits!Written(size, Submits!PreludeFields, p)[i]
    BY <2>1, <1>0
  <2>6. \A i \in 1 .. size : b[i] = Channel!Written(size, Submits!PreludeFields, p)[i]
    <3>1. Channel!Written(size, Submits!PreludeFields, p) = Submits!Written(size, Submits!PreludeFields, p)
      BY SameIntegers
    <3> QED
      BY ONLY <2>5, <3>1
  <2>7. Placed(Submits!PreludeFields, size)
    BY <2>2, <1>0
  <2>8. Channel!ReadFields(b, Submits!PreludeFields) = p
    BY ONLY <2>6, <2>7, <2>2, ReadsBack
  <2> QED
    BY <2>8, SameIntegers DEF Submits!Prelude
<1>2. /\ p.inline = Submits!N(Len(inline)) /\ p.references = Submits!N(Len(references))
      /\ p.descriptors = Submits!N(Len(descriptors)) /\ p.frames = Submits!N(Len(frames))
      /\ p.extensionDescriptors = Submits!Zero /\ p.extensions = Submits!Zero
      /\ DOMAIN p = {"inline", "references", "descriptors", "frames", "extensionDescriptors", "extensions"}
  BY DEF PreludeOf
<1>3. /\ Len(inline) \in Nat /\ Len(references) \in Nat /\ Len(descriptors) \in Nat /\ Len(frames) \in Nat
  BY DEF Strings
<1>4. /\ b \in Strings
      /\ Len(b) = 32 + Len(inline) + Len(references) + Len(descriptors) + Len(frames)
      /\ \A i \in 1 .. Len(inline) : b[32 + i] = inline[i]
      /\ \A i \in 1 .. Len(references) : b[32 + Len(inline) + i] = references[i]
      /\ \A i \in 1 .. Len(descriptors) : b[32 + Len(inline) + Len(references) + i] = descriptors[i]
      /\ \A i \in 1 .. Len(frames) : b[32 + Len(inline) + Len(references) + Len(descriptors) + i] = frames[i]
  BY <1>0a DEF Laid
<1>5. /\ \A f \in DOMAIN p : Submits!Fits(p[f], 2)
      /\ Len(b) - 32 = Submits!Low(p.inline) + Submits!Low(p.references) + Submits!Low(p.descriptors)
                         + Submits!Low(p.frames) + Submits!Low(p.extensionDescriptors) + Submits!Low(p.extensions)
      /\ Submits!Low(p.descriptors) = 24 * Submits!Low(m.payloadFrameCount)
  <2> HIDE DEF p
  <2> QED
    BY <1>1 DEF Submits!ValidBody
<1> HIDE DEF p
<1>6. ASSUME NEW n \in Nat, Submits!Fits(Submits!N(n), 2)
      PROVE  Submits!Low(Submits!N(n)) \in Nat /\ Submits!Low(Submits!N(n)) <= 65535 /\ Submits!Low(Submits!N(n)) <= n
  BY <1>6, NumeralOfLow, NumeralFacts, SameIntegers
<1>7. /\ Submits!Low(p.inline) = Len(inline) /\ Submits!Low(p.references) = Len(references)
      /\ Submits!Low(p.descriptors) = Len(descriptors) /\ Submits!Low(p.frames) = Len(frames)
      /\ Len(inline) <= 65535 /\ Len(references) <= 65535 /\ Len(descriptors) <= 65535 /\ Len(frames) <= 65535
  <2> DEFINE i == Submits!Low(p.inline)
             r == Submits!Low(p.references)
             d == Submits!Low(p.descriptors)
             f == Submits!Low(p.frames)
  <2>1. /\ i \in Nat /\ i <= 65535 /\ i <= Len(inline) /\ r \in Nat /\ r <= 65535 /\ r <= Len(references)
        /\ d \in Nat /\ d <= 65535 /\ d <= Len(descriptors) /\ f \in Nat /\ f <= 65535 /\ f <= Len(frames)
    BY <1>2, <1>3, <1>5, <1>6
  <2>2. Len(inline) + Len(references) + Len(descriptors) + Len(frames) = i + r + d + f
    <3>1. Len(b) - 32 = i + r + d + f + 0 + 0
      BY <1>2, <1>5, ZeroBytes
    <3>2. Len(b) = 32 + Len(inline) + Len(references) + Len(descriptors) + Len(frames)
      BY <1>4
    <3> HIDE DEF i, r, d, f
    <3> QED
      BY ONLY <1>3, <2>1, <3>1, <3>2
  <2> HIDE DEF i, r, d, f
  <2>3. i = Len(inline) /\ r = Len(references) /\ d = Len(descriptors) /\ f = Len(frames)
    BY <1>3, <2>1, <2>2
  <2> QED
    BY <2>1, <2>3 DEF i, r, d, f
<1>8. /\ SubSeq(b, 32 + 1, 32 + Len(inline)) = inline
      /\ SubSeq(b, (32 + Len(inline)) + 1, (32 + Len(inline)) + Len(references)) = references
      /\ SubSeq(b, (32 + Len(inline) + Len(references)) + 1, (32 + Len(inline) + Len(references)) + Len(descriptors)) = descriptors
      /\ SubSeq(b, (32 + Len(inline) + Len(references) + Len(descriptors)) + 1,
                (32 + Len(inline) + Len(references) + Len(descriptors)) + Len(frames)) = frames
  <2> DEFINE o1 == 32 + Len(inline)
             o2 == 32 + Len(inline) + Len(references)
             o3 == 32 + Len(inline) + Len(references) + Len(descriptors)
  <2>1. /\ o1 \in Nat /\ o2 \in Nat /\ o3 \in Nat /\ 32 + Len(inline) <= Len(b) /\ o1 + Len(references) <= Len(b)
        /\ o2 + Len(descriptors) <= Len(b) /\ o3 + Len(frames) <= Len(b)
    BY <1>3, <1>4
  <2>2. /\ \A i \in 1 .. Len(references) : b[o1 + i] = references[i]
        /\ \A i \in 1 .. Len(descriptors) : b[o2 + i] = descriptors[i]
        /\ \A i \in 1 .. Len(frames) : b[o3 + i] = frames[i]
    BY <1>4
  <2> HIDE DEF o1, o2, o3
  <2>3. SubSeq(b, 32 + 1, 32 + Len(inline)) = inline
    BY <1>4, <2>1, Cut
  <2>4. SubSeq(b, o1 + 1, o1 + Len(references)) = references
    BY <1>4, <2>1, <2>2, Cut
  <2>5. SubSeq(b, o2 + 1, o2 + Len(descriptors)) = descriptors
    BY <1>4, <2>1, <2>2, Cut
  <2>6. SubSeq(b, o3 + 1, o3 + Len(frames)) = frames
    BY <1>4, <2>1, <2>2, Cut
  <2> QED
    BY <2>3, <2>4, <2>5, <2>6 DEF o1, o2, o3
<1>9. Submits!Region(b, "inline") = inline
  <2>1. Submits!Region(b, "inline") = SubSeq(b, 33 + 0, 32 + 0 + Len(inline))
    BY <1>1, <1>7 DEF Submits!Region
  <2>2. 33 + 0 = 32 + 1 /\ 32 + 0 + Len(inline) = 32 + Len(inline)
    BY <1>3
  <2> QED
    BY <1>8, <2>1, <2>2
<1>10. Submits!Region(b, "references") = references
  <2>1. Submits!Region(b, "references") = SubSeq(b, 33 + Len(inline), 32 + Len(inline) + Len(references))
    BY <1>1, <1>7 DEF Submits!Region
  <2>2. 33 + Len(inline) = (32 + Len(inline)) + 1
    BY <1>3
  <2> QED
    BY <1>8, <2>1, <2>2
<1>11. Submits!Region(b, "descriptors") = descriptors
  <2>1. Submits!Region(b, "descriptors")
          = SubSeq(b, 33 + (Len(inline) + Len(references)), 32 + (Len(inline) + Len(references)) + Len(descriptors))
    BY <1>1, <1>7 DEF Submits!Region
  <2>2. /\ 33 + (Len(inline) + Len(references)) = (32 + Len(inline) + Len(references)) + 1
        /\ 32 + (Len(inline) + Len(references)) = 32 + Len(inline) + Len(references)
    BY <1>3
  <2> QED
    BY <1>8, <2>1, <2>2
<1>12. Submits!Region(b, "frames") = frames
  <2>1. Submits!Region(b, "frames")
          = SubSeq(b, 33 + (Len(inline) + Len(references) + Len(descriptors)),
                   32 + (Len(inline) + Len(references) + Len(descriptors)) + Len(frames))
    BY <1>1, <1>7 DEF Submits!Region
  <2>2. /\ 33 + (Len(inline) + Len(references) + Len(descriptors)) = (32 + Len(inline) + Len(references) + Len(descriptors)) + 1
        /\ 32 + (Len(inline) + Len(references) + Len(descriptors)) = 32 + Len(inline) + Len(references) + Len(descriptors)
    BY <1>3
  <2> QED
    BY <1>8, <2>1, <2>2
<1> QED
  BY <1>5, <1>7, <1>9, <1>10, <1>11, <1>12

\* A record of integers with one field changed.
LEMMA Changed ==
  ASSUME NEW D, NEW g \in [D -> Channel!Numbers], NEW f, NEW v \in Channel!Numbers
  PROVE  /\ [g EXCEPT ![f] = v] \in [D -> Channel!Numbers]
         /\ f \in D => [g EXCEPT ![f] = v][f] = v
         /\ \A h \in D : h # f => [g EXCEPT ![f] = v][h] = g[h]
OBVIOUS

\* The metadata both builders start from are numbers.
LEMMA PlainIsNumbers ==
  /\ Submits!PlainMetadata \in [DOMAIN Submits!FrameSubmitW -> Channel!Numbers]
  /\ DOMAIN Submits!FrameSubmitW =
       {"srcWidth", "srcHeight", "tileWidth", "tileHeight", "tileCount", "sectionCount", "frameClass", "inputProfile",
        "tileIndexMode", "latencyBudgetMs", "targetFpsX100", "retryOfFrame", "tileBaseId", "cameraBytes", "tileIndexBytes",
        "operationId", "submitMode", "budgetPolicy", "lossTolerancePolicy", "objectRefMask", "dependencyFrameId",
        "payloadKindBitmap", "payloadFrameCount"}
<1>1. Submits!N(1) \in Channel!Numbers /\ Submits!Zero \in Channel!Numbers
  BY IntegerBytes, ZeroBytes
<1>2. \A f \in DOMAIN Submits!FrameSubmitW : Submits!PlainMetadata[f] \in Channel!Numbers
  BY <1>1 DEF Submits!PlainMetadata
<1>3. Submits!PlainMetadata = [f \in DOMAIN Submits!FrameSubmitW |-> Submits!PlainMetadata[f]]
  BY DEF Submits!PlainMetadata
<1>4. Submits!PlainMetadata \in [DOMAIN Submits!FrameSubmitW -> Channel!Numbers]
  BY <1>2, <1>3
<1>5. DOMAIN Submits!FrameSubmitW =
       {"srcWidth", "srcHeight", "tileWidth", "tileHeight", "tileCount", "sectionCount", "frameClass", "inputProfile",
        "tileIndexMode", "latencyBudgetMs", "targetFpsX100", "retryOfFrame", "tileBaseId", "cameraBytes", "tileIndexBytes",
        "operationId", "submitMode", "budgetPolicy", "lossTolerancePolicy", "objectRefMask", "dependencyFrameId",
        "payloadKindBitmap", "payloadFrameCount"}
  BY DEF Submits!FrameSubmitW
<1> QED
  BY <1>4, <1>5

\* What the receiver makes of a request it is sent.
LEMMA RequestDecoded ==
  ASSUME NEW m \in [DOMAIN Submits!FrameSubmitW -> Channel!Numbers], NEW body \in Strings,
         Submits!ValidFrameSubmit(m), Submits!ValidBody(m, body), Submits!Fits(m.payloadKindBitmap, 4)
  PROVE  Submits!DecodePayload(Submits!Written(72, Submits!FrameSubmitW, m) \o body)
           = [kind |-> "built", metadata |-> m, body |-> body]
<1> DEFINE w == Submits!Written(72, Submits!FrameSubmitW, m)
           c == w \o body
<1>0. PICK size : size = 72
  OBVIOUS
<1>1. /\ m \in [DOMAIN Channel!FrameSubmitW -> Channel!Numbers] /\ Channel!ValidFrameSubmit(m)
      /\ Channel!Fits(m.payloadKindBitmap, 4) /\ w = Channel!Written(size, Channel!FrameSubmitW, m)
  BY <1>0, SameIntegers, SameTables
<1>2. Carries(Channel!FrameSubmitW, m)
  BY <1>1, FrameSubmitCarries
<1>3. Placed(Channel!FrameSubmitW, size) /\ Kept(Channel!FrameSubmitZ, Channel!FrameSubmitW, size)
  BY <1>0, FrameSubmitSound DEF Sound
<1> HIDE DEF w
<1>4. w \in Seq(Channel!Bytes) /\ Len(w) = size
  BY <1>1, <1>3, WrittenBytes
<1>5. /\ c \in Seq(Channel!Bytes) /\ Len(c) = size + Len(body) /\ Len(body) \in Nat
      /\ \A i \in 1 .. size : c[i] = w[i]
  <2>1. size \in Nat /\ body \in Seq(Channel!Bytes)
    BY <1>0 DEF Strings
  <2> QED
    BY <1>4, <2>1, Framed
<1>6. SubSeq(c, size + 1, size + Len(body)) = body
  <2>1. \A i \in 1 .. Len(body) : c[size + i] = body[i]
    <3>1. w \in Strings
      BY <1>4 DEF Strings
    <3> QED
      BY <1>4, <3>1, Behind
  <2> HIDE DEF c
  <2>2. c \in Strings /\ size \in Nat
    BY <1>0, <1>5 DEF Strings
  <2>3. size + Len(body) <= Len(c)
    BY <1>0, <1>5
  <2> QED
    BY <2>1, <2>2, <2>3, Cut
<1> HIDE DEF c
<1>7. Submits!ReadFields(c, Submits!FrameSubmitR) = m
  <2>1. \A i \in 1 .. size : c[i] = Channel!Written(size, Channel!FrameSubmitW, m)[i]
    BY <1>1, <1>5
  <2>2. Channel!ReadFields(c, Channel!FrameSubmitW) = m
    BY <1>2, <1>3, <2>1, ReadsBack
  <2> QED
    BY <2>2, SameIntegers, SameTables, FrameSubmitSound
<1>8. Submits!IsZero(c, Submits!FrameSubmitZ)
  <2>1. \A i \in 1 .. size : c[i] = Channel!Written(size, Channel!FrameSubmitW, m)[i]
    BY <1>1, <1>5
  <2>2. Channel!IsZero(c, Channel!FrameSubmitZ)
    BY <1>3, <2>1, ReservedIsZero
  <2> QED
    BY <2>2, SameIntegers, SameTables
<1>9. Len(c) >= 104 /\ SubSeq(c, 73, Len(c)) = body
  <2>1. Len(body) >= 32
    BY DEF Submits!ValidBody
  <2>2. Len(c) = 72 + Len(body) /\ SubSeq(c, 73, 72 + Len(body)) = body
    BY <1>0, <1>5, <1>6
  <2> QED
    BY <1>5, <2>1, <2>2
<1>10. Submits!DecodePayload(c) = [kind |-> "built", metadata |-> m, body |-> body]
  BY <1>7, <1>8, <1>9 DEF Submits!DecodePayload
<1> QED
  BY <1>10 DEF c, w

DescriptorOf(frames, i) ==
  [f \in DOMAIN Submits!TypedPayloadW |->
    CASE f = "payloadKind" -> Submits!N(frames[i].payloadKind)
      [] f = "offset" -> Submits!N(Submits!Offset(frames, i))
      [] f = "length" -> Submits!N(Len(frames[i].bytes))
      [] OTHER -> Submits!Zero]

\* The frames a caller passes.
GoodFrame(f) ==
  f \in Submits!Frames /\ f.payloadKind <= 65535 /\ Submits!OnePayloadKind(Submits!N(f.payloadKind))

AreFrames(frames) == frames \in Seq(Submits!Frames) /\ \A i \in 1 .. Len(frames) : GoodFrame(frames[i])

LEMMA FrameFacts ==
  ASSUME NEW f, GoodFrame(f)
  PROVE  /\ f.payloadKind \in Nat /\ f.payloadKind <= 65535 /\ f.bytes \in Strings /\ Len(f.bytes) \in Nat
         /\ f = [payloadKind |-> f.payloadKind, bytes |-> f.bytes]
         /\ Submits!OnePayloadKind(Submits!N(f.payloadKind))
<1>1. Submits!Bytes = Channel!Bytes
  BY DEF Submits!Bytes, Channel!Bytes
<1> QED
  BY <1>1 DEF GoodFrame, Submits!Frames, Strings

\* Where the bytes of each frame lie.
LiesAt(c, o, s) == /\ o \in Nat /\ Len(s) \in Nat /\ o + Len(s) <= Len(c)
                   /\ \A k \in 1 .. Len(s) : c[o + k] = s[k]

LEMMA FoundThere ==
  ASSUME NEW c \in Strings, NEW s \in Strings, NEW o, LiesAt(c, o, s)
  PROVE  SubSeq(c, o + 1, o + Len(s)) = s
BY Cut DEF LiesAt

\* The payloads of the frames, one behind another.
LEMMA FramesLaid ==
  ASSUME NEW frames, AreFrames(frames), NEW n, n = Len(frames), NEW c,
         c = Submits!FlattenSeq([i \in 1 .. n |-> frames[i].bytes])
  PROVE  /\ c \in Strings
         /\ \A i \in 1 .. n : LiesAt(c, Submits!Offset(frames, i), frames[i].bytes)
<1> DEFINE s == [i \in 1 .. n |-> frames[i].bytes]
<1>1. n \in Nat /\ s \in [1 .. n -> Strings] /\ \A i \in 1 .. n : s[i] = frames[i].bytes
  <2>1. n \in Nat
    BY DEF AreFrames
  <2>2. ASSUME NEW i \in 1 .. n
        PROVE  frames[i].bytes \in Strings
    <3>1. GoodFrame(frames[i])
      BY DEF AreFrames
    <3> QED
      BY <3>1, FrameFacts
  <2> QED
    BY ONLY <2>1, <2>2
<1>2. c = Submits!FlattenSeq(s)
  OBVIOUS
<1> HIDE DEF s
<1>3. PICK at \in [0 .. n -> Nat] :
           /\ at[0] = 0
           /\ \A k \in 1 .. n : at[k] = at[k - 1] + Len(s[k]) /\ at[k] <= at[n]
           /\ \A k \in 1 .. n : \A i \in 1 .. Len(s[k]) : Submits!FlattenSeq(s)[at[k - 1] + i] = s[k][i]
           /\ \A k \in 0 .. n : Len(Submits!FlattenSeq([j \in 1 .. k |-> s[j]])) = at[k]
           /\ Submits!FlattenSeq(s) \in Strings /\ Len(Submits!FlattenSeq(s)) = at[n]
  <2>1. PICK at \in [0 .. n -> Nat] : Lays(s, n, at)
    BY <1>1, Laying
  <2> QED
    BY <2>1 DEF Lays
<1>4. ASSUME NEW i \in 1 .. n
      PROVE  Submits!Offset(frames, i) = at[i - 1] /\ at[i - 1] \in Nat /\ at[i] = at[i - 1] + Len(frames[i].bytes)
             /\ at[i] <= at[n]
  <2>1. i - 1 \in 0 .. n
    BY <1>1
  <2>2. [j \in 1 .. (i - 1) |-> s[j]] = [j \in 1 .. (i - 1) |-> frames[j].bytes]
    BY <1>1
  <2>3. Len(Submits!FlattenSeq([j \in 1 .. (i - 1) |-> s[j]])) = at[i - 1]
    BY <1>3, <2>1
  <2> QED
    BY <1>1, <1>3, <2>1, <2>2, <2>3 DEF Submits!Offset
<1>5. ASSUME NEW i \in 1 .. n
      PROVE  \A k \in 1 .. Len(frames[i].bytes) : c[Submits!Offset(frames, i) + k] = frames[i].bytes[k]
  BY <1>1, <1>2, <1>3, <1>4
<1>6. ASSUME NEW i \in 1 .. n
      PROVE  LiesAt(c, Submits!Offset(frames, i), frames[i].bytes)
  <2>0. GoodFrame(frames[i])
    BY DEF AreFrames
  <2>1. Len(c) = at[n] /\ Len(frames[i].bytes) \in Nat
    BY <1>2, <1>3, <2>0, FrameFacts
  <2>2. Submits!Offset(frames, i) \in Nat /\ Submits!Offset(frames, i) + Len(frames[i].bytes) <= Len(c)
    BY <1>4, <2>1
  <2> QED
    BY <1>5, <2>1, <2>2 DEF LiesAt
<1> QED
  BY <1>2, <1>3, <1>6

LEMMA DescriptorPlaced ==
  ASSUME NEW frames, AreFrames(frames), NEW i \in 1 .. Len(frames)
  PROVE  /\ Carries(Submits!TypedPayloadW, DescriptorOf(frames, i))
         /\ Submits!Descriptor(frames, i) = Submits!Written(24, Submits!TypedPayloadW, DescriptorOf(frames, i))
         /\ Submits!Descriptor(frames, i) \in Strings /\ Len(Submits!Descriptor(frames, i)) = 24
<1> DEFINE d == DescriptorOf(frames, i)
           k == frames[i].payloadKind
<1>1. Submits!Descriptor(frames, i) = Submits!Written(24, Submits!TypedPayloadW, d)
  BY DEF Submits!Descriptor, DescriptorOf
<1>2. /\ Submits!Offset(frames, i) \in Nat /\ Len(frames[i].bytes) \in Nat /\ k \in Nat /\ k <= 65535
      /\ Submits!OnePayloadKind(Submits!N(k))
  <2>1. PICK n : n = Len(frames)
    OBVIOUS
  <2>2. PICK c : c = Submits!FlattenSeq([j \in 1 .. n |-> frames[j].bytes])
    OBVIOUS
  <2>3. i \in 1 .. n
    BY <2>1
  <2>4. LiesAt(c, Submits!Offset(frames, i), frames[i].bytes)
    BY <2>1, <2>2, <2>3, FramesLaid
  <2>5. GoodFrame(frames[i])
    BY DEF AreFrames
  <2>6. Submits!Offset(frames, i) \in Nat
    BY <2>4 DEF LiesAt
  <2> QED
    BY <2>5, <2>6, FrameFacts
<1>3. /\ DOMAIN Submits!TypedPayloadW =
           {"profileId", "payloadKind", "descriptorFlags", "schemaId", "schemaVersion", "streamSemantics", "offset", "length"}
      /\ Submits!TypedPayloadW.payloadKind.kind = "u8"
      /\ \A f \in DOMAIN Submits!TypedPayloadW : Submits!TypedPayloadW[f].kind \in {"u8", "u16", "u32", "u64"}
      /\ Submits!TypedPayloadW.offset.kind = "u32" /\ Submits!TypedPayloadW.length.kind = "u32"
  BY DEF Submits!TypedPayloadW, Submits!u8, Submits!u16, Submits!u32
<1>4. d.payloadKind = Submits!N(k) /\ d.offset = Submits!N(Submits!Offset(frames, i)) /\ d.length = Submits!N(Len(frames[i].bytes))
      /\ \A f \in DOMAIN Submits!TypedPayloadW : f \notin {"payloadKind", "offset", "length"} => d[f] = Submits!Zero
  BY <1>3 DEF DescriptorOf
<1>5. DOMAIN d = DOMAIN Submits!TypedPayloadW /\ d = [f \in DOMAIN Submits!TypedPayloadW |-> d[f]]
  BY DEF DescriptorOf
<1> HIDE DEF d
<1>6. Submits!N(k) \in Channel!Numbers /\ Carried("u8", Submits!N(k))
  <2> DEFINE v == Submits!N(k)
  <2> HIDE DEF k
  <2>a. Channel!N(k) \in Channel!Numbers /\ Channel!Fits(Channel!N(k), 4) /\ v = Channel!N(k)
    BY <1>2, NumeralFacts, SameIntegers
  <2>b. Submits!OnePayloadKind(v)
    BY <1>2
  <2> HIDE DEF v
  <2>1. v \in Channel!Numbers /\ v[2] = 0 /\ v[3] = 0 /\ v[4] = 0 /\ Channel!Fits(v, 4)
    BY ONLY <2>a, <2>b DEF Submits!OnePayloadKind, Submits!Masked
  <2>2. Channel!Fits(v, 1)
    BY <2>1 DEF Channel!Fits
  <2>3. Carried("u8", v)
    BY <2>1, <2>2, FitsIsCarried
  <2> QED
    BY <2>1, <2>3 DEF v
<1>7. ASSUME NEW f \in DOMAIN Submits!TypedPayloadW
      PROVE  d[f] \in Channel!Numbers /\ Carried(Submits!TypedPayloadW[f].kind, d[f])
  <2>1. CASE f = "payloadKind"
    BY <1>3, <1>4, <1>6, <2>1
  <2>2. CASE f = "offset" \/ f = "length"
    <3>1. PICK l \in Nat : d[f] = Submits!N(l)
      BY <1>2, <1>4, <2>2
    <3>2. d[f] \in Channel!Numbers /\ Carried("u32", d[f])
      BY <3>1, LengthBytes
    <3>3. Submits!TypedPayloadW[f].kind = "u32"
      BY <1>3, <2>2
    <3> QED
      BY <3>2, <3>3
  <2>3. CASE f \notin {"payloadKind", "offset", "length"}
    BY <1>3, <1>4, <2>3, ZeroBytes
  <2> QED
    BY <2>1, <2>2, <2>3
<1>8. d \in [DOMAIN Submits!TypedPayloadW -> Channel!Numbers]
  BY <1>5, <1>7
<1>9. Carries(Submits!TypedPayloadW, d)
  BY <1>7, <1>8 DEF Carries
<1>0. PICK size : size = 24
  OBVIOUS
<1>10. Channel!Written(size, Submits!TypedPayloadW, d) \in Strings /\ Len(Channel!Written(size, Submits!TypedPayloadW, d)) = size
  <2>1. Placed(Submits!TypedPayloadW, size)
    BY <1>0, TypedPayloadSound, SameTables DEF Sound
  <2> QED
    BY <1>8, <2>1, WrittenBytes DEF Strings
<1> QED
  BY <1>0, <1>1, <1>9, <1>10, SameIntegers DEF d

\* Where the descriptors lie.
LEMMA DescriptorsLaid ==
  ASSUME NEW frames, AreFrames(frames), NEW n, n = Len(frames), NEW c,
         c = Submits!FlattenSeq([i \in 1 .. n |-> Submits!Descriptor(frames, i)])
  PROVE  /\ c \in Strings /\ n \in Nat /\ Len(c) = 24 * n
         /\ \A i \in 1 .. n : Submits!ReadFields(SubSeq(c, 24 * (i - 1) + 1, 24 * i), Submits!TypedPayloadR) = DescriptorOf(frames, i)
<1> DEFINE s == [i \in 1 .. n |-> Submits!Descriptor(frames, i)]
<1>0. PICK size : size = 24
  OBVIOUS
<1>1. n \in Nat /\ s \in [1 .. n -> Strings] /\ \A i \in 1 .. n : s[i] = Submits!Descriptor(frames, i) /\ Len(s[i]) = size
  <2>1. n \in Nat
    BY DEF AreFrames
  <2> QED
    BY <1>0, <2>1, DescriptorPlaced
<1>2. c = Submits!FlattenSeq(s)
  OBVIOUS
<1> HIDE DEF s
<1>3. PICK at \in [0 .. n -> Nat] :
           /\ at[0] = 0
           /\ \A k \in 1 .. n : at[k] = at[k - 1] + Len(s[k]) /\ at[k] <= at[n]
           /\ \A k \in 1 .. n : \A i \in 1 .. Len(s[k]) : Submits!FlattenSeq(s)[at[k - 1] + i] = s[k][i]
           /\ Submits!FlattenSeq(s) \in Strings /\ Len(Submits!FlattenSeq(s)) = at[n]
  <2>1. PICK at \in [0 .. n -> Nat] : Lays(s, n, at)
    BY <1>1, Laying
  <2> QED
    BY <2>1 DEF Lays
<1>4. \A k \in 0 .. n : at[k] = size * k
  <2>1. \A k \in 1 .. n : at[k] = at[k - 1] + size
    BY <1>1, <1>3
  <2>2. size \in Nat
    BY <1>0
  <2> QED
    BY <1>1, <1>3, <2>1, <2>2, EvenlyLaid
<1>5. c \in Strings /\ Len(c) = 24 * n
  BY <1>0, <1>1, <1>2, <1>3, <1>4
<1>6. ASSUME NEW i \in 1 .. n
      PROVE  Submits!ReadFields(SubSeq(c, 24 * (i - 1) + 1, 24 * i), Submits!TypedPayloadR) = DescriptorOf(frames, i)
  <2> DEFINE o == at[i - 1]
  <2>1. o = 24 * (i - 1) /\ o \in Nat /\ i - 1 \in 0 .. n
    BY <1>0, <1>1, <1>4
  <2>2. o + size <= Len(c) /\ o + size = 24 * i
    BY <1>0, <1>1, <1>5, <2>1
  <2> DEFINE d == DescriptorOf(frames, i)
  <2>3. /\ Placed(Submits!TypedPayloadW, size) /\ Submits!TypedPayloadR = Submits!TypedPayloadW
        /\ Carries(Submits!TypedPayloadW, d) /\ s[i] = Submits!Written(size, Submits!TypedPayloadW, d)
    BY <1>0, <1>1, DescriptorPlaced, TypedPayloadSound, SameTables DEF Sound
  <2>4. \A k \in 1 .. size : c[o + k] = s[i][k]
    BY <1>1, <1>2, <1>3
  <2> HIDE DEF o, d
  <2>5. \A k \in 1 .. size : c[o + k] = Submits!Written(size, Submits!TypedPayloadW, d)[k]
    BY <2>3, <2>4
  <2>6. Submits!ReadFields(SubSeq(c, o + 1, o + size), Submits!TypedPayloadW) = d
    <3>1. c \in Strings /\ o \in Nat /\ o + size <= Len(c)
      BY <1>5, <2>1, <2>2
    <3>2. Placed(Submits!TypedPayloadW, size) /\ Carries(Submits!TypedPayloadW, d)
      BY <2>3
    <3> QED
      BY ONLY <3>1, <3>2, <2>5, BlockAt
  <2> QED
    BY <2>1, <2>2, <2>3, <2>6 DEF d
<1> QED
  BY <1>1, <1>5, <1>6

\* The receiver reads every frame of a typed request.
LEMMA FramesRead ==
  ASSUME NEW frames, AreFrames(frames), NEW n, n = Len(frames), NEW m, NEW b,
         b = Submits!Body(<<>>, <<>>, Submits!FlattenSeq([i \in 1 .. n |-> Submits!Descriptor(frames, i)]),
                          Submits!FlattenSeq([i \in 1 .. n |-> frames[i].bytes])),
         Submits!ValidBody(m, b)
  PROVE  \A i \in 1 .. n : Submits!ReadFrame(b, i) = frames[i]
<1> DEFINE ds == Submits!FlattenSeq([i \in 1 .. n |-> Submits!Descriptor(frames, i)])
           fs == Submits!FlattenSeq([i \in 1 .. n |-> frames[i].bytes])
<1>1. /\ ds \in Strings /\ n \in Nat
      /\ \A i \in 1 .. n : Submits!ReadFields(SubSeq(ds, 24 * (i - 1) + 1, 24 * i), Submits!TypedPayloadR) = DescriptorOf(frames, i)
  <2>1. ds = Submits!FlattenSeq([i \in 1 .. n |-> Submits!Descriptor(frames, i)])
    OBVIOUS
  <2> HIDE DEF ds
  <2> QED
    BY <2>1, DescriptorsLaid
<1>2. /\ fs \in Strings
      /\ \A i \in 1 .. n : LiesAt(fs, Submits!Offset(frames, i), frames[i].bytes)
  <2>1. fs = Submits!FlattenSeq([i \in 1 .. n |-> frames[i].bytes])
    OBVIOUS
  <2> HIDE DEF fs
  <2> QED
    BY <2>1, FramesLaid
<1>3. <<>> \in Strings
  BY DEF Strings
<1>4. b = Submits!Body(<<>>, <<>>, ds, fs)
  OBVIOUS
<1> HIDE DEF ds, fs
<1>5. Submits!Region(b, "descriptors") = ds /\ Submits!Region(b, "frames") = fs /\ Len(fs) <= 65535
  BY <1>1, <1>2, <1>3, <1>4, BodyRegions
<1>6. ASSUME NEW i \in 1 .. n
      PROVE  Submits!ReadFrame(b, i) = frames[i]
  <2> DEFINE d == DescriptorOf(frames, i)
             o == Submits!Offset(frames, i)
             l == Len(frames[i].bytes)
  <2>1. /\ d.payloadKind = Submits!N(frames[i].payloadKind) /\ d.offset = Submits!N(o) /\ d.length = Submits!N(l)
    BY DEF DescriptorOf, Submits!TypedPayloadW
  <2>2. /\ frames[i].payloadKind \in Nat /\ frames[i].payloadKind <= 65535 /\ frames[i].bytes \in Strings /\ l \in Nat
        /\ frames[i] = [payloadKind |-> frames[i].payloadKind, bytes |-> frames[i].bytes]
    <3>1. GoodFrame(frames[i])
      BY DEF AreFrames
    <3> QED
      BY <3>1, FrameFacts
  <2>3. o \in Nat /\ o + l <= Len(fs) /\ \A k \in 1 .. l : fs[o + k] = frames[i].bytes[k]
    BY <1>2 DEF LiesAt
  <2>4. Len(fs) \in Nat
    BY <1>2 DEF Strings
  <2> HIDE DEF o, d
  <2>5. o <= 65535 /\ l <= 65535
    <3> HIDE DEF l
    <3> QED
      BY <1>5, <2>2, <2>3, <2>4
  <2>6. Submits!Low(d.payloadKind) = frames[i].payloadKind /\ Submits!Low(d.offset) = o /\ Submits!Low(d.length) = l
    BY <2>1, <2>2, <2>3, <2>5, LengthBytes
  <2>7. SubSeq(fs, o + 1, o + l) = frames[i].bytes
    <3>1. LiesAt(fs, o, frames[i].bytes)
      BY <1>2 DEF o
    <3> QED
      BY <1>2, <2>2, <3>1, FoundThere
  <2>8. Submits!ReadFields(SubSeq(ds, 24 * (i - 1) + 1, 24 * i), Submits!TypedPayloadR) = d
    BY <1>1 DEF d
  <2> HIDE DEF l
  <2>9. Submits!ReadFrame(b, i) = [payloadKind |-> Submits!Low(d.payloadKind),
                                   bytes |-> SubSeq(fs, Submits!Low(d.offset) + 1, Submits!Low(d.offset) + Submits!Low(d.length))]
    <3> DEFINE e == Submits!ReadFields(SubSeq(Submits!Region(b, "descriptors"), 24 * (i - 1) + 1, 24 * i), Submits!TypedPayloadR)
               g == Submits!Region(b, "frames")
    <3>1. Submits!ReadFrame(b, i) = [payloadKind |-> Submits!Low(e.payloadKind),
                                     bytes |-> SubSeq(g, Submits!Low(e.offset) + 1, Submits!Low(e.offset) + Submits!Low(e.length))]
      BY DEF Submits!ReadFrame
    <3>2. g = fs
      BY <1>5
    <3>3. e = Submits!ReadFields(SubSeq(ds, 24 * (i - 1) + 1, 24 * i), Submits!TypedPayloadR)
      BY <1>5
    <3> HIDE DEF e, g
    <3>4. e = d
      BY ONLY <2>8, <3>3
    <3> QED
      BY ONLY <3>1, <3>2, <3>4
  <2>10. SubSeq(fs, Submits!Low(d.offset) + 1, Submits!Low(d.offset) + Submits!Low(d.length)) = frames[i].bytes
    BY ONLY <2>6, <2>7
  <2>11. frames[i] = [payloadKind |-> frames[i].payloadKind, bytes |-> frames[i].bytes]
    BY <2>2
  <2> QED
    BY ONLY <2>6, <2>9, <2>10, <2>11
<1> QED
  BY <1>6

\* What a builder hands to the encoder.
IsRequest(r) ==
  /\ r = [kind |-> "built", metadata |-> r.metadata, body |-> r.body]
  /\ r.metadata \in [DOMAIN Submits!FrameSubmitW -> Channel!Numbers]
  /\ Submits!Fits(r.metadata.payloadKindBitmap, 4) /\ r.body \in Strings

LEMMA KindsIsNat == \A frames : Submits!Kinds(frames) \in Nat
BY DEF Submits!Kinds

\* What createTypedPayloadSubmitRequest() puts together can be encoded.
LEMMA TypedIsRequest ==
  ASSUME NEW in, in.kind = "typed", AreFrames(in.frames)
  PROVE  /\ IsRequest(Submits!TypedRequest(in))
         /\ Submits!TypedRequest(in).metadata.payloadFrameCount = Submits!N(Len(in.frames))
<1> DEFINE D == DOMAIN Submits!FrameSubmitW
           g1 == [Submits!PlainMetadata EXCEPT !.tileIndexMode = Submits!N(Submits!Modes.RawU16)]
           g2 == [g1 EXCEPT !.payloadKindBitmap = Submits!N(Submits!Kinds(in.frames))]
           g3 == [g2 EXCEPT !.payloadFrameCount = Submits!N(Len(in.frames))]
           n == Len(in.frames)
           ds == Submits!FlattenSeq([i \in 1 .. n |-> Submits!Descriptor(in.frames, i)])
           fs == Submits!FlattenSeq([i \in 1 .. n |-> in.frames[i].bytes])
           b == Submits!Body(<<>>, <<>>, ds, fs)
<1>1. Submits!TypedRequest(in) = [kind |-> "built", metadata |-> g3, body |-> b]
  BY DEF Submits!TypedRequest
<1>2. /\ Submits!N(Submits!Modes.RawU16) \in Channel!Numbers /\ n \in Nat /\ Submits!N(n) \in Channel!Numbers
      /\ Submits!N(Submits!Kinds(in.frames)) \in Channel!Numbers /\ Submits!Fits(Submits!N(Submits!Kinds(in.frames)), 4)
  <2>1. Submits!Modes.RawU16 \in Nat /\ n \in Nat
    BY DEF Submits!Modes, AreFrames
  <2> HIDE DEF n
  <2>2. Submits!N(Submits!Modes.RawU16) \in Channel!Numbers /\ Submits!N(n) \in Channel!Numbers
    BY <2>1, LengthBytes
  <2>3. Submits!N(Submits!Kinds(in.frames)) \in Channel!Numbers /\ Submits!Fits(Submits!N(Submits!Kinds(in.frames)), 4)
    <3>1. PICK k \in Nat : k = Submits!Kinds(in.frames)
      BY KindsIsNat
    <3>2. Submits!N(k) \in Channel!Numbers /\ Submits!Fits(Submits!N(k), 4)
      BY NumeralFacts, SameIntegers
    <3> QED
      BY ONLY <3>1, <3>2
  <2> QED
    BY <2>1, <2>2, <2>3
<1>3. PICK F : F = D
  OBVIOUS
<1>4. g1 \in [F -> Channel!Numbers]
  BY <1>2, <1>3, PlainIsNumbers, Changed
<1>5. "payloadKindBitmap" \in F /\ "payloadFrameCount" \in F
  BY <1>3, PlainIsNumbers
<1> HIDE DEF g1
<1>6. g2 \in [F -> Channel!Numbers] /\ g2.payloadKindBitmap = Submits!N(Submits!Kinds(in.frames))
  BY <1>2, <1>4, <1>5, Changed
<1> HIDE DEF g2
<1>7. g3 \in [F -> Channel!Numbers] /\ g3.payloadKindBitmap = Submits!N(Submits!Kinds(in.frames)) /\ g3.payloadFrameCount = Submits!N(n)
  BY <1>2, <1>5, <1>6, Changed
<1>8. b \in Strings
  <2>1. n = Len(in.frames) /\ ds = Submits!FlattenSeq([i \in 1 .. n |-> Submits!Descriptor(in.frames, i)])
        /\ fs = Submits!FlattenSeq([i \in 1 .. n |-> in.frames[i].bytes])
    OBVIOUS
  <2> HIDE DEF n, ds, fs
  <2>2. ds \in Strings
    BY <2>1, DescriptorsLaid
  <2>3. fs \in Strings
    BY <2>1, FramesLaid
  <2>4. <<>> \in Strings
    BY DEF Strings
  <2>5. b = Submits!Body(<<>>, <<>>, ds, fs)
    OBVIOUS
  <2> HIDE DEF b
  <2>6. PICK size : size = 32
    OBVIOUS
  <2>7. Laid(b, size, <<>>, <<>>, ds, fs)
    BY <2>2, <2>3, <2>4, <2>5, <2>6, BodyShape
  <2> QED
    BY <2>7 DEF Laid
<1> HIDE DEF g3, b
<1>9. Submits!TypedRequest(in).metadata = g3 /\ Submits!TypedRequest(in).body = b
  BY <1>1
<1> QED
  BY <1>1, <1>2, <1>3, <1>7, <1>8, <1>9 DEF IsRequest

\* What becomes of a request that passes the checks of its own side.
LEMMA RequestAccepted ==
  ASSUME NEW r, IsRequest(r), Submits!ValidFrameSubmit(r.metadata), Submits!ValidBody(r.metadata, r.body)
  PROVE  Submits!DecodePayload(Submits!Written(72, Submits!FrameSubmitW, r.metadata) \o r.body) = r
<1> DEFINE m == r.metadata
           b == r.body
<1>1. m \in [DOMAIN Submits!FrameSubmitW -> Channel!Numbers] /\ b \in Strings /\ Submits!ValidFrameSubmit(m)
      /\ Submits!ValidBody(m, b) /\ Submits!Fits(m.payloadKindBitmap, 4) /\ r = [kind |-> "built", metadata |-> m, body |-> b]
  BY DEF IsRequest
<1> HIDE DEF m, b
<1>2. Submits!DecodePayload(Submits!Written(72, Submits!FrameSubmitW, m) \o b) = [kind |-> "built", metadata |-> m, body |-> b]
  BY <1>1, RequestDecoded
<1> QED
  BY <1>1, <1>2 DEF m, b

\* The frames a typed request was built of, as they are read out of its body.
LEMMA FramesOfRequest ==
  ASSUME NEW in, in.kind = "typed", AreFrames(in.frames), Len(in.frames) <= 65535, NEW r, r = Submits!TypedRequest(in),
         Submits!ValidBody(r.metadata, r.body)
  PROVE  [i \in 1 .. Submits!Low(r.metadata.payloadFrameCount) |-> Submits!ReadFrame(r.body, i)] = in.frames
<1> DEFINE frames == in.frames
           n == Len(frames)
           b == r.body
<1>1. n \in Nat /\ Submits!Low(r.metadata.payloadFrameCount) = n
  <2>1. n \in Nat /\ r.metadata.payloadFrameCount = Submits!N(n)
    BY TypedIsRequest DEF AreFrames
  <2> QED
    BY <2>1, LengthBytes
<1>2. b = Submits!Body(<<>>, <<>>, Submits!FlattenSeq([i \in 1 .. n |-> Submits!Descriptor(frames, i)]),
                       Submits!FlattenSeq([i \in 1 .. n |-> frames[i].bytes]))
  BY DEF Submits!TypedRequest
<1>3. AreFrames(frames) /\ n = Len(frames) /\ Submits!ValidBody(r.metadata, b)
  OBVIOUS
<1>4. frames = [i \in 1 .. n |-> frames[i]]
  BY <1>3 DEF AreFrames
<1> HIDE DEF frames, n, b
<1>5. \A i \in 1 .. n : Submits!ReadFrame(b, i) = frames[i]
  BY <1>2, <1>3, FramesRead
<1>6. [i \in 1 .. n |-> Submits!ReadFrame(b, i)] = frames
  BY <1>4, <1>5
<1>7. [i \in 1 .. Submits!Low(r.metadata.payloadFrameCount) |-> Submits!ReadFrame(b, i)] = frames
  BY ONLY <1>1, <1>6
<1> QED
  BY <1>7 DEF frames, b

LEMMA Zeros ==
  ASSUME NEW k \in Nat
  PROVE  [i \in 1 .. k |-> 0] \in Strings /\ Len([i \in 1 .. k |-> 0]) = k
<1>1. 0 \in Channel!Bytes
  BY DEF Channel!Bytes
<1> HIDE DEF Channel!Bytes
<1> QED
  BY <1>1 DEF Strings

LEMMA Nothing == <<>> \in Strings /\ Len(<<>>) = 0
BY DEF Strings

LEMMA Padding ==
  ASSUME NEW n \in Nat
  PROVE  /\ (-n) % 8 \in 0 .. 7 /\ (n + ((-n) % 8)) % 8 = 0
OBVIOUS

\* Padding leaves the bytes before it alone and ends at a multiple of eight.
LEMMA Padded ==
  ASSUME NEW s \in Strings
  PROVE  /\ Submits!Pad8(s) \in Strings /\ Len(s) \in Nat
         /\ Len(Submits!Pad8(s)) = Len(s) + ((-Len(s)) % 8)
         /\ \A i \in 1 .. Len(s) : Submits!Pad8(s)[i] = s[i]
<1> DEFINE k == (-Len(s)) % 8
           z == [i \in 1 .. k |-> 0]
<1>1. Len(s) \in Nat /\ k \in Nat
  <2>1. Len(s) \in Nat
    BY DEF Strings
  <2> QED
    BY <2>1, Padding
<1> HIDE DEF k
<1>2. z \in Strings /\ Len(z) = k
  BY <1>1, Zeros
<1>3. Submits!Pad8(s) = s \o z
  BY DEF Submits!Pad8, k
<1> HIDE DEF z
<1>4. /\ s \o z \in Strings /\ Len(s \o z) = Len(s) + Len(z)
      /\ \A i \in 1 .. Len(s) : (s \o z)[i] = s[i]
  BY <1>2, Behind
<1>5. Len(s \o z) = Len(s) + k
  BY ONLY <1>2, <1>4
<1> QED
  BY <1>1, <1>3, <1>4, <1>5 DEF k

LEMMA NumbersAreStrings ==
  ASSUME NEW v \in Channel!Numbers, NEW w \in {2, 4}
  PROVE  /\ SubSeq(v, 1, w) \in Strings /\ Len(SubSeq(v, 1, w)) = w
         /\ \A k \in 1 .. w : SubSeq(v, 1, w)[k] = v[k]
<1>0. PICK nine : nine = 9
  OBVIOUS
<1>1. v \in [1 .. nine -> Channel!Bytes] /\ nine \in Nat /\ w \in Nat /\ w <= nine
  BY <1>0 DEF Channel!Numbers, Channel!Places
<1> HIDE DEF Channel!Bytes
<1>2. v \in Seq(Channel!Bytes) /\ Len(v) = nine
  BY <1>1
<1> QED
  BY <1>1, <1>2 DEF Strings

\* A table of integers of w bytes.
IntegerTable(s, w, n) == Submits!FlattenSeq([i \in 1 .. n |-> SubSeq(Submits!N(s[i]), 1, w)])

IntegersIn(c, s, w, n) ==
  /\ c \in Strings /\ n \in Nat /\ Len(c) = w * n
  /\ \A i \in 1 .. n : \A k \in 1 .. w : c[w * (i - 1) + k] = Submits!N(s[i])[k]

\* A table of integers, two or four bytes each.
LEMMA IntegersLaid ==
  ASSUME NEW s \in Seq(Int), NEW w \in {2, 4}, NEW n, n = Len(s), NEW c, c = IntegerTable(s, w, n)
  PROVE  IntegersIn(c, s, w, n)
<1> DEFINE e == [i \in 1 .. n |-> SubSeq(Submits!N(s[i]), 1, w)]
<1>1. n \in Nat /\ w \in Nat
  OBVIOUS
<1>2. ASSUME NEW i \in 1 .. n
      PROVE  e[i] \in Strings /\ Len(e[i]) = w /\ \A k \in 1 .. w : e[i][k] = Submits!N(s[i])[k]
  <2>1. s[i] \in Int
    OBVIOUS
  <2>2. Submits!N(s[i]) \in Channel!Numbers
    BY <2>1, IntegerBytes
  <2>3. e[i] = SubSeq(Submits!N(s[i]), 1, w)
    OBVIOUS
  <2> HIDE DEF e
  <2> QED
    BY <2>2, <2>3, NumbersAreStrings
<1>3. c = Submits!FlattenSeq(e) /\ e = [i \in 1 .. n |-> e[i]]
  BY DEF IntegerTable
<1> HIDE DEF e
<1>4. e \in [1 .. n -> Strings]
  BY <1>2, <1>3
<1>5. PICK at \in [0 .. n -> Nat] :
           /\ at[0] = 0
           /\ \A k \in 1 .. n : at[k] = at[k - 1] + Len(e[k]) /\ at[k] <= at[n]
           /\ \A k \in 1 .. n : \A i \in 1 .. Len(e[k]) : Submits!FlattenSeq(e)[at[k - 1] + i] = e[k][i]
           /\ Submits!FlattenSeq(e) \in Strings /\ Len(Submits!FlattenSeq(e)) = at[n]
  <2>1. PICK at \in [0 .. n -> Nat] : Lays(e, n, at)
    BY <1>1, <1>4, Laying
  <2> QED
    BY <2>1 DEF Lays
<1>6. \A k \in 0 .. n : at[k] = w * k
  <2>1. \A k \in 1 .. n : at[k] = at[k - 1] + w
    <3>1. \A k \in 1 .. n : at[k] = at[k - 1] + Len(e[k])
      BY <1>5
    <3>2. \A k \in 1 .. n : Len(e[k]) = w
      BY <1>2
    <3> QED
      BY ONLY <3>1, <3>2
  <2> QED
    BY <1>1, <1>5, <2>1, EvenlyLaid
<1>7. ASSUME NEW i \in 1 .. n, NEW k \in 1 .. w
      PROVE  c[w * (i - 1) + k] = Submits!N(s[i])[k]
  <2>1. at[i - 1] = w * (i - 1)
    <3>1. i - 1 \in 0 .. n
      BY <1>1
    <3> QED
      BY <1>6, <3>1
  <2>2. c[at[i - 1] + k] = e[i][k]
    <3>1. k \in 1 .. Len(e[i])
      BY <1>2
    <3>2. Submits!FlattenSeq(e)[at[i - 1] + k] = e[i][k]
      BY <1>5, <3>1
    <3> QED
      BY <1>3, <3>2
  <2> QED
    BY <1>2, <2>1, <2>2
<1>8. n \in 0 .. n
  BY <1>1
<1> QED
  BY <1>1, <1>3, <1>5, <1>6, <1>7, <1>8 DEF IntegersIn

Bits(s, a0, a1, a2, a3, a4, a5, a6, a7) ==
  /\ s \in Nat /\ s <= 255
  /\ (s \div 1) % 2 = 1 <=> a0 # 0
  /\ (s \div 2) % 2 = 1 <=> a1 # 0
  /\ (s \div 4) % 2 = 1 <=> a2 # 0
  /\ (s \div 8) % 2 = 1 <=> a3 # 0
  /\ (s \div 16) % 2 = 1 <=> a4 # 0
  /\ (s \div 32) % 2 = 1 <=> a5 # 0
  /\ (s \div 64) % 2 = 1 <=> a6 # 0
  /\ (s \div 128) % 2 = 1 <=> a7 # 0

\* A sum of different powers of two, bit by bit.
LEMMA BitsOfByte ==
  ASSUME NEW a0 \in {0, 1}, NEW a1 \in {0, 2}, NEW a2 \in {0, 4}, NEW a3 \in {0, 8},
         NEW a4 \in {0, 16}, NEW a5 \in {0, 32}, NEW a6 \in {0, 64}, NEW a7 \in {0, 128},
         NEW s, s = a0 + a1 + a2 + a3 + a4 + a5 + a6 + a7
  PROVE  Bits(s, a0, a1, a2, a3, a4, a5, a6, a7)
<1>1. s \in Nat /\ s <= 255
  OBVIOUS
<1>2. (s \div 1) % 2 = 1 <=> a0 # 0
  OBVIOUS
<1>3. (s \div 2) % 2 = 1 <=> a1 # 0
  OBVIOUS
<1>4. (s \div 4) % 2 = 1 <=> a2 # 0
  OBVIOUS
<1>5. (s \div 8) % 2 = 1 <=> a3 # 0
  OBVIOUS
<1>6. (s \div 16) % 2 = 1 <=> a4 # 0
  OBVIOUS
<1>7. (s \div 32) % 2 = 1 <=> a5 # 0
  OBVIOUS
<1>8. (s \div 64) % 2 = 1 <=> a6 # 0
  OBVIOUS
<1>9. (s \div 128) % 2 = 1 <=> a7 # 0
  OBVIOUS
<1> QED
  BY <1>1, <1>2, <1>3, <1>4, <1>5, <1>6, <1>7, <1>8, <1>9 DEF Bits

\* The bits of a byte of a bitset are the ids it stands for.
BitsOf(ids, k) ==
  /\ Submits!BitsetByte(ids, k) \in Nat /\ Submits!BitsetByte(ids, k) <= 255
  /\ \A b \in 0 .. 7 : (Submits!BitsetByte(ids, k) \div Submits!Powers[b + 1]) % 2 = 1
                         <=> \E i \in 1 .. Len(ids) : ids[i] = 8 * (k - 1) + b

\* A bit of a bitset is set when its tile is listed.
LEMMA BitsetBits ==
  ASSUME NEW ids, NEW k
  PROVE  BitsOf(ids, k)
<1> DEFINE has(b) == \E i \in 1 .. Len(ids) : ids[i] = 8 * (k - 1) + b
           bit(b) == IF has(b) THEN Submits!Powers[b + 1] ELSE 0
           s == Submits!BitsetByte(ids, k)
<1>1. s = bit(0) + bit(1) + bit(2) + bit(3) + bit(4) + bit(5) + bit(6) + bit(7)
  BY DEF Submits!BitsetByte
<1> HIDE DEF has, s
<1>2. /\ bit(0) = (IF has(0) THEN 1 ELSE 0) /\ bit(1) = (IF has(1) THEN 2 ELSE 0)
      /\ bit(2) = (IF has(2) THEN 4 ELSE 0) /\ bit(3) = (IF has(3) THEN 8 ELSE 0)
      /\ bit(4) = (IF has(4) THEN 16 ELSE 0) /\ bit(5) = (IF has(5) THEN 32 ELSE 0)
      /\ bit(6) = (IF has(6) THEN 64 ELSE 0) /\ bit(7) = (IF has(7) THEN 128 ELSE 0)
  BY DEF Submits!Powers
<1> HIDE DEF bit
<1>3. /\ bit(0) \in {0, 1} /\ bit(1) \in {0, 2} /\ bit(2) \in {0, 4} /\ bit(3) \in {0, 8}
      /\ bit(4) \in {0, 16} /\ bit(5) \in {0, 32} /\ bit(6) \in {0, 64} /\ bit(7) \in {0, 128}
  BY <1>2
<1>4. /\ s \in Nat /\ s <= 255
      /\ (s \div 1) % 2 = 1 <=> bit(0) # 0
      /\ (s \div 2) % 2 = 1 <=> bit(1) # 0
      /\ (s \div 4) % 2 = 1 <=> bit(2) # 0
      /\ (s \div 8) % 2 = 1 <=> bit(3) # 0
      /\ (s \div 16) % 2 = 1 <=> bit(4) # 0
      /\ (s \div 32) % 2 = 1 <=> bit(5) # 0
      /\ (s \div 64) % 2 = 1 <=> bit(6) # 0
      /\ (s \div 128) % 2 = 1 <=> bit(7) # 0
  <2>1. Bits(s, bit(0), bit(1), bit(2), bit(3), bit(4), bit(5), bit(6), bit(7))
    BY ONLY <1>1, <1>3, BitsOfByte
  <2> QED
    BY ONLY <2>1 DEF Bits
<1>5. \A b \in 0 .. 7 : (s \div Submits!Powers[b + 1]) % 2 = 1 <=> has(b)
  <2> SUFFICES ASSUME NEW b \in 0 .. 7
               PROVE  (s \div Submits!Powers[b + 1]) % 2 = 1 <=> has(b)
    OBVIOUS
  <2>1. b = 0 \/ b = 1 \/ b = 2 \/ b = 3 \/ b = 4 \/ b = 5 \/ b = 6 \/ b = 7
    OBVIOUS
  <2>2. CASE b = 0 BY <1>2, <1>4, <2>2 DEF Submits!Powers
  <2>3. CASE b = 1 BY <1>2, <1>4, <2>3 DEF Submits!Powers
  <2>4. CASE b = 2 BY <1>2, <1>4, <2>4 DEF Submits!Powers
  <2>5. CASE b = 3 BY <1>2, <1>4, <2>5 DEF Submits!Powers
  <2>6. CASE b = 4 BY <1>2, <1>4, <2>6 DEF Submits!Powers
  <2>7. CASE b = 5 BY <1>2, <1>4, <2>7 DEF Submits!Powers
  <2>8. CASE b = 6 BY <1>2, <1>4, <2>8 DEF Submits!Powers
  <2>9. CASE b = 7 BY <1>2, <1>4, <2>9 DEF Submits!Powers
  <2> QED
    BY <2>1, <2>2, <2>3, <2>4, <2>5, <2>6, <2>7, <2>8, <2>9
<1> QED
  BY <1>4, <1>5 DEF s, has, BitsOf

LEMMA TwoBytes ==
  ASSUME NEW n \in Nat, n <= 65535
  PROVE  Submits!N(n)[1] + 256 * Submits!N(n)[2] = n
BY LengthBytes DEF Submits!Low

\* A table of 16-bit integers, read.
LEMMA U16Table ==
  ASSUME NEW s \in Seq(Int), \A i \in 1 .. Len(s) : 0 <= s[i] /\ s[i] <= 65535, NEW c, c = Submits!U16Bytes(s)
  PROVE  /\ c \in Strings /\ Len(c) = 2 * Len(s) /\ Len(s) \in Nat
         /\ \A i \in 1 .. Len(s) : Submits!U16At(c, 2 * i - 2) = s[i]
<1>1. PICK n : n = Len(s)
  OBVIOUS
<1>2. PICK w \in {2, 4} : w = 2
  OBVIOUS
<1>3. c = IntegerTable(s, w, n)
  BY <1>1, <1>2 DEF Submits!U16Bytes, IntegerTable
<1>4. /\ c \in Strings /\ n \in Nat /\ Len(c) = w * n
      /\ \A i \in 1 .. n : \A k \in 1 .. w : c[w * (i - 1) + k] = Submits!N(s[i])[k]
  <2>1. IntegersIn(c, s, w, n)
    BY ONLY s \in Seq(Int), <1>1, <1>2, <1>3, IntegersLaid
  <2> QED
    BY ONLY <2>1 DEF IntegersIn
<1>5. ASSUME NEW i \in 1 .. n
      PROVE  Submits!U16At(c, 2 * i - 2) = s[i]
  <2>1. 1 \in 1 .. w /\ 2 \in 1 .. w
    BY <1>2
  <2>2. c[w * (i - 1) + 1] = Submits!N(s[i])[1] /\ c[w * (i - 1) + 2] = Submits!N(s[i])[2]
    <3>1. \A k \in 1 .. w : c[w * (i - 1) + k] = Submits!N(s[i])[k]
      BY ONLY <1>4, <1>5
    <3> QED
      BY ONLY <2>1, <3>1
  <2>3. w * (i - 1) + 1 = (2 * i - 2) + 1 /\ w * (i - 1) + 2 = (2 * i - 2) + 2
    BY <1>2, <1>4
  <2>4. s[i] \in Nat /\ s[i] <= 65535
    BY <1>1
  <2>5. Submits!U16At(c, 2 * i - 2) = Submits!N(s[i])[1] + 256 * Submits!N(s[i])[2]
    <3>1. Submits!U16At(c, 2 * i - 2) = c[(2 * i - 2) + 1] + 256 * c[(2 * i - 2) + 2]
      BY DEF Submits!U16At
    <3> QED
      BY ONLY <2>2, <2>3, <3>1
  <2> QED
    BY <2>4, <2>5, TwoBytes
<1> QED
  BY <1>1, <1>2, <1>4, <1>5

\* The ids of the tiles of a request, as its builder lets them through.
Tiles(in) ==
  /\ in.tileIds \in Seq(Int) /\ in.mode \in DOMAIN Submits!Modes /\ in.base \in Int
  /\ Len(in.tileIds) <= 65535 /\ Submits!TilesFit(in.tileIds, in.mode, in.base)

ListsTiles(in, ids) ==
  /\ ids \in Seq(Int) /\ Len(ids) \in Nat /\ Len(ids) <= 65535 /\ in.base \in Int
  /\ \A i \in 1 .. Len(ids) : ids[i] \in Int /\ 0 <= ids[i] /\ ids[i] <= 65535
  /\ in.mode \in {"DenseRange", "RawU16", "DeltaU16", "Bitset"}
  /\ in.mode = "DenseRange" => \A i \in 1 .. Len(ids) : ids[i] = in.base + i - 1
  /\ in.mode \in {"DeltaU16", "Bitset"} => \A i \in 2 .. Len(ids) : ids[i - 1] < ids[i]

\* What a mode demands of the tile ids.
LEMMA TileFacts ==
  ASSUME NEW in, Tiles(in), NEW ids, ids = in.tileIds
  PROVE  ListsTiles(in, ids)
<1>1. in.mode \in {"DenseRange", "RawU16", "DeltaU16", "Bitset"}
  BY DEF Tiles, Submits!Modes
<1>3. Submits!TilesFit(ids, in.mode, in.base)
  BY DEF Tiles
<1>4. \A i \in 1 .. Len(ids) : 0 <= ids[i] /\ ids[i] <= 65535
  BY <1>3 DEF Submits!TilesFit
<1>5. in.mode = "DenseRange" => \A i \in 1 .. Len(ids) : ids[i] = in.base + i - 1
  BY <1>3 DEF Submits!TilesFit
<1>6. in.mode \in {"DeltaU16", "Bitset"} => \A i \in 2 .. Len(ids) : ids[i - 1] < ids[i]
  BY <1>3 DEF Submits!TilesFit, Submits!Increasing
<1>7. ids \in Seq(Int) /\ Len(ids) \in Nat /\ Len(ids) <= 65535 /\ in.base \in Int /\ \A i \in 1 .. Len(ids) : ids[i] \in Int
  BY DEF Tiles
<1> QED
  BY ONLY <1>1, <1>4, <1>5, <1>6, <1>7 DEF ListsTiles

\* Ids that ascend stay below the last.
AscendingTo(s, n) == \A i \in 1 .. n : \A j \in 1 .. i : s[j] <= s[i]

\* Neighbours ascend, so all do.
LEMMA TilesAscend ==
  ASSUME NEW s, NEW n \in Nat, \A i \in 1 .. n : s[i] \in Int, \A i \in 2 .. n : s[i - 1] < s[i]
  PROVE  AscendingTo(s, n)
<1> DEFINE A == {i \in 1 .. n : \A j \in 1 .. i : s[j] <= s[i]}
<1>1. ASSUME NEW i \in 1 .. n, \A j \in 1 .. n : j < i => j \in A
      PROVE  i \in A
  <2> SUFFICES ASSUME NEW j \in 1 .. i
               PROVE  s[j] <= s[i]
    OBVIOUS
  <2>1. CASE j = i
    BY <2>1
  <2>2. CASE j # i
    <3>1. i - 1 \in 1 .. n /\ i - 1 < i /\ i \in 2 .. n /\ j \in 1 .. i - 1
      BY <2>2
    <3>2. s[j] <= s[i - 1]
      BY <1>1, <3>1
    <3>3. s[i - 1] < s[i]
      BY <3>1
    <3>4. j \in 1 .. n
      BY <3>1
    <3>5. s[j] \in Int /\ s[i - 1] \in Int /\ s[i] \in Int
      BY <3>1, <3>4
    <3> QED
      BY ONLY <3>2, <3>3, <3>5
  <2> QED
    BY <2>1, <2>2
<1> HIDE DEF A
<1>2. \A i \in 1 .. n : i \in A
  BY <1>1, Upwards
<1> QED
  BY <1>2 DEF A, AscendingTo

\* The reader finds the tile ids, mode by mode.
LEMMA RawTiles ==
  ASSUME NEW in, Tiles(in), in.mode = "RawU16", NEW ids, ids = in.tileIds, NEW c, c = Submits!TileIndices(ids, in.mode)
  PROVE  c \in Strings /\ \A base : Submits!ReadTiles(1, base, Len(ids), c) = ids
<1>1. /\ ids \in Seq(Int) /\ Len(ids) \in Nat /\ \A i \in 1 .. Len(ids) : 0 <= ids[i] /\ ids[i] <= 65535
  <2>1. ListsTiles(in, ids)
    BY TileFacts
  <2> QED
    BY <2>1 DEF ListsTiles
<1>2. c = Submits!U16Bytes(ids)
  BY DEF Submits!TileIndices
<1>3. c \in Strings /\ \A i \in 1 .. Len(ids) : Submits!U16At(c, 2 * i - 2) = ids[i]
  BY <1>1, <1>2, U16Table
<1>4. ids = [i \in 1 .. Len(ids) |-> ids[i]]
  BY <1>1
<1>5. \A base : Submits!ReadTiles(1, base, Len(ids), c) = [i \in 1 .. Len(ids) |-> Submits!U16At(c, 2 * i - 2)]
  BY DEF Submits!ReadTiles
<1>6. [i \in 1 .. Len(ids) |-> Submits!U16At(c, 2 * i - 2)] = ids
  BY <1>3, <1>4
<1> QED
  BY <1>3, <1>5, <1>6

LEMMA DenseTiles ==
  ASSUME NEW in, Tiles(in), in.mode = "DenseRange", NEW ids, ids = in.tileIds, NEW c, c = Submits!TileIndices(ids, in.mode)
  PROVE  c \in Strings /\ Submits!ReadTiles(0, Submits!Low(Submits!N(in.base)), Len(ids), c) = ids
<1>1. /\ ids \in Seq(Int) /\ Len(ids) \in Nat /\ in.base \in Int
      /\ \A i \in 1 .. Len(ids) : ids[i] = in.base + i - 1 /\ 0 <= ids[i] /\ ids[i] <= 65535
  <2>1. ListsTiles(in, ids)
    BY TileFacts
  <2> QED
    BY <2>1 DEF ListsTiles
<1>2. c = <<>>
  BY DEF Submits!TileIndices
<1> DEFINE l == Submits!Low(Submits!N(in.base))
<1>3. ids = [i \in 1 .. Len(ids) |-> ids[i]]
  BY <1>1
<1>4. Submits!ReadTiles(0, l, Len(ids), c) = [i \in 1 .. Len(ids) |-> l + i - 1]
  BY DEF Submits!ReadTiles
<1>5. ASSUME NEW i \in 1 .. Len(ids)
      PROVE  l + i - 1 = ids[i]
  <2>1. 1 \in 1 .. Len(ids)
    BY <1>1
  <2>2. in.base \in Nat /\ in.base <= 65535
    BY <1>1, <2>1
  <2>3. l = in.base
    BY <2>2, LengthBytes
  <2> QED
    BY <1>1, <2>3
<1> HIDE DEF l
<1>6. [i \in 1 .. Len(ids) |-> l + i - 1] = ids
  BY <1>3, <1>5
<1>7. c \in Strings
  BY <1>2, Nothing
<1> QED
  BY <1>4, <1>6, <1>7 DEF l

\* The sums of the differences are the tile ids.
LEMMA DeltaTiles ==
  ASSUME NEW in, Tiles(in), in.mode = "DeltaU16", NEW ids, ids = in.tileIds, NEW c, c = Submits!TileIndices(ids, in.mode)
  PROVE  c \in Strings /\ \A base : Submits!ReadTiles(2, base, Len(ids), c) = ids
<1>1. /\ ids \in Seq(Int) /\ Len(ids) \in Nat /\ \A i \in 1 .. Len(ids) : ids[i] \in Int /\ 0 <= ids[i] /\ ids[i] <= 65535
      /\ \A i \in 2 .. Len(ids) : ids[i - 1] < ids[i]
  <2>1. ListsTiles(in, ids)
    BY TileFacts
  <2> QED
    BY <2>1 DEF ListsTiles
<1> DEFINE ds == Submits!Deltas(ids)
           n == Len(ids)
<1>2. ASSUME NEW i \in 1 .. n
      PROVE  ds[i] = (IF i = 1 THEN ids[1] ELSE ids[i] - ids[i - 1]) /\ ds[i] \in Int /\ 0 <= ds[i] /\ ds[i] <= 65535
  <2>1. ds[i] = IF i = 1 THEN ids[1] ELSE ids[i] - ids[i - 1]
    BY DEF Submits!Deltas
  <2>2. CASE i = 1
    BY <1>1, <2>1, <2>2
  <2>3. CASE i # 1
    <3>1. i - 1 \in 1 .. n /\ i \in 2 .. n
      BY <2>3
    <3>2. /\ ids[i] \in Int /\ ids[i] <= 65535 /\ ids[i - 1] \in Int /\ 0 <= ids[i - 1] /\ ids[i - 1] < ids[i]
      BY <1>1, <3>1
    <3>3. ds[i] = ids[i] - ids[i - 1]
      BY <2>1, <2>3
    <3> QED
      BY ONLY <2>1, <3>2, <3>3
  <2> QED
    BY <2>2, <2>3
<1>3. ds = [i \in 1 .. n |-> ds[i]]
  BY DEF Submits!Deltas
<1>4. n \in Nat
  BY <1>1
<1>4a. ids = [i \in 1 .. n |-> ids[i]]
  <2>1. ids \in Seq(Int)
    BY <1>1
  <2> QED
    BY ONLY <2>1
<1> HIDE DEF ds
<1>5. ds \in Seq(Int) /\ Len(ds) = n
  <2>1. \A i \in 1 .. n : ds[i] \in Int
    BY <1>2
  <2> HIDE DEF n
  <2> QED
    BY ONLY <1>3, <1>4, <2>1
<1>6. c = Submits!U16Bytes(ds)
  BY DEF Submits!TileIndices, ds
<1>7. c \in Strings /\ \A i \in 1 .. n : Submits!U16At(c, 2 * i - 2) = ds[i]
  <2>1. \A i \in 1 .. Len(ds) : 0 <= ds[i] /\ ds[i] <= 65535
    BY <1>2, <1>5
  <2>2. c \in Strings /\ \A i \in 1 .. Len(ds) : Submits!U16At(c, 2 * i - 2) = ds[i]
    BY <1>5, <1>6, <2>1, U16Table
  <2> QED
    BY <1>5, <2>2
<1> HIDE DEF n
<1>8. ASSUME NEW base
      PROVE  Submits!ReadTiles(2, base, n, c) = ids
  <2> DEFINE Sums(f) == f = [i \in 1 .. n |-> IF i = 1 THEN Submits!U16At(c, 0) ELSE f[i - 1] + Submits!U16At(c, 2 * i - 2)]
             f == CHOOSE f : Sums(f)
  <2>1. Submits!ReadTiles(2, base, n, c) = f
    BY DEF Submits!ReadTiles
  <2>2. ASSUME NEW i \in 1 .. n
        PROVE  ids[i] = IF i = 1 THEN Submits!U16At(c, 0) ELSE ids[i - 1] + Submits!U16At(c, 2 * i - 2)
    <3>1. Submits!U16At(c, 2 * i - 2) = ds[i]
      BY <1>7
    <3>2. CASE i = 1
      <4>1. 2 * i - 2 = 0
        BY <3>2
      <4> QED
        BY <1>2, <3>1, <3>2, <4>1
    <3>3. CASE i # 1
      <4>1. i - 1 \in 1 .. Len(ids) /\ i \in 1 .. Len(ids)
        BY <1>4, <3>3 DEF n
      <4>2. ids[i] \in Int /\ ids[i - 1] \in Int
        BY <1>1, <4>1
      <4>3. ds[i] = ids[i] - ids[i - 1]
        BY <1>2, <3>3
      <4>4. ids[i] = ids[i - 1] + ds[i]
        BY ONLY <4>2, <4>3
      <4> QED
        BY <3>1, <3>3, <4>4
    <3> QED
      BY <3>2, <3>3
  <2>3. ids = [i \in 1 .. n |-> ids[i]]
    BY <1>4a
  <2>4. Sums(ids)
    <3>1. [i \in 1 .. n |-> ids[i]]
            = [i \in 1 .. n |-> IF i = 1 THEN Submits!U16At(c, 0) ELSE ids[i - 1] + Submits!U16At(c, 2 * i - 2)]
      BY ONLY <2>2
    <3> QED
      BY ONLY <2>3, <3>1
  <2>5. Sums(f)
    <3>1. \E z : Sums(z)
      BY ONLY <2>4
    <3> HIDE DEF Sums
    <3> QED
      BY ONLY <3>1
  <2> HIDE DEF f
  <2>6. ASSUME NEW i \in 1 .. n
        PROVE  f[i] = IF i = 1 THEN Submits!U16At(c, 0) ELSE f[i - 1] + Submits!U16At(c, 2 * i - 2)
    BY <2>5
  <2> HIDE DEF Sums
  <2> DEFINE A == {i \in 1 .. n : f[i] = ids[i]}
  <2>7. ASSUME NEW i \in 1 .. n, \A j \in 1 .. n : j < i => j \in A
        PROVE  i \in A
    <3>1. CASE i = 1
      BY <2>2, <2>6, <3>1
    <3>2. CASE i # 1
      <4>1. i - 1 \in 1 .. n /\ i - 1 < i
        BY <1>4, <3>2
      <4>2. f[i - 1] = ids[i - 1]
        BY <2>7, <4>1
      <4>3. f[i] = f[i - 1] + Submits!U16At(c, 2 * i - 2) /\ ids[i] = ids[i - 1] + Submits!U16At(c, 2 * i - 2)
        BY <2>2, <2>6, <3>2
      <4>4. f[i] = ids[i]
        BY ONLY <4>2, <4>3
      <4> QED
        BY <4>4
    <3> QED
      BY <3>1, <3>2
  <2> HIDE DEF A
  <2>7a. \A i \in 1 .. n : i \in A
    BY <1>4, <2>7, Upwards
  <2>7b. \A i \in 1 .. n : f[i] = ids[i]
    BY <2>7a DEF A
  <2>7c. f = [i \in 1 .. n |-> f[i]]
    BY <2>5 DEF Sums
  <2>8. f = ids
    BY ONLY <2>3, <2>7b, <2>7c
  <2> QED
    BY <2>1, <2>8
<1> QED
  BY <1>7, <1>8 DEF n

BitsetSays(c, ids) == Submits!TilesInBitset(c) = {ids[i] : i \in 1 .. Len(ids)}

\* The bits that are set are the tile ids.
LEMMA BitsetTiles ==
  ASSUME NEW in, Tiles(in), in.mode = "Bitset", NEW ids, ids = in.tileIds, NEW c, c = Submits!TileIndices(ids, in.mode)
  PROVE  c \in Strings /\ BitsetSays(c, ids)
<1>1. /\ ids \in Seq(Int) /\ Len(ids) \in Nat /\ \A i \in 1 .. Len(ids) : ids[i] \in Int /\ 0 <= ids[i] /\ ids[i] <= 65535
      /\ \A i \in 2 .. Len(ids) : ids[i - 1] < ids[i]
  <2>1. ListsTiles(in, ids)
    BY TileFacts
  <2> QED
    BY <2>1 DEF ListsTiles
<1> DEFINE m == IF ids = <<>> THEN 0 ELSE Submits!Last(ids) \div 8 + 1
           n == Len(ids)
<1>2. c = [k \in 1 .. m |-> Submits!BitsetByte(ids, k)]
  BY DEF Submits!TileIndices
<1>3. m \in Nat /\ \A i \in 1 .. n : ids[i] \div 8 + 1 <= m
  <2>1. CASE ids = <<>>
    BY <2>1
  <2>2. CASE ids # <<>>
    <3>1. n \in 1 .. n /\ Submits!Last(ids) = ids[n] /\ m = Submits!Last(ids) \div 8 + 1
      BY <1>1, <2>2 DEF Submits!Last
    <3>2. m = ids[n] \div 8 + 1 /\ ids[n] \in Nat
      BY <1>1, <3>1
    <3>3. ASSUME NEW i \in 1 .. n
          PROVE  ids[i] \div 8 + 1 <= ids[n] \div 8 + 1
      <4>1. ids[i] <= ids[n]
        <5>1. n \in Nat /\ \A j \in 1 .. n : ids[j] \in Int
          BY <1>1
        <5>2. \A j \in 2 .. n : ids[j - 1] < ids[j]
          BY <1>1
        <5> HIDE DEF n, m
        <5>3. AscendingTo(ids, n)
          BY <5>1, <5>2, TilesAscend
        <5>4. i \in 1 .. n
          OBVIOUS
        <5> QED
          BY <3>1, <5>1, <5>3, <5>4 DEF AscendingTo
      <4>2. ids[i] \in Nat
        BY <1>1
      <4> QED
        BY ONLY <3>2, <4>1, <4>2
    <3> HIDE DEF m
    <3>4. m \in Nat
      BY ONLY <3>2
    <3> QED
      BY ONLY <3>2, <3>3, <3>4
  <2> QED
    BY <2>1, <2>2
<1> HIDE DEF m
<1>4. c \in Strings /\ Len(c) = m /\ \A k \in 1 .. m : c[k] = Submits!BitsetByte(ids, k)
  <2>1. ASSUME NEW k \in 1 .. m
        PROVE  Submits!BitsetByte(ids, k) \in Channel!Bytes
    <3>1. BitsOf(ids, k)
      BY BitsetBits
    <3>2. Submits!BitsetByte(ids, k) \in Nat /\ Submits!BitsetByte(ids, k) <= 255
      BY ONLY <3>1, Zenon DEF BitsOf
    <3> QED
      BY ONLY <3>2 DEF Channel!Bytes
  <2> HIDE DEF Channel!Bytes
  <2> QED
    BY <1>2, <1>3, <2>1 DEF Strings
<1>5. ASSUME NEW t \in Nat, t \div 8 + 1 <= m
      PROVE  (c[(t \div 8) + 1] \div Submits!Powers[(t % 8) + 1]) % 2 = 1 <=> \E i \in 1 .. n : ids[i] = t
  <2> DEFINE k == t \div 8 + 1
             b == t % 8
  <2>1. k \in 1 .. m /\ b \in 0 .. 7 /\ 8 * (k - 1) + b = t
    BY <1>3, <1>5
  <2> HIDE DEF k, b
  <2>2. (c[k] \div Submits!Powers[b + 1]) % 2 = 1 <=> \E i \in 1 .. Len(ids) : ids[i] = 8 * (k - 1) + b
    <3>1. c[k] = Submits!BitsetByte(ids, k)
      BY <1>4, <2>1
    <3>2. BitsOf(ids, k)
      BY BitsetBits
    <3> QED
      BY <2>1, <3>1, <3>2 DEF BitsOf
  <2>3. (c[k] \div Submits!Powers[b + 1]) % 2 = 1 <=> \E i \in 1 .. n : ids[i] = t
    BY <2>1, <2>2
  <2> QED
    BY <2>3 DEF k, b
<1>6. ASSUME NEW t
      PROVE  t \in Submits!TilesInBitset(c) <=> t \in {ids[i] : i \in 1 .. n}
  <2>1. t \in Submits!TilesInBitset(c)
          <=> t \in 0 .. (8 * m - 1) /\ (c[(t \div 8) + 1] \div Submits!Powers[(t % 8) + 1]) % 2 = 1
    BY <1>4 DEF Submits!TilesInBitset
  <2>2. ASSUME t \in Submits!TilesInBitset(c)
        PROVE  t \in {ids[i] : i \in 1 .. n}
    <3>1. t \in 0 .. (8 * m - 1)
      BY <2>1, <2>2
    <3>2. t \in Nat /\ t \div 8 + 1 <= m
      BY ONLY <1>3, <3>1
    <3> QED
      BY <1>5, <2>1, <2>2, <3>2
  <2>3. ASSUME t \in {ids[i] : i \in 1 .. n}
        PROVE  t \in Submits!TilesInBitset(c)
    <3>1. PICK i \in 1 .. n : t = ids[i]
      BY <2>3
    <3>2. t \in Nat /\ t \div 8 + 1 <= m
      BY <1>1, <1>3, <3>1
    <3>3. t \in 0 .. (8 * m - 1)
      BY ONLY <1>3, <3>2
    <3> QED
      BY <1>5, <2>1, <3>1, <3>2, <3>3
  <2> QED
    BY <2>2, <2>3
<1>7. \A t : t \in Submits!TilesInBitset(c) <=> t \in {ids[i] : i \in 1 .. n}
  BY <1>6
<1>8. Submits!TilesInBitset(c) = {ids[i] : i \in 1 .. n}
  BY ONLY <1>7
<1>9. BitsetSays(c, ids)
  BY <1>8 DEF BitsetSays
<1> QED
  BY <1>4, <1>9

\* A part of a part.
LEMMA PartOfPart ==
  ASSUME NEW t, NEW c, NEW s, NEW o, NEW p, LiesAt(t, o, c), LiesAt(c, p, s), Len(t) \in Nat
  PROVE  LiesAt(t, o + p, s)
<1>1. o \in Nat /\ p \in Nat /\ Len(s) \in Nat /\ Len(c) \in Nat /\ o + Len(c) <= Len(t) /\ p + Len(s) <= Len(c)
  BY DEF LiesAt
<1>2. ASSUME NEW k \in 1 .. Len(s)
      PROVE  t[(o + p) + k] = s[k]
  <2>1. p + k \in 1 .. Len(c) /\ o + (p + k) = (o + p) + k
    BY <1>1
  <2>2. c[p + k] = s[k] /\ t[o + (p + k)] = c[p + k]
    BY <2>1 DEF LiesAt
  <2> QED
    BY <2>1, <2>2
<1> QED
  BY <1>1, <1>2 DEF LiesAt

LEMMA PartsOfTwo ==
  ASSUME NEW a \in Strings, NEW b \in Strings
  PROVE  /\ a \o b \in Strings /\ Len(a \o b) = Len(a) + Len(b) /\ Len(a) \in Nat /\ Len(b) \in Nat
         /\ LiesAt(a \o b, 0, a) /\ LiesAt(a \o b, Len(a), b)
<1>1. /\ a \o b \in Strings /\ Len(a \o b) = Len(a) + Len(b) /\ Len(a) \in Nat /\ Len(b) \in Nat
      /\ \A i \in 1 .. Len(a) : (a \o b)[i] = a[i]
      /\ \A i \in 1 .. Len(b) : (a \o b)[Len(a) + i] = b[i]
  BY Behind
<1>2. PICK c : c = a \o b
  OBVIOUS
<1>3. /\ c \in Strings /\ Len(c) = Len(a) + Len(b) /\ Len(a) \in Nat /\ Len(b) \in Nat
      /\ \A i \in 1 .. Len(a) : c[i] = a[i]
      /\ \A i \in 1 .. Len(b) : c[Len(a) + i] = b[i]
  BY ONLY <1>1, <1>2
<1>4. LiesAt(c, 0, a)
  <2>1. \A i \in 1 .. Len(a) : c[0 + i] = a[i]
    BY ONLY <1>3
  <2>2. 0 \in Nat /\ 0 + Len(a) <= Len(c)
    BY ONLY <1>3
  <2> QED
    BY <1>3, <2>1, <2>2 DEF LiesAt
<1>5. LiesAt(c, Len(a), b)
  BY <1>3 DEF LiesAt
<1> QED
  BY ONLY <1>2, <1>3, <1>4, <1>5

FourParts(t, a, b, c, d) ==
  /\ t \in Strings /\ Len(t) = Len(a) + Len(b) + Len(c) + Len(d)
  /\ LiesAt(t, 0, a) /\ LiesAt(t, Len(a), b) /\ LiesAt(t, Len(a) + Len(b), c) /\ LiesAt(t, Len(a) + Len(b) + Len(c), d)

LEMMA PartsOfFour ==
  ASSUME NEW a \in Strings, NEW b \in Strings, NEW c \in Strings, NEW d \in Strings, NEW t, t = a \o b \o c \o d
  PROVE  FourParts(t, a, b, c, d)
<1> DEFINE x == a \o b
           y == x \o c
<1>1. x \in Strings /\ Len(x) = Len(a) + Len(b) /\ Len(a) \in Nat /\ Len(b) \in Nat /\ LiesAt(x, 0, a) /\ LiesAt(x, Len(a), b)
  BY PartsOfTwo
<1> HIDE DEF x
<1>2. y \in Strings /\ Len(y) = Len(x) + Len(c) /\ Len(x) \in Nat /\ Len(c) \in Nat /\ LiesAt(y, 0, x) /\ LiesAt(y, Len(x), c)
  BY <1>1, PartsOfTwo
<1>3. t = y \o d
  BY DEF x
<1> HIDE DEF y
<1>4. /\ y \o d \in Strings /\ Len(y \o d) = Len(y) + Len(d) /\ Len(y) \in Nat /\ Len(d) \in Nat
      /\ LiesAt(y \o d, 0, y) /\ LiesAt(y \o d, Len(y), d)
  BY <1>2, PartsOfTwo
<1>5. /\ t \in Strings /\ Len(t) = Len(y) + Len(d) /\ Len(y) \in Nat /\ Len(d) \in Nat
      /\ LiesAt(t, 0, y) /\ LiesAt(t, Len(y), d)
  BY ONLY <1>3, <1>4
<1>6. Len(x) = Len(a) + Len(b) /\ Len(y) = Len(a) + Len(b) + Len(c) /\ Len(t) \in Nat
      /\ Len(t) = Len(a) + Len(b) + Len(c) + Len(d)
  BY ONLY <1>1, <1>2, <1>5
<1>7. LiesAt(t, 0 + 0, x) /\ LiesAt(t, 0 + Len(x), c)
  BY <1>2, <1>5, <1>6, PartOfPart
<1>8. 0 + 0 = 0 /\ 0 + Len(x) = Len(x) /\ 0 + Len(a) = Len(a)
  BY <1>1, <1>2
<1>9. LiesAt(t, 0, x) /\ LiesAt(t, Len(x), c)
  BY ONLY <1>7, <1>8
<1>10. LiesAt(t, 0 + 0, a) /\ LiesAt(t, 0 + Len(a), b)
  BY <1>1, <1>6, <1>9, PartOfPart
<1>11. LiesAt(t, 0, a) /\ LiesAt(t, Len(a), b)
  BY ONLY <1>8, <1>10
<1> QED
  BY ONLY <1>5, <1>6, <1>9, <1>11 DEF FourParts

\* A block that lies in a string is read there.
LEMMA BlockRead ==
  ASSUME NEW fields, NEW size, NEW m, Placed(fields, size), Carries(fields, m), NEW w, w = Submits!Written(size, fields, m),
         NEW b \in Strings, NEW o, LiesAt(b, o, w)
  PROVE  Submits!ReadFields(SubSeq(b, o + 1, o + size), fields) = m
<1>1. Len(w) = size
  <2>1. m \in [DOMAIN fields -> Channel!Numbers]
    BY DEF Carries
  <2>2. Len(Channel!Written(size, fields, m)) = size
    BY <2>1, WrittenBytes
  <2> QED
    BY <2>2, SameIntegers
<1>2. o \in Nat /\ o + size <= Len(b) /\ \A i \in 1 .. size : b[o + i] = w[i]
  BY <1>1 DEF LiesAt
<1> QED
  BY <1>2, BlockAt

\* A section as its builder lets it through.
GoodSection(s, count) == s \in Submits!Sections /\ Submits!SectionFits(s, count)

SectionFacts(s, count) ==
  /\ s.role \in Nat /\ s.role <= 65535 /\ s.codec \in Nat /\ s.codec <= 255 /\ s.stride \in Nat
  /\ s.codecs \in Strings /\ s.tiles \in Seq(Strings) /\ Len(s.tiles) = count
  /\ Len(s.codecs) = 0 \/ Len(s.codecs) = count
  /\ \A i \in 1 .. count : s.tiles[i] \in Strings /\ Len(s.tiles[i]) \in Nat
  /\ s.stride # 0 => \A i \in 1 .. count : Len(s.tiles[i]) <= s.stride

\* What SectionFits() leaves of a section.
LEMMA GoodSections ==
  ASSUME NEW s, NEW count \in Nat, GoodSection(s, count)
  PROVE  SectionFacts(s, count)
<1>1. Submits!Bytes = Channel!Bytes
  BY DEF Submits!Bytes, Channel!Bytes
<1>2. s \in Submits!Sections
  BY DEF GoodSection
<1>3. /\ s.role \in Nat /\ s.codec \in Nat /\ s.stride \in Nat /\ s.codecs \in Strings /\ s.tiles \in Seq(Strings)
  BY <1>1, <1>2 DEF Submits!Sections, Strings
<1>4. /\ s.role <= 65535 /\ s.codec <= 255 /\ Len(s.tiles) = count /\ Len(s.codecs) \in {0, count}
      /\ s.stride # 0 => \A i \in 1 .. count : Len(s.tiles[i]) <= s.stride
  BY DEF GoodSection, Submits!SectionFits
<1>5. ASSUME NEW i \in 1 .. count
      PROVE  s.tiles[i] \in Strings /\ Len(s.tiles[i]) \in Nat
  <2>1. s.tiles[i] \in Strings
    BY <1>3, <1>4
  <2> QED
    BY <2>1 DEF Strings
<1> QED
  BY <1>3, <1>4, <1>5 DEF SectionFacts

CodecTable(s) == IF Submits!Mixed(s) THEN s.codecs ELSE <<>>
LengthTable(s) == Submits!U32Bytes([i \in 1 .. Len(s.tiles) |-> Len(s.tiles[i])])
SectionData(s) == Submits!FlattenSeq([i \in 1 .. Len(s.tiles) |-> Submits!PaddedTile(s, i)])
SectionHead(s) ==
  [role |-> Submits!N(s.role), codec |-> Submits!N(s.codec),
   flags |-> Submits!N((IF Submits!Mixed(s) THEN 1 ELSE 0) + (IF s.stride = 0 THEN 0 ELSE 2)),
   codecBytes |-> Submits!N(Len(CodecTable(s))), lengthBytes |-> Submits!N(Len(LengthTable(s))),
   payloadBytes |-> Submits!N(Len(SectionData(s))), stride |-> Submits!N(s.stride)]

LEMMA SectionFieldsPlaced ==
  /\ Placed(Submits!SectionFields, 32)
  /\ DOMAIN Submits!SectionFields = {"role", "codec", "flags", "codecBytes", "lengthBytes", "payloadBytes", "stride"}
  /\ Submits!SectionFields.role.kind = "u16" /\ Submits!SectionFields.codec.kind = "u8" /\ Submits!SectionFields.flags.kind = "u16"
  /\ Submits!SectionFields.codecBytes.kind = "u32" /\ Submits!SectionFields.lengthBytes.kind = "u32"
  /\ Submits!SectionFields.payloadBytes.kind = "u32" /\ Submits!SectionFields.stride.kind = "u32"
BY DEF Submits!SectionFields, Placed, Apart, Within, InBlock, Extent, Channel!Width, Submits!u32, Submits!u16, Submits!u8

LEMMA OneByte ==
  ASSUME NEW n \in Nat, n <= 255
  PROVE  Carried("u8", Submits!N(n)) /\ Submits!N(n)[1] = n
<1> DEFINE v == Channel!N(n)
           q == n \div 256
<1>1. /\ v \in Channel!Numbers
      /\ v[1] = n % 256 /\ v[2] = q % 256 /\ (n <= 65535 => v[3] = 0 /\ v[4] = 0)
      /\ \A k \in 5 .. 9 : v[k] = 0
  BY DigitsOfNumeral
<1>2. n % 256 = n /\ q % 256 = 0 /\ n <= 65535
  OBVIOUS
<1> HIDE DEF v, q
<1>3. Channel!Fits(v, 1)
  BY <1>1, <1>2 DEF Channel!Fits
<1> QED
  BY <1>1, <1>2, <1>3, FitsIsCarried, SameIntegers DEF v

StrideOf(s, i) == IF s.stride = 0 THEN Len(s.tiles[i]) ELSE s.stride

\* A tile within its stride.
LEMMA TilePadded ==
  ASSUME NEW s, NEW count \in Nat, SectionFacts(s, count), NEW i \in 1 .. count, NEW p, p = Submits!PaddedTile(s, i)
  PROVE  p \in Strings /\ LiesAt(p, 0, s.tiles[i]) /\ Len(p) = StrideOf(s, i) /\ StrideOf(s, i) \in Nat
<1> DEFINE t == s.tiles[i]
           z == [k \in 1 .. (s.stride - Len(t)) |-> 0]
<1>1. t \in Strings /\ Len(t) \in Nat /\ s.stride \in Nat /\ (s.stride # 0 => Len(t) <= s.stride)
  BY DEF SectionFacts
<1>2. CASE s.stride = 0
  <2>1. p = t /\ StrideOf(s, i) = Len(t)
    BY <1>2 DEF Submits!PaddedTile, StrideOf
  <2> HIDE DEF t
  <2>2. LiesAt(p, 0, t)
    <3>1. \A k \in 1 .. Len(t) : p[0 + k] = t[k]
      BY <1>1, <2>1
    <3>2. 0 \in Nat /\ 0 + Len(t) <= Len(p)
      BY <1>1, <2>1
    <3> QED
      BY <1>1, <3>1, <3>2 DEF LiesAt
  <2> QED
    BY <1>1, <2>1, <2>2 DEF t
<1>3. CASE s.stride # 0
  <2>1. p = t \o z /\ StrideOf(s, i) = s.stride
    BY <1>3 DEF Submits!PaddedTile, StrideOf
  <2>2. z \in Strings /\ Len(z) = s.stride - Len(t)
    <3>1. s.stride - Len(t) \in Nat
      BY <1>1, <1>3
    <3> DEFINE k == s.stride - Len(t)
    <3>2. z = [j \in 1 .. k |-> 0]
      OBVIOUS
    <3> HIDE DEF k, z
    <3>3. k \in Nat
      BY <3>1 DEF k
    <3>4. z \in Strings /\ Len(z) = k
      BY ONLY <3>2, <3>3, Zeros
    <3> QED
      BY <3>4 DEF k
  <2> HIDE DEF t, z
  <2>3. /\ t \o z \in Strings /\ Len(t \o z) = Len(t) + Len(z) /\ LiesAt(t \o z, 0, t)
    BY <1>1, <2>2, PartsOfTwo
  <2>4. Len(t \o z) = s.stride
    BY ONLY <1>1, <2>2, <2>3
  <2> QED
    BY <1>1, <2>1, <2>3, <2>4 DEF t
<1> QED
  BY <1>2, <1>3

\* Where the tiles of a section lie in its data.
TilesLaid(s, count, at) ==
  /\ at \in [0 .. count -> Nat] /\ at[0] = 0 /\ Len(SectionData(s)) = at[count]
  /\ \A i \in 1 .. count : /\ at[i] = at[i - 1] + StrideOf(s, i) /\ at[i] <= at[count]
                           /\ LiesAt(SectionData(s), at[i - 1], s.tiles[i])

\* The tiles of a section lie one behind another, a stride or a length apart.
LEMMA DataLaid ==
  ASSUME NEW s, NEW count \in Nat, SectionFacts(s, count)
  PROVE  SectionData(s) \in Strings /\ \E at : TilesLaid(s, count, at)
<1> DEFINE e == [i \in 1 .. count |-> Submits!PaddedTile(s, i)]
<1>1. \A i \in 1 .. count : e[i] = Submits!PaddedTile(s, i)
  OBVIOUS
<1>2. SectionData(s) = Submits!FlattenSeq(e)
  BY DEF SectionData, SectionFacts
<1>3. \A i \in 1 .. count : e[i] \in Strings /\ LiesAt(e[i], 0, s.tiles[i]) /\ Len(e[i]) = StrideOf(s, i) /\ StrideOf(s, i) \in Nat
  BY <1>1, TilePadded
<1>4. e = [i \in 1 .. count |-> e[i]]
  OBVIOUS
<1> HIDE DEF e
<1>5. e \in [1 .. count -> Strings]
  BY <1>3, <1>4
<1>6. PICK at \in [0 .. count -> Nat] :
           /\ at[0] = 0
           /\ \A k \in 1 .. count : at[k] = at[k - 1] + Len(e[k]) /\ at[k] <= at[count]
           /\ \A k \in 1 .. count : \A i \in 1 .. Len(e[k]) : Submits!FlattenSeq(e)[at[k - 1] + i] = e[k][i]
           /\ Submits!FlattenSeq(e) \in Strings /\ Len(Submits!FlattenSeq(e)) = at[count]
  <2>1. PICK at \in [0 .. count -> Nat] : Lays(e, count, at)
    BY <1>5, Laying
  <2> QED
    BY <2>1 DEF Lays
<1> DEFINE d == SectionData(s)
<1>7. d \in Strings /\ Len(d) = at[count] /\ Len(d) \in Nat
  <2>1. d \in Strings /\ Len(d) = at[count]
    BY <1>2, <1>6
  <2> QED
    BY <2>1 DEF Strings
<1>8. ASSUME NEW i \in 1 .. count
      PROVE  /\ at[i] = at[i - 1] + StrideOf(s, i) /\ at[i] <= at[count] /\ LiesAt(d, at[i - 1], s.tiles[i])
  <2>1. at[i] = at[i - 1] + Len(e[i]) /\ at[i] <= at[count] /\ \A k \in 1 .. Len(e[i]) : d[at[i - 1] + k] = e[i][k]
    BY <1>2, <1>6
  <2>2. Len(e[i]) = StrideOf(s, i) /\ StrideOf(s, i) \in Nat /\ LiesAt(e[i], 0, s.tiles[i])
    BY <1>3
  <2>3. at[i - 1] \in Nat
    <3>1. i - 1 \in 0 .. count
      OBVIOUS
    <3> QED
      BY <3>1
  <2>4. LiesAt(d, at[i - 1], e[i])
    <3>1. at[i - 1] + Len(e[i]) <= Len(d) /\ Len(e[i]) \in Nat
      BY <1>7, <2>1, <2>2
    <3> QED
      BY <2>1, <2>3, <3>1 DEF LiesAt
  <2>5. LiesAt(d, at[i - 1] + 0, s.tiles[i])
    BY <1>7, <2>2, <2>4, PartOfPart
  <2>6. at[i - 1] + 0 = at[i - 1]
    BY <2>3
  <2> QED
    BY <2>1, <2>2, <2>5, <2>6
<1> HIDE DEF d
<1>9. TilesLaid(s, count, at)
  BY <1>6, <1>7, <1>8 DEF TilesLaid, d
<1> QED
  BY <1>7, <1>9 DEF d

\* A section: its header and its three tables.
SectionLaid(s, count) ==
  LET c == Submits!SectionBytes(s)
      w == Submits!Written(32, Submits!SectionFields, SectionHead(s))
      ct == CodecTable(s)
      lt == LengthTable(s)
      d == SectionData(s)
  IN  /\ c \in Strings /\ ct \in Strings /\ lt \in Strings /\ d \in Strings
      /\ Len(ct) \in Nat /\ Len(lt) \in Nat /\ Len(d) \in Nat
      /\ Len(c) = 32 + Len(ct) + Len(lt) + Len(d)
      /\ LiesAt(c, 0, w) /\ LiesAt(c, 32, ct) /\ LiesAt(c, 32 + Len(ct), lt) /\ LiesAt(c, 32 + Len(ct) + Len(lt), d)
      /\ Len(lt) = 4 * count
      /\ \A i \in 1 .. count : /\ lt[4 * (i - 1) + 1] = Submits!N(Len(s.tiles[i]))[1]
                               /\ lt[4 * (i - 1) + 2] = Submits!N(Len(s.tiles[i]))[2]
      /\ Carries(Submits!SectionFields, SectionHead(s))

\* The table of the lengths of the tiles.
LEMMA LengthsLaid ==
  ASSUME NEW s, NEW count \in Nat, SectionFacts(s, count), NEW lt, lt = LengthTable(s)
  PROVE  /\ lt \in Strings /\ Len(lt) = 4 * count
         /\ \A i \in 1 .. count : /\ lt[4 * (i - 1) + 1] = Submits!N(Len(s.tiles[i]))[1]
                                  /\ lt[4 * (i - 1) + 2] = Submits!N(Len(s.tiles[i]))[2]
<1> DEFINE ls == [i \in 1 .. Len(s.tiles) |-> Len(s.tiles[i])]
<1>1. Len(s.tiles) = count /\ \A i \in 1 .. count : Len(s.tiles[i]) \in Nat
  BY DEF SectionFacts
<1>2. ls \in Seq(Int) /\ Len(ls) = count /\ \A i \in 1 .. count : ls[i] = Len(s.tiles[i])
  BY <1>1
<1>3. lt = Submits!U32Bytes(ls)
  BY DEF LengthTable
<1> HIDE DEF ls
<1>4. PICK w \in {2, 4} : w = 4
  OBVIOUS
<1>5. lt = IntegerTable(ls, w, count)
  BY <1>2, <1>3, <1>4 DEF Submits!U32Bytes, IntegerTable
<1>6. IntegersIn(lt, ls, w, count)
  BY <1>2, <1>5, IntegersLaid
<1>7. /\ lt \in Strings /\ Len(lt) = w * count
      /\ \A i \in 1 .. count : \A k \in 1 .. w : lt[w * (i - 1) + k] = Submits!N(ls[i])[k]
  BY <1>6 DEF IntegersIn
<1>8. ASSUME NEW i \in 1 .. count
      PROVE  /\ lt[4 * (i - 1) + 1] = Submits!N(Len(s.tiles[i]))[1]
             /\ lt[4 * (i - 1) + 2] = Submits!N(Len(s.tiles[i]))[2]
  <2>1. 1 \in 1 .. w /\ 2 \in 1 .. w
    BY <1>4
  <2>2. lt[w * (i - 1) + 1] = Submits!N(ls[i])[1] /\ lt[w * (i - 1) + 2] = Submits!N(ls[i])[2]
    BY <1>7, <2>1
  <2> QED
    BY <1>2, <1>4, <2>2
<1> QED
  BY <1>4, <1>7, <1>8

\* The descriptor of a section can carry its numbers.
LEMMA HeadCarries ==
  ASSUME NEW s, NEW count \in Nat, SectionFacts(s, count)
  PROVE  Carries(Submits!SectionFields, SectionHead(s))
<1> DEFINE h == SectionHead(s)
           fl == (IF Submits!Mixed(s) THEN 1 ELSE 0) + (IF s.stride = 0 THEN 0 ELSE 2)
<1>1. Len(CodecTable(s)) \in Nat /\ Len(LengthTable(s)) \in Nat /\ Len(SectionData(s)) \in Nat /\ fl \in Nat /\ fl <= 65535
  <2>1. CodecTable(s) \in Strings
    BY Nothing DEF CodecTable, SectionFacts
  <2>2. LengthTable(s) \in Strings
    BY LengthsLaid
  <2>3. SectionData(s) \in Strings
    BY DataLaid
  <2>4. fl \in Nat /\ fl <= 65535
    OBVIOUS
  <2> QED
    BY <2>1, <2>2, <2>3, <2>4 DEF Strings
<1>2. /\ h.role = Submits!N(s.role) /\ h.codec = Submits!N(s.codec) /\ h.flags = Submits!N(fl)
      /\ h.codecBytes = Submits!N(Len(CodecTable(s))) /\ h.lengthBytes = Submits!N(Len(LengthTable(s)))
      /\ h.payloadBytes = Submits!N(Len(SectionData(s))) /\ h.stride = Submits!N(s.stride)
      /\ DOMAIN h = DOMAIN Submits!SectionFields /\ h = [f \in DOMAIN h |-> h[f]]
  BY SectionFieldsPlaced DEF SectionHead
<1>3. s.role \in Nat /\ s.role <= 65535 /\ s.codec \in Nat /\ s.codec <= 255 /\ s.stride \in Nat
  BY DEF SectionFacts
<1> HIDE DEF h, fl
<1>4. ASSUME NEW f \in DOMAIN Submits!SectionFields
      PROVE  h[f] \in Channel!Numbers /\ Carried(Submits!SectionFields[f].kind, h[f])
  <2>1. CASE f = "role"
    <3>1. h[f] = Submits!N(s.role) /\ Submits!SectionFields[f].kind = "u16"
      BY <1>2, <2>1, SectionFieldsPlaced
    <3> QED
      BY <1>3, <3>1, LengthBytes
  <2>2. CASE f = "codec"
    <3>1. h[f] = Submits!N(s.codec) /\ Submits!SectionFields[f].kind = "u8"
      BY <1>2, <2>2, SectionFieldsPlaced
    <3> QED
      BY <1>3, <3>1, LengthBytes, OneByte
  <2>3. CASE f = "flags"
    <3>1. h[f] = Submits!N(fl) /\ Submits!SectionFields[f].kind = "u16"
      BY <1>2, <2>3, SectionFieldsPlaced
    <3> QED
      BY <1>1, <3>1, LengthBytes
  <2>4. CASE f \in {"codecBytes", "lengthBytes", "payloadBytes", "stride"}
    <3>1. PICK l \in Nat : h[f] = Submits!N(l)
      BY <1>1, <1>2, <1>3, <2>4
    <3>2. Submits!SectionFields[f].kind = "u32"
      BY <2>4, SectionFieldsPlaced
    <3> QED
      BY <3>1, <3>2, LengthBytes
  <2> QED
    BY <2>1, <2>2, <2>3, <2>4, SectionFieldsPlaced
<1>5. h \in [DOMAIN Submits!SectionFields -> Channel!Numbers]
  BY <1>2, <1>4
<1> QED
  BY <1>4, <1>5 DEF Carries, h

\* A section: descriptor, codec table, length table, tiles.
LEMMA SectionShape ==
  ASSUME NEW s, NEW count \in Nat, SectionFacts(s, count)
  PROVE  SectionLaid(s, count)
<1> DEFINE c == Submits!SectionBytes(s)
           w == Submits!Written(32, Submits!SectionFields, SectionHead(s))
           ct == CodecTable(s)
           lt == LengthTable(s)
           d == SectionData(s)
<1>1. c = w \o ct \o lt \o d
  BY DEF Submits!SectionBytes, SectionHead, CodecTable, LengthTable, SectionData
<1>2. ct \in Strings /\ lt \in Strings /\ d \in Strings
  <2>1. CodecTable(s) \in Strings
    BY Nothing DEF CodecTable, SectionFacts
  <2>2. LengthTable(s) \in Strings
    BY LengthsLaid
  <2>3. SectionData(s) \in Strings
    BY DataLaid
  <2> QED
    BY <2>1, <2>2, <2>3
<1>3. w \in Strings /\ Len(w) = 32
  <2> DEFINE h == SectionHead(s)
  <2>0. PICK size : size = 32
    OBVIOUS
  <2>1. Placed(Submits!SectionFields, size) /\ h \in [DOMAIN Submits!SectionFields -> Channel!Numbers]
    BY <2>0, HeadCarries, SectionFieldsPlaced DEF Carries
  <2> HIDE DEF h
  <2>2. Channel!Written(size, Submits!SectionFields, h) \in Strings /\ Len(Channel!Written(size, Submits!SectionFields, h)) = size
    BY <2>1, WrittenBytes DEF Strings
  <2>3. Channel!Written(size, Submits!SectionFields, h) = Submits!Written(size, Submits!SectionFields, h)
    BY SameIntegers
  <2> QED
    BY <2>0, <2>2, <2>3 DEF h
<1>4. \A i \in 1 .. count : /\ lt[4 * (i - 1) + 1] = Submits!N(Len(s.tiles[i]))[1]
                            /\ lt[4 * (i - 1) + 2] = Submits!N(Len(s.tiles[i]))[2]
  BY LengthsLaid
<1>5. Len(lt) = 4 * count
  BY LengthsLaid
<1> HIDE DEF c, w, ct, lt, d
<1>6. /\ c \in Strings /\ Len(c) = Len(w) + Len(ct) + Len(lt) + Len(d)
      /\ LiesAt(c, 0, w) /\ LiesAt(c, Len(w), ct) /\ LiesAt(c, Len(w) + Len(ct), lt) /\ LiesAt(c, Len(w) + Len(ct) + Len(lt), d)
  <2>1. FourParts(c, w, ct, lt, d)
    BY <1>1, <1>2, <1>3, PartsOfFour
  <2> QED
    BY <2>1 DEF FourParts
<1>7. Len(ct) \in Nat /\ Len(lt) \in Nat /\ Len(d) \in Nat
  BY <1>2 DEF Strings
<1>8. /\ Len(c) = 32 + Len(ct) + Len(lt) + Len(d)
      /\ LiesAt(c, 0, w) /\ LiesAt(c, 32, ct) /\ LiesAt(c, 32 + Len(ct), lt) /\ LiesAt(c, 32 + Len(ct) + Len(lt), d)
  BY ONLY <1>3, <1>6
<1> QED
  BY <1>2, <1>4, <1>5, <1>6, <1>7, <1>8, HeadCarries DEF SectionLaid, c, w, ct, lt, d

SectionAt(t, o, s) ==
  /\ t \in Strings /\ Len(t) \in Nat /\ Len(t) <= 65535 /\ LiesAt(t, o, Submits!SectionBytes(s))

\* The header of a section, read in place.
LEMMA HeaderRead ==
  ASSUME NEW s, NEW count \in Nat, SectionFacts(s, count), NEW t, NEW o, SectionAt(t, o, s)
  PROVE  /\ Submits!SectionHeader(t, o) = SectionHead(s)
         /\ Submits!Low(SectionHead(s).codecBytes) = Len(CodecTable(s))
         /\ Submits!Low(SectionHead(s).lengthBytes) = Len(LengthTable(s))
         /\ Submits!Low(SectionHead(s).payloadBytes) = Len(SectionData(s))
         /\ o \in Nat /\ Len(Submits!SectionBytes(s)) \in Nat
         /\ o + Len(Submits!SectionBytes(s)) <= Len(t)
         /\ Submits!SectionEnd(t, o) = o + Len(Submits!SectionBytes(s))
         /\ Submits!SectionEnd(t, o) \in Nat
<1> DEFINE c == Submits!SectionBytes(s)
           w == Submits!Written(32, Submits!SectionFields, SectionHead(s))
           ct == CodecTable(s)
           lt == LengthTable(s)
           d == SectionData(s)
           h == SectionHead(s)
<1>0. SectionLaid(s, count)
  BY SectionShape
<1>1. /\ Len(ct) \in Nat /\ Len(lt) \in Nat /\ Len(d) \in Nat /\ Len(c) = 32 + Len(ct) + Len(lt) + Len(d)
      /\ LiesAt(c, 0, w) /\ Carries(Submits!SectionFields, h)
  BY <1>0 DEF SectionLaid
<1>2. /\ h.codecBytes = Submits!N(Len(ct)) /\ h.lengthBytes = Submits!N(Len(lt)) /\ h.payloadBytes = Submits!N(Len(d))
  BY DEF SectionHead
<1>3. w = Submits!Written(32, Submits!SectionFields, h)
  OBVIOUS
<1> HIDE DEF c, w, ct, lt, d, h
<1>4. o \in Nat /\ Len(c) \in Nat /\ o + Len(c) <= Len(t) /\ Len(t) \in Nat /\ Len(t) <= 65535 /\ t \in Strings /\ LiesAt(t, o, c)
  BY DEF SectionAt, LiesAt, c
<1>5. LiesAt(t, o, w)
  <2>1. LiesAt(t, o + 0, w)
    BY <1>1, <1>4, PartOfPart
  <2>2. o + 0 = o
    BY <1>4
  <2> QED
    BY ONLY <2>1, <2>2
<1>6. Submits!SectionHeader(t, o) = h
  <2>0. PICK size : size = 32
    OBVIOUS
  <2>1. Placed(Submits!SectionFields, size) /\ w = Submits!Written(size, Submits!SectionFields, h)
    BY <1>3, <2>0, SectionFieldsPlaced
  <2>2. Submits!ReadFields(SubSeq(t, o + 1, o + size), Submits!SectionFields) = h
    BY <1>1, <1>4, <1>5, <2>1, BlockRead
  <2> QED
    BY <2>0, <2>2 DEF Submits!SectionHeader
<1>7. Len(ct) <= 65535 /\ Len(lt) <= 65535 /\ Len(d) <= 65535
  BY ONLY <1>1, <1>4
<1>8. Submits!Low(h.codecBytes) = Len(ct) /\ Submits!Low(h.lengthBytes) = Len(lt) /\ Submits!Low(h.payloadBytes) = Len(d)
  BY <1>1, <1>2, <1>7, LengthBytes
<1>9. Submits!SectionEnd(t, o) = o + 32 + Len(ct) + Len(lt) + Len(d)
  <2> DEFINE e == Submits!SectionHeader(t, o)
  <2>1. Submits!SectionEnd(t, o) = o + 32 + Submits!Low(e.codecBytes) + Submits!Low(e.lengthBytes) + Submits!Low(e.payloadBytes)
    BY DEF Submits!SectionEnd
  <2>2. e = h
    BY <1>6
  <2> HIDE DEF e
  <2> QED
    BY ONLY <1>8, <2>1, <2>2
<1>10. Submits!SectionEnd(t, o) = o + Len(c) /\ Submits!SectionEnd(t, o) \in Nat
  BY ONLY <1>1, <1>4, <1>9
<1> QED
  BY <1>4, <1>6, <1>8, <1>10 DEF c, ct, lt, d, h

\* What the flags say.
LEMMA FlagsRead ==
  ASSUME NEW s
  PROVE  Submits!HasBit(SectionHead(s).flags, 1) <=> Submits!Mixed(s)
<1> DEFINE fl == (IF Submits!Mixed(s) THEN 1 ELSE 0) + (IF s.stride = 0 THEN 0 ELSE 2)
<1>1. SectionHead(s).flags = Submits!N(fl)
  BY DEF SectionHead
<1>2. fl \in Nat /\ fl <= 255 /\ (fl \div 1) % 2 = (IF Submits!Mixed(s) THEN 1 ELSE 0)
  BY DEF Submits!Mixed
<1> HIDE DEF fl
<1>3. Submits!N(fl)[1] = fl
  BY <1>2, OneByte
<1>4. Submits!HasBit(Submits!N(fl), 1) <=> (fl \div 1) % 2 = 1
  BY <1>3 DEF Submits!HasBit
<1> QED
  BY <1>1, <1>2, <1>4

\* The stride in the header, when there is a tile for it.
LEMMA StrideRead ==
  ASSUME NEW s, NEW count \in Nat, SectionFacts(s, count), NEW t, NEW o, SectionAt(t, o, s), NEW i \in 1 .. count
  PROVE  /\ (IF SectionHead(s).stride = Submits!Zero THEN Len(s.tiles[i]) ELSE Submits!Low(SectionHead(s).stride)) = StrideOf(s, i)
         /\ Len(s.tiles[i]) <= 65535
<1>1. PICK at : TilesLaid(s, count, at)
  BY DataLaid
<1>2. /\ at[i] = at[i - 1] + StrideOf(s, i) /\ at[i] <= at[count] /\ at[count] = Len(SectionData(s)) /\ at[i - 1] \in Nat
  <2>1. i - 1 \in 0 .. count
    OBVIOUS
  <2> QED
    BY <1>1, <2>1 DEF TilesLaid
<1>3. SectionLaid(s, count)
  BY SectionShape
<1>4. Len(SectionData(s)) <= 65535
  <2>1. Len(SectionData(s)) <= Len(Submits!SectionBytes(s))
    <3>1. /\ Len(CodecTable(s)) \in Nat /\ Len(LengthTable(s)) \in Nat /\ Len(SectionData(s)) \in Nat
          /\ Len(Submits!SectionBytes(s)) = 32 + Len(CodecTable(s)) + Len(LengthTable(s)) + Len(SectionData(s))
      BY <1>3 DEF SectionLaid
    <3> QED
      BY ONLY <3>1
  <2>2. o \in Nat /\ o + Len(Submits!SectionBytes(s)) <= Len(t) /\ Len(t) \in Nat /\ Len(t) <= 65535
        /\ Len(Submits!SectionBytes(s)) \in Nat /\ Len(SectionData(s)) \in Nat
    BY <1>3 DEF SectionAt, LiesAt, SectionLaid
  <2> QED
    BY ONLY <2>1, <2>2
<1>5. s.stride \in Nat /\ Len(s.tiles[i]) \in Nat /\ (s.stride # 0 => Len(s.tiles[i]) <= s.stride)
      /\ StrideOf(s, i) = IF s.stride = 0 THEN Len(s.tiles[i]) ELSE s.stride
  BY DEF SectionFacts, StrideOf
<1>6. StrideOf(s, i) <= 65535 /\ StrideOf(s, i) \in Nat
  <2>1. StrideOf(s, i) \in Nat
    BY ONLY <1>5
  <2>2. Len(SectionData(s)) \in Nat
    BY <1>3 DEF SectionLaid
  <2> QED
    BY ONLY <1>2, <1>4, <2>1, <2>2
<1>7. Len(s.tiles[i]) <= 65535
  BY ONLY <1>5, <1>6
<1>8. SectionHead(s).stride = Submits!N(s.stride)
  BY DEF SectionHead
<1>9. CASE s.stride = 0
  <2>1. Submits!N(s.stride) = Submits!Zero
    BY <1>9 DEF Submits!Zero
  <2> QED
    BY <1>5, <1>7, <1>8, <1>9, <2>1
<1>10. CASE s.stride # 0
  <2>1. s.stride <= 65535
    BY ONLY <1>5, <1>6, <1>10
  <2>2. Submits!Low(Submits!N(s.stride)) = s.stride
    BY <1>5, <2>1, LengthBytes
  <2>3. Submits!N(s.stride) # Submits!Zero
    BY <1>10, <2>2, ZeroBytes
  <2> QED
    BY <1>5, <1>7, <1>8, <1>10, <2>2, <2>3
<1> QED
  BY <1>9, <1>10

\* The lengths, read in place.
LEMMA LengthRead ==
  ASSUME NEW s, NEW count \in Nat, SectionFacts(s, count), NEW t, NEW o, SectionAt(t, o, s), NEW i \in 1 .. count
  PROVE  Submits!U16At(t, (o + 32 + Len(CodecTable(s))) + 4 * (i - 1)) = Len(s.tiles[i])
<1> DEFINE lt == LengthTable(s)
           p == o + 32 + Len(CodecTable(s))
           c == Submits!SectionBytes(s)
           q == 4 * (i - 1)
<1>0. SectionLaid(s, count)
  BY SectionShape
<1>1. /\ Len(CodecTable(s)) \in Nat /\ Len(lt) \in Nat /\ LiesAt(c, 32 + Len(CodecTable(s)), lt) /\ Len(lt) = 4 * count
      /\ lt[q + 1] = Submits!N(Len(s.tiles[i]))[1] /\ lt[q + 2] = Submits!N(Len(s.tiles[i]))[2]
  BY <1>0 DEF SectionLaid
<1>2. Len(t) \in Nat /\ LiesAt(t, o, c) /\ o \in Nat
  BY DEF SectionAt, LiesAt
<1> HIDE DEF c, lt
<1>3. LiesAt(t, o + (32 + Len(CodecTable(s))), lt)
  BY <1>1, <1>2, PartOfPart
<1>4. p = o + (32 + Len(CodecTable(s))) /\ p \in Nat
  BY ONLY <1>1, <1>2
<1>5. LiesAt(t, p, lt)
  BY ONLY <1>3, <1>4
<1>6. q \in Nat /\ q + 1 \in 1 .. Len(lt) /\ q + 2 \in 1 .. Len(lt)
  BY <1>1
<1> HIDE DEF p, q
<1>7. t[p + (q + 1)] = lt[q + 1] /\ t[p + (q + 2)] = lt[q + 2]
  BY <1>5, <1>6 DEF LiesAt
<1>8. p + (q + 1) = (p + q) + 1 /\ p + (q + 2) = (p + q) + 2
  BY ONLY <1>4, <1>6
<1>9. Submits!U16At(t, p + q) = Submits!N(Len(s.tiles[i]))[1] + 256 * Submits!N(Len(s.tiles[i]))[2]
  <2>1. Submits!U16At(t, p + q) = t[(p + q) + 1] + 256 * t[(p + q) + 2]
    BY DEF Submits!U16At
  <2> QED
    BY ONLY <1>1, <1>7, <1>8, <2>1
<1>10. Len(s.tiles[i]) \in Nat /\ Len(s.tiles[i]) <= 65535
  <2>1. Len(s.tiles[i]) \in Nat
    BY DEF SectionFacts
  <2>2. Len(s.tiles[i]) <= 65535
    BY StrideRead
  <2> QED
    BY <2>1, <2>2
<1>11. Submits!U16At(t, p + q) = Len(s.tiles[i])
  BY <1>9, <1>10, TwoBytes
<1> QED
  BY <1>11 DEF p, q

\* Where the reader looks for each tile.
TileStarts(f, start, s, count) ==
  \A i \in 1 .. count : f[i] = IF i = 1 THEN start ELSE f[i - 1] + StrideOf(s, i - 1)

TilesAt(t, f, s, count) == \A i \in 1 .. count : SubSeq(t, f[i] + 1, f[i] + Len(s.tiles[i])) = s.tiles[i]

\* Starting where the reader starts, each tile is where it looks.
LEMMA TilesFound ==
  ASSUME NEW s, NEW count \in Nat, SectionFacts(s, count), NEW t, NEW o, SectionAt(t, o, s), NEW f, NEW start,
         start = o + 32 + Len(CodecTable(s)) + Len(LengthTable(s)),
         TileStarts(f, start, s, count)
  PROVE  TilesAt(t, f, s, count)
<1>1. PICK at : TilesLaid(s, count, at)
  BY DataLaid
<1>2. SectionLaid(s, count)
  BY SectionShape
<1> DEFINE c == Submits!SectionBytes(s)
           d == SectionData(s)
           p == 32 + Len(CodecTable(s)) + Len(LengthTable(s))
<1>3. /\ Len(CodecTable(s)) \in Nat /\ Len(LengthTable(s)) \in Nat /\ LiesAt(c, p, d) /\ p \in Nat
  BY <1>2 DEF SectionLaid
<1>4. Len(t) \in Nat /\ LiesAt(t, o, c) /\ o \in Nat /\ t \in Strings
  BY DEF SectionAt, LiesAt
<1>5. start = o + p /\ start \in Nat
  BY ONLY <1>3, <1>4, start = o + 32 + Len(CodecTable(s)) + Len(LengthTable(s))
<1> HIDE DEF c, d, p
<1>6. LiesAt(t, start, d)
  <2>1. LiesAt(t, o + p, d)
    BY <1>3, <1>4, PartOfPart
  <2> QED
    BY ONLY <1>5, <2>1
<1>7. /\ at \in [0 .. count -> Nat] /\ at[0] = 0
      /\ \A i \in 1 .. count : at[i] = at[i - 1] + StrideOf(s, i) /\ LiesAt(d, at[i - 1], s.tiles[i])
  BY <1>1 DEF TilesLaid, d
<1> DEFINE A == {i \in 1 .. count : f[i] = start + at[i - 1]}
<1>8. ASSUME NEW i \in 1 .. count, \A j \in 1 .. count : j < i => j \in A
      PROVE  i \in A
  <2>1. CASE i = 1
    <3>1. f[i] = start /\ at[i - 1] = 0
      BY <1>7, <2>1 DEF TileStarts
    <3>2. f[i] = start + at[i - 1]
      BY ONLY <1>5, <3>1
    <3> QED
      BY <3>2
  <2>2. CASE i # 1
    <3>1. i - 1 \in 1 .. count /\ i - 1 < i /\ (i - 1) - 1 \in 0 .. count
      BY <2>2
    <3>2. f[i] = f[i - 1] + StrideOf(s, i - 1)
      BY <2>2 DEF TileStarts
    <3>3. f[i - 1] = start + at[(i - 1) - 1]
      BY <1>8, <3>1
    <3>4. at[i - 1] = at[(i - 1) - 1] + StrideOf(s, i - 1)
      BY <1>7, <3>1
    <3>5. at[(i - 1) - 1] \in Nat /\ StrideOf(s, i - 1) \in Nat
      <4>1. at[(i - 1) - 1] \in Nat
        BY <1>7, <3>1
      <4>2. StrideOf(s, i - 1) \in Nat
        BY <3>1, TilePadded
      <4> QED
        BY <4>1, <4>2
    <3>6. f[i] = start + at[i - 1]
      BY ONLY <1>5, <3>2, <3>3, <3>4, <3>5
    <3> QED
      BY <3>6
  <2> QED
    BY <2>1, <2>2
<1> HIDE DEF A
<1>9. \A i \in 1 .. count : i \in A
  BY <1>8, Upwards
<1>10. ASSUME NEW i \in 1 .. count
       PROVE  SubSeq(t, f[i] + 1, f[i] + Len(s.tiles[i])) = s.tiles[i]
  <2>1. f[i] = start + at[i - 1] /\ LiesAt(d, at[i - 1], s.tiles[i])
    BY <1>7, <1>9 DEF A
  <2>2. LiesAt(t, start + at[i - 1], s.tiles[i])
    BY <1>4, <1>6, <2>1, PartOfPart
  <2>3. LiesAt(t, f[i], s.tiles[i])
    BY ONLY <2>1, <2>2
  <2>4. s.tiles[i] \in Strings
    BY DEF SectionFacts
  <2> QED
    BY <1>4, <2>3, <2>4, FoundThere
<1> QED
  BY <1>10 DEF TilesAt

\* The codecs, whether a table of them was written or the one of the header stands for all.
LEMMA CodecsFound ==
  ASSUME NEW s, NEW count \in Nat, SectionFacts(s, count), NEW t, NEW o, SectionAt(t, o, s)
  PROVE  [i \in 1 .. count |-> IF Submits!HasBit(SectionHead(s).flags, 1) THEN t[o + 32 + i] ELSE Submits!Low(SectionHead(s).codec)]
           = Submits!SectionCodecs(s)
<1>1. /\ s.codec \in Nat /\ s.codec <= 255 /\ s.codecs \in Seq(Channel!Bytes) /\ Len(s.tiles) = count
      /\ Len(s.codecs) = 0 \/ Len(s.codecs) = count
  BY DEF SectionFacts, Strings
<1>2. Submits!Low(SectionHead(s).codec) = s.codec
  <2>1. SectionHead(s).codec = Submits!N(s.codec) /\ s.codec <= 65535
    BY <1>1 DEF SectionHead
  <2> QED
    BY <1>1, <2>1, LengthBytes
<1>3. ASSUME Submits!Mixed(s), NEW i \in 1 .. count
      PROVE  t[o + 32 + i] = s.codecs[i] /\ s.codecs # <<>> /\ Len(s.codecs) = count
  <2>1. Len(s.codecs) # 0
    BY <1>1, <1>3 DEF Submits!Mixed
  <2>2. Len(s.codecs) = count /\ s.codecs # <<>>
    BY <1>1, <2>1
  <2>3. CodecTable(s) = s.codecs
    BY <1>3 DEF CodecTable
  <2>4. SectionLaid(s, count)
    BY SectionShape
  <2>5. LiesAt(Submits!SectionBytes(s), 32, s.codecs)
    <3>1. LiesAt(Submits!SectionBytes(s), 32, CodecTable(s))
      BY <2>4 DEF SectionLaid
    <3> QED
      BY ONLY <2>3, <3>1
  <2>6. LiesAt(t, o, Submits!SectionBytes(s)) /\ Len(t) \in Nat
    BY DEF SectionAt
  <2>7. LiesAt(t, o + 32, s.codecs)
    BY <2>5, <2>6, PartOfPart
  <2>8. t[(o + 32) + i] = s.codecs[i]
    BY <2>2, <2>7 DEF LiesAt
  <2> QED
    BY <2>2, <2>8
<1>4. CASE Submits!Mixed(s)
  <2>1. [i \in 1 .. count |-> IF Submits!HasBit(SectionHead(s).flags, 1) THEN t[o + 32 + i] ELSE Submits!Low(SectionHead(s).codec)]
          = [i \in 1 .. count |-> s.codecs[i]]
    BY <1>3, <1>4, FlagsRead
  <2>2. Len(s.codecs) # 0
    BY <1>1, <1>4 DEF Submits!Mixed
  <2>3. s.codecs = [i \in 1 .. count |-> s.codecs[i]] /\ s.codecs # <<>>
    BY <1>1, <2>2
  <2>4. Submits!SectionCodecs(s) = s.codecs
    BY <2>3 DEF Submits!SectionCodecs
  <2> QED
    BY ONLY <2>1, <2>3, <2>4
<1>5. CASE ~Submits!Mixed(s)
  <2>1. [i \in 1 .. count |-> IF Submits!HasBit(SectionHead(s).flags, 1) THEN t[o + 32 + i] ELSE Submits!Low(SectionHead(s).codec)]
          = [i \in 1 .. count |-> s.codec]
    BY <1>2, <1>5, FlagsRead
  <2>2. CASE s.codecs = <<>>
    <3>1. Submits!SectionCodecs(s) = [i \in 1 .. count |-> s.codec]
      BY <1>1, <2>2 DEF Submits!SectionCodecs
    <3> QED
      BY ONLY <2>1, <3>1
  <2>3. CASE s.codecs # <<>>
    <3>1. Len(s.codecs) = count
      <4>1. Len(s.codecs) # 0
        BY <1>1, <2>3
      <4> QED
        BY <1>1, <4>1
    <3>2. \A i \in 1 .. count : s.codecs[i] = s.codec
      BY <1>5, <3>1 DEF Submits!Mixed
    <3>3. s.codecs = [i \in 1 .. count |-> s.codecs[i]]
      BY <1>1, <3>1
    <3>4. s.codecs = [i \in 1 .. count |-> s.codec]
      BY ONLY <3>2, <3>3
    <3>5. Submits!SectionCodecs(s) = s.codecs
      BY <2>3 DEF Submits!SectionCodecs
    <3> QED
      BY ONLY <2>1, <3>4, <3>5
  <2> QED
    BY <2>2, <2>3
<1> QED
  BY <1>4, <1>5

\* A section, read in place.
LEMMA SectionRead ==
  ASSUME NEW s, NEW count \in Nat, SectionFacts(s, count), NEW t, NEW o, SectionAt(t, o, s)
  PROVE  Submits!ReadSection(t, o, count)
           = [role |-> s.role, tiles |-> s.tiles, codecs |-> Submits!SectionCodecs(s)]
<1> DEFINE h == SectionHead(s)
           e == Submits!SectionHeader(t, o)
           codecEnd == o + 32 + Submits!Low(e.codecBytes)
           dataStart == codecEnd + Submits!Low(e.lengthBytes)
           LengthOf(i) == Submits!U16At(t, codecEnd + 4 * (i - 1))
           Is(f) == f = [i \in 1 .. count |->
                           IF i = 1 THEN dataStart
                           ELSE f[i - 1] + (IF e.stride = Submits!Zero THEN LengthOf(i - 1) ELSE Submits!Low(e.stride))]
           tile == CHOOSE f : Is(f)
<1>1. Submits!ReadSection(t, o, count)
        = [role |-> Submits!Low(e.role),
           tiles |-> [i \in 1 .. count |-> SubSeq(t, tile[i] + 1, tile[i] + LengthOf(i))],
           codecs |-> [i \in 1 .. count |-> IF Submits!HasBit(e.flags, 1) THEN t[o + 32 + i] ELSE Submits!Low(e.codec)]]
  BY DEF Submits!ReadSection
<1>2. e = h
  BY HeaderRead
<1>3. /\ codecEnd = o + 32 + Len(CodecTable(s))
      /\ dataStart = o + 32 + Len(CodecTable(s)) + Len(LengthTable(s))
  <2>1. Submits!Low(h.codecBytes) = Len(CodecTable(s)) /\ Submits!Low(h.lengthBytes) = Len(LengthTable(s))
    BY HeaderRead
  <2> HIDE DEF e, h
  <2> QED
    BY <1>2, <2>1
<1>4. ASSUME NEW i \in 1 .. count
      PROVE  LengthOf(i) = Len(s.tiles[i])
  <2>1. LengthOf(i) = Submits!U16At(t, codecEnd + 4 * (i - 1))
    OBVIOUS
  <2>2. Submits!U16At(t, (o + 32 + Len(CodecTable(s))) + 4 * (i - 1)) = Len(s.tiles[i])
    BY LengthRead
  <2> HIDE DEF codecEnd, LengthOf
  <2> QED
    BY ONLY <1>3, <2>1, <2>2
<1> HIDE DEF e, codecEnd, dataStart, LengthOf
<1>5. ASSUME NEW i \in 1 .. count
      PROVE  (IF e.stride = Submits!Zero THEN LengthOf(i) ELSE Submits!Low(e.stride)) = StrideOf(s, i)
  <2>1. (IF h.stride = Submits!Zero THEN Len(s.tiles[i]) ELSE Submits!Low(h.stride)) = StrideOf(s, i)
    BY StrideRead
  <2> HIDE DEF h
  <2>2. LengthOf(i) = Len(s.tiles[i])
    BY <1>4
  <2> QED
    BY ONLY <1>2, <2>1, <2>2
<1>6. \E f : Is(f)
  <2>1. PICK at : TilesLaid(s, count, at)
    BY DataLaid
  <2>2. /\ at \in [0 .. count -> Nat] /\ at[0] = 0 /\ \A i \in 1 .. count : at[i] = at[i - 1] + StrideOf(s, i)
    BY <2>1 DEF TilesLaid
  <2>3. dataStart \in Nat
    <3>1. o \in Nat
      BY HeaderRead
    <3>2. Len(CodecTable(s)) \in Nat /\ Len(LengthTable(s)) \in Nat
      BY SectionShape DEF SectionLaid
    <3> QED
      BY ONLY <1>3, <3>1, <3>2
  <2> DEFINE g == [i \in 1 .. count |-> dataStart + at[i - 1]]
  <2>4. ASSUME NEW i \in 1 .. count
        PROVE  g[i] = IF i = 1 THEN dataStart
                      ELSE g[i - 1] + (IF e.stride = Submits!Zero THEN LengthOf(i - 1) ELSE Submits!Low(e.stride))
    <3>1. g[i] = dataStart + at[i - 1]
      OBVIOUS
    <3>2. CASE i = 1
      <4>1. at[i - 1] = 0
        BY <2>2, <3>2
      <4>2. g[i] = dataStart
        BY ONLY <2>3, <3>1, <4>1
      <4> QED
        BY <3>2, <4>2
    <3>3. CASE i # 1
      <4>1. i - 1 \in 1 .. count /\ (i - 1) - 1 \in 0 .. count
        BY <3>3
      <4>2. g[i - 1] = dataStart + at[(i - 1) - 1]
        BY <4>1
      <4>3. at[i - 1] = at[(i - 1) - 1] + StrideOf(s, i - 1) /\ at[(i - 1) - 1] \in Nat
        BY <2>2, <4>1
      <4>4. (IF e.stride = Submits!Zero THEN LengthOf(i - 1) ELSE Submits!Low(e.stride)) = StrideOf(s, i - 1)
        BY <1>5, <4>1
      <4>5. StrideOf(s, i - 1) \in Nat
        BY <4>1, TilePadded
      <4> HIDE DEF g
      <4>6. g[i] = g[i - 1] + StrideOf(s, i - 1)
        BY ONLY <2>3, <3>1, <4>2, <4>3, <4>5
      <4>7. g[i] = g[i - 1] + (IF e.stride = Submits!Zero THEN LengthOf(i - 1) ELSE Submits!Low(e.stride))
        BY ONLY <4>4, <4>6
      <4> QED
        BY <3>3, <4>7
    <3> QED
      BY <3>2, <3>3
  <2>5. g = [i \in 1 .. count |-> g[i]]
    OBVIOUS
  <2> HIDE DEF g
  <2>6. Is(g)
    BY <2>4, <2>5
  <2> QED
    BY <2>6
<1>7. Is(tile)
  BY <1>6
<1> HIDE DEF tile
<1>8. ASSUME NEW i \in 1 .. count
      PROVE  tile[i] = IF i = 1 THEN dataStart ELSE tile[i - 1] + StrideOf(s, i - 1)
  <2>1. tile[i] = IF i = 1 THEN dataStart
                  ELSE tile[i - 1] + (IF e.stride = Submits!Zero THEN LengthOf(i - 1) ELSE Submits!Low(e.stride))
    BY <1>7
  <2>2. CASE i = 1
    BY <2>1, <2>2
  <2>3. CASE i # 1
    <3>1. i - 1 \in 1 .. count
      BY <2>3
    <3>2. (IF e.stride = Submits!Zero THEN LengthOf(i - 1) ELSE Submits!Low(e.stride)) = StrideOf(s, i - 1)
      BY <1>5, <3>1
    <3> QED
      BY <2>1, <2>3, <3>2
  <2> QED
    BY <2>2, <2>3
<1> HIDE DEF Is
<1>9. \A i \in 1 .. count : SubSeq(t, tile[i] + 1, tile[i] + Len(s.tiles[i])) = s.tiles[i]
  <2>1. TileStarts(tile, dataStart, s, count)
    BY <1>8 DEF TileStarts
  <2>2. TilesAt(t, tile, s, count)
    BY <1>3, <2>1, TilesFound
  <2> QED
    BY <2>2 DEF TilesAt
<1>10. [i \in 1 .. count |-> SubSeq(t, tile[i] + 1, tile[i] + LengthOf(i))] = s.tiles
  <2>1. ASSUME NEW i \in 1 .. count
        PROVE  SubSeq(t, tile[i] + 1, tile[i] + LengthOf(i)) = s.tiles[i]
    <3>1. LengthOf(i) = Len(s.tiles[i])
      BY <1>4
    <3>2. SubSeq(t, tile[i] + 1, tile[i] + Len(s.tiles[i])) = s.tiles[i]
      BY <1>9
    <3> QED
      BY ONLY <3>1, <3>2
  <2>2. s.tiles = [i \in 1 .. count |-> s.tiles[i]]
    <3>1. s.tiles \in Seq(Strings) /\ Len(s.tiles) = count
      BY DEF SectionFacts
    <3> QED
      BY ONLY <3>1
  <2> QED
    BY ONLY <2>1, <2>2
<1>11. [i \in 1 .. count |-> IF Submits!HasBit(e.flags, 1) THEN t[o + 32 + i] ELSE Submits!Low(e.codec)] = Submits!SectionCodecs(s)
  <2>1. [i \in 1 .. count |-> IF Submits!HasBit(h.flags, 1) THEN t[o + 32 + i] ELSE Submits!Low(h.codec)] = Submits!SectionCodecs(s)
    BY CodecsFound
  <2> HIDE DEF h
  <2> QED
    BY ONLY <1>2, <2>1
<1>12. Submits!Low(e.role) = s.role
  <2>1. s.role \in Nat /\ s.role <= 65535
    BY DEF SectionFacts
  <2>2. h.role = Submits!N(s.role)
    BY DEF SectionHead
  <2>3. Submits!Low(h.role) = s.role
    BY <2>1, <2>2, LengthBytes
  <2> HIDE DEF h
  <2> QED
    BY ONLY <1>2, <2>3
<1> QED
  BY ONLY <1>1, <1>10, <1>11, <1>12

GoodTable(ss, n, count) == n \in Nat /\ n = Len(ss) /\ count \in Nat /\ \A i \in 1 .. n : SectionFacts(ss[i], count)

Gap(l) == (-l) % 8

LEMMA Aligned ==
  ASSUME NEW a \in Nat, NEW l \in Nat, a % 8 = 0
  PROVE  /\ Gap(a + l) = Gap(l) /\ Gap(l) \in Nat
         /\ (a + (l + Gap(l))) % 8 = 0
BY DEF Gap

\* Where the sections of a table lie.
TableLaid(ss, n, at) ==
  /\ at \in [0 .. n -> Nat] /\ at[0] = 0 /\ Len(Submits!SectionTable(ss)) = at[n]
  /\ \A i \in 1 .. n :
       /\ LiesAt(Submits!SectionTable(ss), at[i - 1], Submits!SectionBytes(ss[i]))
       /\ at[i] = at[i - 1] + Len(Submits!SectionBytes(ss[i])) + (IF i = n THEN 0 ELSE Gap(Len(Submits!SectionBytes(ss[i]))))
       /\ at[i - 1] % 8 = 0

\* Sections one behind another, each but the last padded.
LEMMA SectionsLaid ==
  ASSUME NEW ss, NEW n, NEW count, GoodTable(ss, n, count)
  PROVE  Submits!SectionTable(ss) \in Strings /\ \E at : TableLaid(ss, n, at)
<1> DEFINE c(i) == Submits!SectionBytes(ss[i])
           e == [i \in 1 .. n |-> IF i = n THEN c(i) ELSE Submits!Pad8(c(i))]
           table == Submits!SectionTable(ss)
           gap(i) == IF i = n THEN 0 ELSE Gap(Len(c(i)))
<1>1. n \in Nat /\ n = Len(ss)
  BY DEF GoodTable
<1>2. table = Submits!FlattenSeq(e)
  BY <1>1 DEF Submits!SectionTable
<1>3. ASSUME NEW i \in 1 .. n
      PROVE  /\ c(i) \in Strings /\ Len(c(i)) \in Nat /\ e[i] \in Strings /\ LiesAt(e[i], 0, c(i))
             /\ Len(e[i]) = Len(c(i)) + gap(i) /\ gap(i) \in Nat
  <2>1. SectionLaid(ss[i], count)
    BY SectionShape DEF GoodTable
  <2>2. c(i) \in Strings
    BY <2>1 DEF SectionLaid
  <2>3. e[i] = IF i = n THEN c(i) ELSE Submits!Pad8(c(i))
    OBVIOUS
  <2> DEFINE b == c(i)
  <2>4. b \in Strings /\ e[i] = (IF i = n THEN b ELSE Submits!Pad8(b)) /\ gap(i) = IF i = n THEN 0 ELSE Gap(Len(b))
    BY <2>2, <2>3
  <2> HIDE DEF c, e, b, gap
  <2>5. Len(b) \in Nat
    BY <2>4 DEF Strings
  <2>6. CASE i = n
    <3>1. e[i] = b /\ gap(i) = 0
      BY <2>4, <2>6
    <3>2. LiesAt(b, 0, b)
      <4>1. \A k \in 1 .. Len(b) : b[0 + k] = b[k]
        BY <2>5
      <4>2. 0 \in Nat /\ 0 + Len(b) <= Len(b)
        BY <2>5
      <4> QED
        BY <2>5, <4>1, <4>2 DEF LiesAt
    <3> QED
      BY <2>4, <2>5, <3>1, <3>2 DEF b
  <2>7. CASE i # n
    <3>1. e[i] = Submits!Pad8(b) /\ gap(i) = Gap(Len(b))
      BY <2>4, <2>7
    <3>2. /\ Submits!Pad8(b) \in Strings /\ Len(Submits!Pad8(b)) = Len(b) + Gap(Len(b))
          /\ \A k \in 1 .. Len(b) : Submits!Pad8(b)[k] = b[k]
      BY <2>4, Padded DEF Gap
    <3>3. Gap(Len(b)) \in Nat
      BY <2>5, Padding DEF Gap
    <3> DEFINE p == Submits!Pad8(b)
    <3>4. LiesAt(p, 0, b)
      <4>1. \A k \in 1 .. Len(b) : p[0 + k] = b[k]
        BY <2>5, <3>2
      <4>2. 0 \in Nat /\ 0 + Len(b) <= Len(p)
        BY <2>5, <3>2, <3>3
      <4> QED
        BY <2>5, <4>1, <4>2 DEF LiesAt
    <3> QED
      BY <2>4, <2>5, <3>1, <3>2, <3>3, <3>4 DEF b
  <2> QED
    BY <2>6, <2>7
<1>4. e = [i \in 1 .. n |-> e[i]]
  OBVIOUS
<1> HIDE DEF e, table, gap, c
<1>5. e \in [1 .. n -> Strings]
  BY <1>3, <1>4
<1>6. PICK at \in [0 .. n -> Nat] :
           /\ at[0] = 0
           /\ \A k \in 1 .. n : at[k] = at[k - 1] + Len(e[k]) /\ at[k] <= at[n]
           /\ \A k \in 1 .. n : \A i \in 1 .. Len(e[k]) : Submits!FlattenSeq(e)[at[k - 1] + i] = e[k][i]
           /\ Submits!FlattenSeq(e) \in Strings /\ Len(Submits!FlattenSeq(e)) = at[n]
  <2>1. PICK at \in [0 .. n -> Nat] : Lays(e, n, at)
    BY <1>1, <1>5, Laying
  <2> QED
    BY <2>1 DEF Lays
<1>7. table \in Strings /\ Len(table) = at[n] /\ Len(table) \in Nat
  <2>1. table \in Strings /\ Len(table) = at[n]
    BY <1>2, <1>6
  <2> QED
    BY <2>1 DEF Strings
<1>8. ASSUME NEW i \in 1 .. n
      PROVE  /\ LiesAt(table, at[i - 1], c(i))
             /\ at[i] = at[i - 1] + Len(c(i)) + gap(i)
  <2>1. at[i] = at[i - 1] + Len(e[i]) /\ at[i] <= at[n] /\ \A k \in 1 .. Len(e[i]) : table[at[i - 1] + k] = e[i][k]
    BY <1>2, <1>6
  <2>2. at[i - 1] \in Nat
    <3>1. i - 1 \in 0 .. n
      BY <1>1
    <3> QED
      BY <3>1
  <2>3. /\ Len(c(i)) \in Nat /\ LiesAt(e[i], 0, c(i)) /\ Len(e[i]) = Len(c(i)) + gap(i) /\ gap(i) \in Nat
    BY <1>3
  <2>4. LiesAt(table, at[i - 1], e[i])
    <3>1. at[i - 1] + Len(e[i]) <= Len(table) /\ Len(e[i]) \in Nat
      BY <1>7, <2>1, <2>2, <2>3
    <3> QED
      BY <2>1, <2>2, <3>1 DEF LiesAt
  <2>5. LiesAt(table, at[i - 1] + 0, c(i))
    BY <1>7, <2>3, <2>4, PartOfPart
  <2>6. at[i - 1] + 0 = at[i - 1]
    BY <2>2
  <2>7. at[i] = at[i - 1] + Len(c(i)) + gap(i)
    BY ONLY <2>1, <2>2, <2>3
  <2> QED
    BY ONLY <2>5, <2>6, <2>7
<1> DEFINE A == {i \in 1 .. n : at[i - 1] % 8 = 0}
<1>9. ASSUME NEW i \in 1 .. n, \A j \in 1 .. n : j < i => j \in A
      PROVE  i \in A
  <2>1. CASE i = 1
    <3>1. at[i - 1] = 0
      BY <1>6, <2>1
    <3> QED
      BY <3>1
  <2>2. CASE i # 1
    <3>1. i - 1 \in 1 .. n /\ i - 1 < i /\ (i - 1) - 1 \in 0 .. n /\ i - 1 # n
      BY <1>1, <2>2
    <3>2. at[(i - 1) - 1] % 8 = 0 /\ at[(i - 1) - 1] \in Nat
      BY <1>9, <3>1
    <3>3. at[i - 1] = at[(i - 1) - 1] + Len(c(i - 1)) + gap(i - 1)
      BY <1>8, <3>1
    <3>4. gap(i - 1) = Gap(Len(c(i - 1)))
      BY <3>1 DEF gap
    <3>5. Len(c(i - 1)) \in Nat
      BY <1>3, <3>1
    <3>6. (at[(i - 1) - 1] + (Len(c(i - 1)) + Gap(Len(c(i - 1))))) % 8 = 0 /\ Gap(Len(c(i - 1))) \in Nat
      BY <3>2, <3>5, Aligned
    <3>7. at[i - 1] = at[(i - 1) - 1] + (Len(c(i - 1)) + Gap(Len(c(i - 1))))
      BY ONLY <3>2, <3>3, <3>4, <3>5, <3>6
    <3>8. at[i - 1] % 8 = 0
      BY ONLY <3>6, <3>7
    <3> QED
      BY <3>8
  <2> QED
    BY <2>1, <2>2
<1> HIDE DEF A
<1>10. \A i \in 1 .. n : i \in A
  BY <1>1, <1>9, Upwards
<1>11. \A i \in 1 .. n : at[i - 1] % 8 = 0
  BY <1>10 DEF A
<1>12. TableLaid(ss, n, at)
  BY <1>6, <1>7, <1>8, <1>11 DEF TableLaid, table, c, gap
<1> QED
  BY <1>7, <1>12 DEF table

\* What a reader makes of a table of sections.
TableSays(table, ss, n, count) ==
  LET start == Submits!SectionStarts(table, n)
  IN  /\ \A i \in 1 .. n :
           Submits!ReadSection(table, start[i], count) =
             [role |-> ss[i].role, tiles |-> ss[i].tiles, codecs |-> Submits!SectionCodecs(ss[i])]
      /\ Len(table) = IF n = 0 THEN 0 ELSE Submits!SectionEnd(table, start[n])

\* The reader walks a table from section to section and finds all of them.
LEMMA TableRead ==
  ASSUME NEW ss, NEW n, NEW count, GoodTable(ss, n, count), NEW table, table = Submits!SectionTable(ss), Len(table) <= 65535
  PROVE  TableSays(table, ss, n, count)
<1>1. PICK at : TableLaid(ss, n, at)
  BY SectionsLaid
<1>2. table \in Strings /\ Len(table) \in Nat /\ n \in Nat /\ count \in Nat /\ n = Len(ss)
  <2>1. table \in Strings
    BY SectionsLaid
  <2> QED
    BY <2>1 DEF Strings, GoodTable
<1>3. at \in [0 .. n -> Nat] /\ at[0] = 0 /\ Len(table) = at[n]
  BY <1>1 DEF TableLaid
<1> DEFINE len(i) == Len(Submits!SectionBytes(ss[i]))
           start(i) == at[i - 1]
           end(i) == Submits!SectionEnd(table, start(i))
<1>4. ASSUME NEW i \in 1 .. n
      PROVE  /\ SectionAt(table, start(i), ss[i]) /\ SectionFacts(ss[i], count)
             /\ start(i) \in Nat /\ len(i) \in Nat /\ end(i) = start(i) + len(i) /\ end(i) \in Nat
             /\ Gap(end(i)) = Gap(len(i))
             /\ at[i] = start(i) + len(i) + (IF i = n THEN 0 ELSE Gap(len(i)))
  <2>1. SectionFacts(ss[i], count)
    BY DEF GoodTable
  <2>2. /\ LiesAt(table, at[i - 1], Submits!SectionBytes(ss[i])) /\ at[i - 1] % 8 = 0
        /\ at[i] = at[i - 1] + len(i) + (IF i = n THEN 0 ELSE Gap(len(i)))
    BY <1>1 DEF TableLaid
  <2>3. SectionAt(table, start(i), ss[i])
    BY <1>2, <2>2 DEF SectionAt
  <2>4. start(i) \in Nat /\ len(i) \in Nat /\ end(i) = start(i) + len(i) /\ end(i) \in Nat
    BY <1>2, <2>1, <2>3, HeaderRead
  <2>4a. start(i) % 8 = 0
    BY <2>2
  <2>5. Gap(start(i) + len(i)) = Gap(len(i))
    <3> HIDE DEF start, len, end
    <3> QED
      BY <2>4, <2>4a, Aligned
  <2> QED
    BY <2>1, <2>2, <2>3, <2>4, <2>5
<1> HIDE DEF len, end
<1> DEFINE after(x) == LET e == Submits!SectionEnd(table, x) IN e + ((-e) % 8)
           Is(z) == z = [i \in 1 .. n |-> IF i = 1 THEN 0 ELSE after(z[i - 1])]
           f == CHOOSE z : Is(z)
<1>5. Submits!SectionStarts(table, n) = f
  BY DEF Submits!SectionStarts
<1>5a. n \in Nat
  BY <1>2
<1>6. ASSUME NEW i \in 1 .. n, i # 1
      PROVE  /\ i - 1 \in 1 .. n /\ i - 1 # n
             /\ start(i) = after(start(i - 1))
  <2>1. i - 1 \in 1 .. n /\ i - 1 # n
    BY <1>2, <1>6
  <2>2. at[i - 1] = start(i - 1) + len(i - 1) + Gap(len(i - 1))
    BY <1>4, <2>1
  <2>3. end(i - 1) = start(i - 1) + len(i - 1) /\ Gap(end(i - 1)) = Gap(len(i - 1))
    BY <1>4, <2>1
  <2>4. start(i) = end(i - 1) + Gap(end(i - 1))
    BY <2>2, <2>3
  <2> QED
    BY <2>1, <2>4 DEF end, Gap, after
<1> HIDE DEF after
<1>7. \E z : Is(z)
  <2> DEFINE g == [i \in 1 .. n |-> start(i)]
  <2>1. ASSUME NEW i \in 1 .. n
        PROVE  g[i] = IF i = 1 THEN 0 ELSE after(g[i - 1])
    <3>1. g[i] = start(i)
      OBVIOUS
    <3>2. CASE i = 1
      <4>1. start(i) = 0
        BY <1>3, <3>2
      <4> QED
        BY <3>1, <3>2, <4>1
    <3>3. CASE i # 1
      <4>1. i - 1 \in 1 .. n
        BY <1>6, <3>3
      <4>2. g[i - 1] = start(i - 1)
        BY <4>1
      <4>3. start(i) = after(start(i - 1))
        BY <1>6, <3>3
      <4> HIDE DEF g, start
      <4> QED
        BY <3>1, <3>3, <4>2, <4>3
    <3> QED
      BY <3>2, <3>3
  <2>2. g = [i \in 1 .. n |-> g[i]]
    OBVIOUS
  <2> HIDE DEF g
  <2>3. Is(g)
    <3>1. [i \in 1 .. n |-> g[i]] = [i \in 1 .. n |-> IF i = 1 THEN 0 ELSE after(g[i - 1])]
      BY ONLY <2>1
    <3> QED
      BY ONLY <2>2, <3>1
  <2> HIDE DEF Is
  <2> QED
    BY <2>3
<1> HIDE DEF Is
<1>8. Is(f)
  BY ONLY <1>7
<1> HIDE DEF f
<1>9. \A i \in 1 .. n : f[i] = IF i = 1 THEN 0 ELSE after(f[i - 1])
  BY ONLY <1>8 DEF Is
<1> HIDE DEF Is
<1> DEFINE A == {i \in 1 .. n : f[i] = start(i)}
<1>10. ASSUME NEW i \in 1 .. n, \A j \in 1 .. n : j < i => j \in A
       PROVE  i \in A
  <2>1. CASE i = 1
    <3>1. start(i) = 0
      BY <1>3, <2>1
    <3> QED
      BY <1>9, <2>1, <3>1
  <2>2. CASE i # 1
    <3>1. i - 1 \in 1 .. n /\ i - 1 < i
      BY <1>2, <1>6, <2>2
    <3>2. f[i - 1] = start(i - 1)
      BY <1>10, <3>1
    <3>3. start(i) = after(start(i - 1))
      BY <1>6, <2>2
    <3>4. f[i] = after(f[i - 1])
      BY <1>9, <2>2
    <3> HIDE DEF start
    <3> QED
      BY <3>2, <3>3, <3>4
  <2> QED
    BY <2>1, <2>2
<1> HIDE DEF A
<1>11. \A i \in 1 .. n : i \in A
  BY ONLY <1>5a, <1>10, Upwards
<1>12. \A i \in 1 .. n : f[i] = start(i)
  BY <1>11 DEF A
<1> HIDE DEF start
<1>13. ASSUME NEW i \in 1 .. n
       PROVE  Submits!ReadSection(table, f[i], count)
                = [role |-> ss[i].role, tiles |-> ss[i].tiles, codecs |-> Submits!SectionCodecs(ss[i])]
  <2>1. SectionAt(table, start(i), ss[i]) /\ SectionFacts(ss[i], count)
    BY <1>4
  <2>2. Submits!ReadSection(table, start(i), count)
          = [role |-> ss[i].role, tiles |-> ss[i].tiles, codecs |-> Submits!SectionCodecs(ss[i])]
    BY <1>2, <2>1, SectionRead
  <2> QED
    BY <1>12, <2>2
<1>14. Len(table) = IF n = 0 THEN 0 ELSE Submits!SectionEnd(table, f[n])
  <2>1. CASE n = 0
    BY <1>3, <2>1
  <2>2. CASE n # 0
    <3>1. n \in 1 .. n
      BY <1>2, <2>2
    <3>2. at[n] = start(n) + len(n) + 0 /\ end(n) = start(n) + len(n) /\ f[n] = start(n) /\ start(n) \in Nat /\ len(n) \in Nat
      BY <1>4, <1>12, <3>1
    <3>3. at[n] = end(n)
      BY <3>2
    <3> QED
      BY <1>3, <2>2, <3>2, <3>3 DEF end
  <2> QED
    BY <2>1, <2>2
<1> QED
  BY <1>5, <1>13, <1>14 DEF TableSays

TwoStrings(t, a, b) ==
  /\ t \in Strings /\ Len(t) = Len(a) + Len(b) /\ Len(a) \in Nat /\ Len(b) \in Nat
  /\ LiesAt(t, 0, a) /\ LiesAt(t, Len(a), b)

LEMMA TwoStringsOf ==
  ASSUME NEW a \in Strings, NEW b \in Strings
  PROVE  TwoStrings(a \o b, a, b)
BY PartsOfTwo DEF TwoStrings

\* The kind at the head of a block.
KindAtHead(fields, size, m, k, w) ==
  /\ Placed(fields, size) /\ size \in Nat /\ 2 <= size
  /\ "objectKind" \in DOMAIN fields /\ fields["objectKind"].offset = 0 /\ fields["objectKind"].kind = "u16"
  /\ k \in Nat /\ k <= 65535 /\ m["objectKind"] = Submits!N(k)
  /\ w = Submits!Written(size, fields, m) /\ Len(w) = size

\* The first two bytes of an object are its kind.
LEMMA KindRead ==
  ASSUME NEW fields, NEW size, NEW m, NEW k, NEW w, KindAtHead(fields, size, m, k, w), NEW c, NEW o, LiesAt(c, o, w)
  PROVE  Submits!U16At(c, o) = k
<1>0. /\ Placed(fields, size) /\ size \in Nat /\ 2 <= size
      /\ "objectKind" \in DOMAIN fields /\ fields["objectKind"].offset = 0 /\ fields["objectKind"].kind = "u16"
      /\ k \in Nat /\ k <= 65535 /\ m["objectKind"] = Submits!N(k)
      /\ w = Submits!Written(size, fields, m) /\ Len(w) = size
  BY DEF KindAtHead
<1>1. w = Channel!Written(size, fields, m)
  BY <1>0, SameIntegers
<1>2. ASSUME NEW i \in {1, 2}
      PROVE  w[i] = Submits!N(k)[i]
  <2>1. i \in 1 .. size
    BY <1>0
  <2>2. Within(fields["objectKind"], i)
    BY <1>0 DEF Within, Extent, Channel!Width
  <2>3. Channel!Written(size, fields, m)[i] = m["objectKind"][i - fields["objectKind"].offset]
    BY <1>0, <2>1, <2>2, WrittenField
  <2>4. i - fields["objectKind"].offset = i
    BY <1>0
  <2>5. m["objectKind"] = Submits!N(k)
    BY <1>0
  <2> QED
    BY ONLY <1>1, <2>3, <2>4, <2>5
<1>3. c[o + 1] = w[1] /\ c[o + 2] = w[2]
  <2>1. 1 \in 1 .. Len(w) /\ 2 \in 1 .. Len(w)
    BY <1>0
  <2> QED
    BY <2>1 DEF LiesAt
<1>4. Submits!N(k)[1] + 256 * Submits!N(k)[2] = k
  BY <1>0, TwoBytes
<1>5. w[1] = Submits!N(k)[1] /\ w[2] = Submits!N(k)[2]
  BY <1>2
<1> QED
  BY ONLY <1>3, <1>4, <1>5 DEF Submits!U16At

ObjectHead(kind, s) == [objectKind |-> Submits!N(kind), bytes |-> Submits!N(Len(s))]

LEMMA InlineFieldsPlaced ==
  /\ Placed(Submits!InlineFields, 16)
  /\ DOMAIN Submits!InlineFields = {"objectKind", "bytes"}
  /\ Submits!InlineFields.objectKind.kind = "u16" /\ Submits!InlineFields.objectKind.offset = 0
  /\ Submits!InlineFields.bytes.kind = "u32"
BY DEF Submits!InlineFields, Placed, Apart, Within, InBlock, Extent, Channel!Width, Submits!u32, Submits!u16

\* An inline object: a header, the bytes, padding.
ObjectLaid(kind, s, w, l) ==
  LET c == Submits!InlineObject(kind, s)
  IN  /\ c \in Strings /\ Len(s) \in Nat /\ Gap(Len(s)) \in Nat
      /\ l = 16 + Len(s) + Gap(Len(s)) /\ Len(c) = l
      /\ LiesAt(c, 0, w) /\ LiesAt(c, 16, s) /\ w \in Strings /\ Len(w) = 16
      /\ w = Submits!Written(16, Submits!InlineFields, ObjectHead(kind, s))

\* An inline object: header, bytes, padding.
LEMMA ObjectShape ==
  ASSUME NEW kind \in Nat, kind <= 65535, NEW s \in Strings
  PROVE  /\ Carries(Submits!InlineFields, ObjectHead(kind, s))
         /\ \E w, l : ObjectLaid(kind, s, w, l)
<1> DEFINE h == ObjectHead(kind, s)
           w == Submits!Written(16, Submits!InlineFields, h)
           b == w \o s
           c == Submits!InlineObject(kind, s)
<1>1. Len(s) \in Nat
  BY DEF Strings
<1>2. h.objectKind = Submits!N(kind) /\ h.bytes = Submits!N(Len(s)) /\ DOMAIN h = {"objectKind", "bytes"} /\ h = [f \in DOMAIN h |-> h[f]]
  BY DEF ObjectHead
<1>3. c = Submits!Pad8(b)
  BY DEF Submits!InlineObject, ObjectHead
<1> HIDE DEF h
<1>4. Carries(Submits!InlineFields, h)
  <2>1. /\ Submits!N(kind) \in Channel!Numbers /\ Carried("u16", Submits!N(kind))
        /\ Submits!N(Len(s)) \in Channel!Numbers /\ Carried("u32", Submits!N(Len(s)))
    BY <1>1, LengthBytes
  <2>2. ASSUME NEW f \in DOMAIN Submits!InlineFields
        PROVE  h[f] \in Channel!Numbers /\ Carried(Submits!InlineFields[f].kind, h[f])
    BY <1>2, <2>1, InlineFieldsPlaced
  <2> QED
    BY <1>2, <2>2, InlineFieldsPlaced DEF Carries
<1>5. w \in Strings /\ Len(w) = 16
  <2>0. PICK size : size = 16
    OBVIOUS
  <2>1. Placed(Submits!InlineFields, size) /\ w = Submits!Written(size, Submits!InlineFields, h)
    BY <2>0, InlineFieldsPlaced
  <2>2. h \in [DOMAIN Submits!InlineFields -> Channel!Numbers]
    BY <1>4 DEF Carries
  <2>3. Channel!Written(size, Submits!InlineFields, h) \in Strings /\ Len(Channel!Written(size, Submits!InlineFields, h)) = size
    BY <2>1, <2>2, WrittenBytes DEF Strings
  <2> QED
    BY <2>0, <2>1, <2>3, SameIntegers
<1>6. w = Submits!Written(16, Submits!InlineFields, h)
  OBVIOUS
<1> HIDE DEF w, c
<1>7. b \in Strings /\ Len(b) = 16 + Len(s) /\ LiesAt(b, 0, w) /\ LiesAt(b, 16, s)
  <2>1. b = w \o s
    OBVIOUS
  <2> HIDE DEF b
  <2>1a. w \in Strings /\ s \in Strings
    BY <1>5
  <2>1b. TwoStrings(w \o s, w, s)
    BY <2>1a, TwoStringsOf
  <2>2. TwoStrings(b, w, s)
    BY ONLY <2>1, <2>1b
  <2>3. b \in Strings /\ Len(b) = Len(w) + Len(s) /\ LiesAt(b, 0, w) /\ LiesAt(b, Len(w), s)
    BY <2>2 DEF TwoStrings
  <2> QED
    BY ONLY <1>5, <2>3
<1> HIDE DEF b
<1>8. /\ c \in Strings /\ Len(c) = Len(b) + Gap(Len(b)) /\ Len(b) \in Nat /\ \A i \in 1 .. Len(b) : c[i] = b[i]
  <2>1. b \in Strings
    BY <1>7
  <2>2. /\ Submits!Pad8(b) \in Strings /\ Len(Submits!Pad8(b)) = Len(b) + Gap(Len(b)) /\ Len(b) \in Nat
        /\ \A i \in 1 .. Len(b) : Submits!Pad8(b)[i] = b[i]
    BY <2>1, Padded DEF Gap
  <2> QED
    BY ONLY <1>3, <2>2
<1>9. Gap(Len(b)) = Gap(Len(s)) /\ Gap(Len(s)) \in Nat
  <2>1. PICK a \in Nat : a = 16
    OBVIOUS
  <2>2. a % 8 = 0
    BY <2>1
  <2>3. Gap(a + Len(s)) = Gap(Len(s)) /\ Gap(Len(s)) \in Nat
    BY <1>1, <2>1, <2>2, Aligned
  <2> QED
    BY <1>7, <2>1, <2>3
<1>10. LiesAt(c, 0, b)
  <2>1. \A i \in 1 .. Len(b) : c[0 + i] = b[i]
    BY ONLY <1>8
  <2>2. 0 \in Nat /\ 0 + Len(b) <= Len(c)
    BY ONLY <1>8, <1>9
  <2> QED
    BY <1>8, <2>1, <2>2 DEF LiesAt
<1>11. Len(c) \in Nat
  BY <1>8, <1>9
<1>12. LiesAt(c, 0 + 0, w) /\ LiesAt(c, 0 + 16, s)
  <2>1. LiesAt(b, 0, w) /\ LiesAt(b, 16, s)
    BY <1>7
  <2>2. LiesAt(c, 0 + 0, w)
    BY <1>10, <1>11, <2>1, PartOfPart
  <2>3. LiesAt(c, 0 + 16, s)
    BY <1>10, <1>11, <2>1, PartOfPart
  <2> QED
    BY <2>2, <2>3
<1>13. ObjectLaid(kind, s, w, Len(c))
  <2>1. Len(c) = 16 + Len(s) + Gap(Len(s))
    BY ONLY <1>1, <1>7, <1>8, <1>9
  <2>2. LiesAt(c, 0, w) /\ LiesAt(c, 16, s)
    BY <1>12
  <2> QED
    BY <1>1, <1>5, <1>6, <1>8, <1>9, <2>1, <2>2 DEF ObjectLaid, c, h
<1> QED
  BY <1>4, <1>13 DEF h

\* What is read where an object lies.
ObjectFound(t, o, kind, s, l) ==
  /\ Submits!ObjectLength(t, o) = Len(s) /\ Submits!U16At(t, o) = kind
  /\ SubSeq(t, o + 17, o + 16 + Len(s)) = s
  /\ l \in Nat /\ l >= 16 /\ o \in Nat /\ o + l <= Len(t)
  /\ Submits!NextObject(t, o) = o + l

\* What the reader makes of an object wherever it lies.
LEMMA ObjectRead ==
  ASSUME NEW kind \in Nat, kind <= 65535, NEW s \in Strings, NEW t \in Strings, Len(t) <= 65535,
         NEW c, c = Submits!InlineObject(kind, s), NEW o, LiesAt(t, o, c)
  PROVE  ObjectFound(t, o, kind, s, Len(c))
<1>1. PICK w, l : ObjectLaid(kind, s, w, l)
  BY ObjectShape
<1>2. /\ c \in Strings /\ Len(s) \in Nat /\ Gap(Len(s)) \in Nat
      /\ Len(c) = 16 + Len(s) + Gap(Len(s))
      /\ LiesAt(c, 0, w) /\ LiesAt(c, 16, s) /\ w \in Strings /\ Len(w) = 16
      /\ w = Submits!Written(16, Submits!InlineFields, ObjectHead(kind, s))
  BY <1>1 DEF ObjectLaid
<1>3. o \in Nat /\ Len(t) \in Nat /\ o + Len(c) <= Len(t) /\ Len(c) \in Nat
  BY DEF LiesAt, Strings
<1>4. LiesAt(t, o + 0, w) /\ LiesAt(t, o + 16, s)
  <2>1. LiesAt(t, o, c) /\ LiesAt(c, 0, w) /\ LiesAt(c, 16, s) /\ Len(t) \in Nat
    BY <1>2, <1>3
  <2>2. LiesAt(t, o + 0, w)
    BY <2>1, PartOfPart
  <2>3. LiesAt(t, o + 16, s)
    BY <2>1, PartOfPart
  <2> QED
    BY <2>2, <2>3
<1>5. LiesAt(t, o, w)
  <2>1. o + 0 = o
    BY <1>3
  <2> QED
    BY ONLY <1>4, <2>1
<1> DEFINE h == ObjectHead(kind, s)
<1>6. h.objectKind = Submits!N(kind) /\ h.bytes = Submits!N(Len(s)) /\ Carries(Submits!InlineFields, h)
  BY ObjectShape DEF ObjectHead
<1>7. PICK size \in Nat : size = 16
  OBVIOUS
<1>8. Placed(Submits!InlineFields, size) /\ w = Submits!Written(size, Submits!InlineFields, h)
  BY <1>2, <1>7, InlineFieldsPlaced
<1> HIDE DEF h
<1>9. Submits!ReadFields(SubSeq(t, o + 1, o + 16), Submits!InlineFields) = h
  <2>1. Submits!ReadFields(SubSeq(t, o + 1, o + size), Submits!InlineFields) = h
    BY <1>5, <1>6, <1>8, BlockRead
  <2> QED
    BY ONLY <1>7, <2>1
<1>10. Submits!ObjectLength(t, o) = Len(s)
  <2>1. Submits!ObjectLength(t, o) = Submits!Low(h.bytes)
    BY <1>9 DEF Submits!ObjectLength
  <2>2. Len(s) <= 65535
    BY ONLY <1>2, <1>3, Len(t) <= 65535
  <2>3. Submits!Low(Submits!N(Len(s))) = Len(s)
    BY <1>2, <2>2, LengthBytes
  <2> QED
    BY <1>6, <2>1, <2>3
<1>11. Submits!U16At(t, o) = kind
  <2>1. 2 <= size /\ Len(w) = size
    BY <1>2, <1>7
  <2>2. h["objectKind"] = Submits!N(kind)
    BY <1>6
  <2>3. /\ "objectKind" \in DOMAIN Submits!InlineFields /\ Submits!InlineFields["objectKind"].offset = 0
        /\ Submits!InlineFields["objectKind"].kind = "u16"
    BY InlineFieldsPlaced
  <2>4. KindAtHead(Submits!InlineFields, size, h, kind, w)
    BY <1>7, <1>8, <2>1, <2>2, <2>3 DEF KindAtHead
  <2> QED
    BY <1>5, <2>4, KindRead
<1>12. SubSeq(t, o + 17, o + 16 + Len(s)) = s
  <2>1. SubSeq(t, (o + 16) + 1, (o + 16) + Len(s)) = s
    BY <1>4, FoundThere
  <2>2. (o + 16) + 1 = o + 17
    BY <1>3
  <2> QED
    BY ONLY <2>1, <2>2
<1>13. Len(c) \in Nat /\ Len(c) >= 16 /\ o < Len(t)
  BY ONLY <1>2, <1>3
<1>14. Submits!NextObject(t, o) = o + Len(c)
  <2>1. Submits!NextObject(t, o) = o + 16 + Len(s) + Gap(Len(s))
    <3>1. ~(o >= Len(t))
      BY <1>3, <1>13
    <3> QED
      BY <1>10, <3>1 DEF Submits!NextObject, Gap
  <2> QED
    BY ONLY <1>2, <1>3, <2>1
<1> QED
  BY <1>3, <1>10, <1>11, <1>12, <1>13, <1>14 DEF ObjectFound

\* Three strings one behind the other.
ThreeParts(t, a, b, c) ==
  /\ t \in Strings /\ Len(t) = Len(a) + Len(b) + Len(c) /\ Len(a) \in Nat /\ Len(b) \in Nat /\ Len(c) \in Nat
  /\ LiesAt(t, 0, a) /\ LiesAt(t, Len(a), b) /\ LiesAt(t, Len(a) + Len(b), c)

LEMMA ThreePartsOf ==
  ASSUME NEW a \in Strings, NEW b \in Strings, NEW c \in Strings, NEW t, t = a \o b \o c
  PROVE  ThreeParts(t, a, b, c)
<1>1. /\ <<>> \in Strings /\ t = t \o <<>>
  <2>1. <<>> \in Strings /\ a \o b \in Strings
    BY Nothing, Behind
  <2>2. (a \o b) \o c \in Strings
    BY <2>1, Behind
  <2>3. t \in Seq(Channel!Bytes)
    BY <2>2 DEF Strings
  <2> QED
    BY <2>1, <2>3
<1>2. t = a \o b \o c \o <<>>
  BY ONLY <1>1, t = a \o b \o c
<1>3. FourParts(t, a, b, c, <<>>)
  BY <1>1, <1>2, PartsOfFour
<1>4. Len(a) \in Nat /\ Len(b) \in Nat /\ Len(c) \in Nat /\ Len(<<>>) = 0
  BY DEF Strings
<1>5. Len(t) = Len(a) + Len(b) + Len(c) + Len(<<>>) /\ t \in Strings
  BY <1>3 DEF FourParts
<1>6. Len(t) = Len(a) + Len(b) + Len(c)
  BY ONLY <1>4, <1>5
<1> QED
  BY <1>3, <1>4, <1>5, <1>6 DEF FourParts, ThreeParts

\* Stepping from one part that is there to the next.
Steps(n, l1, l2, l3, l) ==
  /\ l1 \in Nat /\ l2 \in Nat /\ l3 \in Nat /\ l = l1 + l2 + l3
  /\ l1 # 0 => n[0] = l1
  /\ l2 # 0 => n[l1] = l1 + l2
  /\ l3 # 0 => n[l1 + l2] = l
  /\ n[l] = l

\* Up to three parts, of which some may be empty: where they begin.
LEMMA ThreeStarts ==
  ASSUME NEW n, NEW l1, NEW l2, NEW l3, NEW l, Steps(n, l1, l2, l3, l), NEW x
  PROVE  (x \in {0, n[0], n[n[0]]} /\ x < l) <=> ((l1 # 0 /\ x = 0) \/ (l2 # 0 /\ x = l1) \/ (l3 # 0 /\ x = l1 + l2))
<1>1. /\ l1 \in Nat /\ l2 \in Nat /\ l3 \in Nat /\ l = l1 + l2 + l3
      /\ l1 # 0 => n[0] = l1
      /\ l2 # 0 => n[l1] = l1 + l2
      /\ l3 # 0 => n[l1 + l2] = l
      /\ n[l] = l
  BY DEF Steps
<1>2. CASE l1 = 0
  <2>1. CASE l2 = 0
    <3>1. l1 + l2 = 0 /\ l = l3
      BY ONLY <1>1, <1>2, <2>1
    <3>2. n[0] = l
      BY ONLY <1>1, <3>1
    <3> QED
      BY ONLY <1>1, <1>2, <2>1, <3>1, <3>2
  <2>2. CASE l2 # 0
    <3>1. n[0] = l2 /\ l1 + l2 = l2 /\ l = l2 + l3
      BY ONLY <1>1, <1>2, <2>2
    <3>2. n[l2] = l
      BY ONLY <1>1, <3>1
    <3> QED
      BY ONLY <1>1, <1>2, <2>2, <3>1, <3>2
  <2> QED
    BY <2>1, <2>2
<1>3. CASE l1 # 0
  <2>1. CASE l2 = 0
    <3>1. n[0] = l1 /\ l1 + l2 = l1 /\ l = l1 + l3
      BY ONLY <1>1, <1>3, <2>1
    <3>2. n[l1] = l
      BY ONLY <1>1, <3>1
    <3> QED
      BY ONLY <1>1, <1>3, <2>1, <3>1, <3>2
  <2>2. CASE l2 # 0
    <3>1. n[0] = l1 /\ n[l1] = l1 + l2
      BY ONLY <1>1, <1>3, <2>2
    <3> QED
      BY ONLY <1>1, <1>3, <2>2, <3>1
  <2> QED
    BY <2>1, <2>2
<1> QED
  BY <1>2, <1>3

ObjectKinds == {1, 2, 3}

\* Where the parts of a region begin.
Begin(p, k) == CASE k = 1 -> 0 [] k = 2 -> Len(p[1]) [] k = 3 -> Len(p[1]) + Len(p[2])

Joined(p) == p[1] \o p[2] \o p[3]

\* A region of objects, each of them there or not.
RegionOf(t, p, s) ==
  /\ \A k \in ObjectKinds : s[k] \in Strings /\ (p[k] = <<>> \/ p[k] = Submits!InlineObject(k, s[k]))
  /\ t = Joined(p) /\ Len(t) <= 65535

PartFound(t, p, s, k) ==
  /\ p[k] \in Strings /\ Len(p[k]) \in Nat /\ (p[k] = <<>> <=> Len(p[k]) = 0)
  /\ p[k] # <<>> => ObjectFound(t, Begin(p, k), k, s[k], Len(p[k]))

LEMMA KindsAre ==
  /\ 1 \in ObjectKinds /\ 2 \in ObjectKinds /\ 3 \in ObjectKinds
  /\ \A k \in ObjectKinds : k \in Nat /\ k <= 65535 /\ (k = 1 \/ k = 2 \/ k = 3)
BY DEF ObjectKinds

LEMMA PartIsString ==
  ASSUME NEW p, NEW s, NEW t, RegionOf(t, p, s), NEW k \in ObjectKinds
  PROVE  p[k] \in Strings /\ s[k] \in Strings /\ (p[k] = <<>> \/ p[k] = Submits!InlineObject(k, s[k]))
<1>1. s[k] \in Strings /\ (p[k] = <<>> \/ p[k] = Submits!InlineObject(k, s[k])) /\ k \in Nat /\ k <= 65535
  BY KindsAre DEF RegionOf
<1>2. Submits!InlineObject(k, s[k]) \in Strings
  <2>1. PICK w, l : ObjectLaid(k, s[k], w, l)
    BY <1>1, ObjectShape
  <2> QED
    BY <2>1 DEF ObjectLaid
<1> QED
  BY <1>1, <1>2, Nothing

\* The inline region is the parts of the three slots.
LEMMA RegionLaid ==
  ASSUME NEW p, NEW s, NEW t, RegionOf(t, p, s)
  PROVE  ThreeParts(t, p[1], p[2], p[3])
<1>1. p[1] \in Strings /\ p[2] \in Strings /\ p[3] \in Strings
  BY KindsAre, PartIsString
<1>2. t = p[1] \o p[2] \o p[3]
  BY DEF RegionOf, Joined
<1> QED
  BY <1>1, <1>2, ThreePartsOf

\* Each part that is there is found at its place.
LEMMA PartsFound ==
  ASSUME NEW p, NEW s, NEW t, RegionOf(t, p, s), NEW k \in ObjectKinds
  PROVE  PartFound(t, p, s, k)
<1>1. t \in Strings /\ Len(t) <= 65535
  <2>1. t \in Strings
    BY RegionLaid DEF ThreeParts
  <2>2. Len(t) <= 65535
    BY DEF RegionOf
  <2> QED
    BY <2>1, <2>2
<1>2. p[k] \in Strings
  BY PartIsString
<1>3. Len(p[k]) \in Nat /\ (p[k] = <<>> <=> Len(p[k]) = 0)
  <2>1. PICK c \in Strings : c = p[k]
    BY <1>2
  <2>2. Len(c) \in Nat /\ (c = <<>> <=> Len(c) = 0)
    BY DEF Strings
  <2> QED
    BY ONLY <2>1, <2>2
<1>4. ASSUME p[k] # <<>>
      PROVE  ObjectFound(t, Begin(p, k), k, s[k], Len(p[k]))
  <2>1. LiesAt(t, Begin(p, k), p[k])
    <3>1. LiesAt(t, 0, p[1]) /\ LiesAt(t, Len(p[1]), p[2]) /\ LiesAt(t, Len(p[1]) + Len(p[2]), p[3])
      BY RegionLaid DEF ThreeParts
    <3>2. CASE k = 1
      <4>1. Begin(p, 1) = 0
        BY DEF Begin
      <4> QED
        BY ONLY <3>1, <3>2, <4>1
    <3>3. CASE k = 2
      <4>1. Begin(p, 2) = Len(p[1])
        BY DEF Begin
      <4> QED
        BY ONLY <3>1, <3>3, <4>1
    <3>4. CASE k = 3
      <4>1. Begin(p, 3) = Len(p[1]) + Len(p[2])
        BY DEF Begin
      <4> QED
        BY ONLY <3>1, <3>4, <4>1
    <3> QED
      BY <3>2, <3>3, <3>4, KindsAre
  <2>2. p[k] = Submits!InlineObject(k, s[k]) /\ s[k] \in Strings /\ k \in Nat /\ k <= 65535
    BY <1>4, PartIsString, KindsAre
  <2>3. PICK c : c = p[k]
    OBVIOUS
  <2>4. LiesAt(t, Begin(p, k), c) /\ c = Submits!InlineObject(k, s[k])
    BY ONLY <2>1, <2>2, <2>3
  <2>5. ObjectFound(t, Begin(p, k), k, s[k], Len(c))
    BY <1>1, <2>2, <2>4, ObjectRead
  <2> QED
    BY ONLY <2>3, <2>5
<1> QED
  BY <1>2, <1>3, <1>4 DEF PartFound

\* The reader steps from object to object, past no other byte.
LEMMA StartsOf ==
  ASSUME NEW p, NEW s, NEW t, RegionOf(t, p, s), NEW x
  PROVE  x \in Submits!ObjectStarts(t) <=> \E k \in ObjectKinds : p[k] # <<>> /\ x = Begin(p, k)
<1> DEFINE n == [y \in Nat |-> Submits!NextObject(t, y)]
           l(k) == Len(p[k])
<1>2. Len(t) = l(1) + l(2) + l(3) /\ l(1) \in Nat /\ l(2) \in Nat /\ l(3) \in Nat
  BY RegionLaid DEF ThreeParts
<1>3. ASSUME NEW k \in ObjectKinds
      PROVE  /\ p[k] = <<>> <=> l(k) = 0
             /\ l(k) # 0 => Submits!NextObject(t, Begin(p, k)) = Begin(p, k) + l(k)
  <2>1. PartFound(t, p, s, k)
    BY PartsFound
  <2>2. (p[k] = <<>> <=> l(k) = 0) /\ (p[k] # <<>> => ObjectFound(t, Begin(p, k), k, s[k], l(k)))
    BY <2>1 DEF PartFound
  <2>3. ObjectFound(t, Begin(p, k), k, s[k], l(k)) => Submits!NextObject(t, Begin(p, k)) = Begin(p, k) + l(k)
    BY DEF ObjectFound
  <2> QED
    BY ONLY <2>2, <2>3
<1>3a. Begin(p, 1) = 0 /\ Begin(p, 2) = l(1) /\ Begin(p, 3) = l(1) + l(2)
  BY DEF Begin
<1> HIDE DEF l
<1>4. /\ l(1) # 0 => Submits!NextObject(t, 0) = l(1)
      /\ l(2) # 0 => Submits!NextObject(t, l(1)) = l(1) + l(2)
      /\ l(3) # 0 => Submits!NextObject(t, l(1) + l(2)) = Len(t)
  <2>1. /\ l(1) # 0 => Submits!NextObject(t, Begin(p, 1)) = Begin(p, 1) + l(1)
        /\ l(2) # 0 => Submits!NextObject(t, Begin(p, 2)) = Begin(p, 2) + l(2)
        /\ l(3) # 0 => Submits!NextObject(t, Begin(p, 3)) = Begin(p, 3) + l(3)
    BY <1>3, KindsAre
  <2>2. 0 + l(1) = l(1)
    BY <1>2
  <2> QED
    BY ONLY <1>2, <1>3a, <2>1, <2>2
<1>5. Submits!NextObject(t, Len(t)) = Len(t)
  <2>1. Len(t) >= Len(t)
    BY <1>2
  <2> QED
    BY <2>1 DEF Submits!NextObject
<1>6. n[0] = Submits!NextObject(t, 0) /\ n[l(1)] = Submits!NextObject(t, l(1))
        /\ n[l(1) + l(2)] = Submits!NextObject(t, l(1) + l(2)) /\ n[Len(t)] = Submits!NextObject(t, Len(t))
        /\ (n[0] \in Nat => n[n[0]] = Submits!NextObject(t, n[0]))
  <2>1. \A y \in Nat : n[y] = Submits!NextObject(t, y)
    OBVIOUS
  <2>2. 0 \in Nat /\ l(1) + l(2) \in Nat /\ l(1) \in Nat /\ Len(t) \in Nat
    BY <1>2
  <2> HIDE DEF n
  <2> QED
    BY ONLY <2>1, <2>2
<1> HIDE DEF n
<1>7. Steps(n, l(1), l(2), l(3), Len(t))
  BY <1>2, <1>4, <1>5, <1>6 DEF Steps
<1>8. (x \in {0, n[0], n[n[0]]} /\ x < Len(t))
        <=> ((l(1) # 0 /\ x = 0) \/ (l(2) # 0 /\ x = l(1)) \/ (l(3) # 0 /\ x = l(1) + l(2)))
  BY <1>7, ThreeStarts
<1>9. n[0] \in Nat
  <2>0. /\ l(1) # 0 => n[0] = l(1)
        /\ l(2) # 0 => n[l(1)] = l(1) + l(2)
        /\ l(3) # 0 => n[l(1) + l(2)] = Len(t)
        /\ n[Len(t)] = Len(t)
    BY ONLY <1>4, <1>5, <1>6
  <2>1. CASE l(1) # 0
    BY ONLY <1>2, <2>0, <2>1
  <2>2. CASE l(1) = 0 /\ l(2) # 0
    BY ONLY <1>2, <2>0, <2>2
  <2>3. CASE l(1) = 0 /\ l(2) = 0
    <3>1. l(1) + l(2) = 0 /\ Len(t) = l(3)
      BY ONLY <1>2, <2>3
    <3> QED
      BY ONLY <1>2, <2>0, <3>1
  <2> QED
    BY ONLY <2>1, <2>2, <2>3
<1>10. x \in Submits!ObjectStarts(t) <=> (x \in {0, n[0], n[n[0]]} /\ x < Len(t))
  <2>1. n[0] = Submits!NextObject(t, 0) /\ n[n[0]] = Submits!NextObject(t, Submits!NextObject(t, 0))
    BY <1>6, <1>9
  <2> QED
    BY <2>1 DEF Submits!ObjectStarts
<1>11. (\E k \in ObjectKinds : p[k] # <<>> /\ x = Begin(p, k))
         <=> ((l(1) # 0 /\ x = 0) \/ (l(2) # 0 /\ x = l(1)) \/ (l(3) # 0 /\ x = l(1) + l(2)))
  <2>1. (\E k \in ObjectKinds : p[k] # <<>> /\ x = Begin(p, k))
          <=> ((p[1] # <<>> /\ x = Begin(p, 1)) \/ (p[2] # <<>> /\ x = Begin(p, 2)) \/ (p[3] # <<>> /\ x = Begin(p, 3)))
    BY ONLY KindsAre
  <2>2. (p[1] = <<>> <=> l(1) = 0) /\ (p[2] = <<>> <=> l(2) = 0) /\ (p[3] = <<>> <=> l(3) = 0)
    BY <1>3, KindsAre
  <2> QED
    BY ONLY <1>3a, <2>1, <2>2
<1> QED
  BY ONLY <1>8, <1>10, <1>11

\* What is read of a region of objects.
RegionSays(t, p, s) ==
  /\ \A start \in Submits!ObjectStarts(t) : \E k \in ObjectKinds : p[k] # <<>> /\ Submits!U16At(t, start) = k
  /\ \A k \in ObjectKinds : Submits!ObjectOf(t, k) = IF p[k] = <<>> THEN <<>> ELSE s[k]

\* The reader finds the object of each slot that has one, and no other.
LEMMA RegionRead ==
  ASSUME NEW p, NEW s, NEW t, RegionOf(t, p, s)
  PROVE  RegionSays(t, p, s)
<1>1. \A k \in ObjectKinds : p[k] # <<>> => ObjectFound(t, Begin(p, k), k, s[k], Len(p[k]))
  <2> TAKE k \in ObjectKinds
  <2>1. PartFound(t, p, s, k)
    BY PartsFound
  <2> QED
    BY <2>1 DEF PartFound
<1>2. \A k \in ObjectKinds : p[k] # <<>> => Submits!U16At(t, Begin(p, k)) = k
  <2>1. \A k : ObjectFound(t, Begin(p, k), k, s[k], Len(p[k])) => Submits!U16At(t, Begin(p, k)) = k
    BY DEF ObjectFound
  <2> QED
    BY ONLY <1>1, <2>1
<1>3. \A x : x \in Submits!ObjectStarts(t) <=> \E k \in ObjectKinds : p[k] # <<>> /\ x = Begin(p, k)
  <2> TAKE x
  <2> QED
    BY StartsOf
<1>4. \A start \in Submits!ObjectStarts(t) : \E k \in ObjectKinds : p[k] # <<>> /\ Submits!U16At(t, start) = k
  BY ONLY <1>2, <1>3
<1>5. ASSUME NEW k \in ObjectKinds
      PROVE  Submits!ObjectOf(t, k) = IF p[k] = <<>> THEN <<>> ELSE s[k]
  <2> DEFINE found == {start \in Submits!ObjectStarts(t) : Submits!U16At(t, start) = k}
             first == CHOOSE start \in found : TRUE
  <2>1. \A x : x \in found <=> p[k] # <<>> /\ x = Begin(p, k)
    <3>1. ASSUME NEW x \in found
          PROVE  p[k] # <<>> /\ x = Begin(p, k)
      <4>1. PICK j \in ObjectKinds : p[j] # <<>> /\ x = Begin(p, j)
        BY <1>3
      <4>2. Submits!U16At(t, x) = j /\ Submits!U16At(t, x) = k
        BY <1>2, <4>1
      <4>3. j = k
        BY ONLY <4>2
      <4> QED
        BY ONLY <4>1, <4>3
    <3>2. ASSUME NEW x, p[k] # <<>>, x = Begin(p, k)
          PROVE  x \in found
      BY <1>2, <1>3, <3>2
    <3> HIDE DEF found
    <3> QED
      BY <3>1, <3>2
  <2>2. Submits!ObjectOf(t, k)
          = IF found = {} THEN <<>> ELSE SubSeq(t, first + 17, first + 16 + Submits!ObjectLength(t, first))
    BY DEF Submits!ObjectOf
  <2> HIDE DEF found
  <2>3. CASE p[k] = <<>>
    <3>1. found = {}
      BY <2>1, <2>3
    <3> QED
      BY ONLY <2>2, <2>3, <3>1
  <2>4. CASE p[k] # <<>>
    <3>1. Begin(p, k) \in found /\ found # {}
      BY <2>1, <2>4
    <3>2. first \in found
      BY <3>1
    <3> HIDE DEF first
    <3>3. first = Begin(p, k)
      BY <2>1, <3>2
    <3>4. ObjectFound(t, Begin(p, k), k, s[k], Len(p[k]))
      BY <1>1, <2>4
    <3>5. /\ Submits!ObjectLength(t, Begin(p, k)) = Len(s[k])
          /\ SubSeq(t, Begin(p, k) + 17, Begin(p, k) + 16 + Len(s[k])) = s[k]
      BY ONLY <3>4 DEF ObjectFound
    <3>6. Submits!ObjectOf(t, k) = SubSeq(t, first + 17, first + 16 + Submits!ObjectLength(t, first))
      BY ONLY <2>2, <3>1
    <3>7. Submits!ObjectOf(t, k) = s[k]
      BY ONLY <3>3, <3>5, <3>6
    <3> QED
      BY ONLY <2>4, <3>7
  <2> QED
    BY <2>3, <2>4
<1> QED
  BY <1>4, <1>5 DEF RegionSays

\* A block of a reference.
ReferenceOf(slot) ==
  [objectKind |-> Submits!N(Submits!SlotKind[slot]), refFlags |-> Submits!Zero, cacheNamespace |-> Submits!N(1),
   cacheKeyHi |-> Submits!Zero, cacheKeyLo |-> Submits!N(9)]

LEMMA SlotsAre ==
  /\ DOMAIN Submits!SlotKind = {"camera", "tileIndex", "tensorSectionTable"}
  /\ Submits!SlotKind["camera"] = 1 /\ Submits!SlotKind["tileIndex"] = 2 /\ Submits!SlotKind["tensorSectionTable"] = 3
BY DEF Submits!SlotKind

\* A reference block names the kind of its slot.
LEMMA ReferenceShape ==
  ASSUME NEW slot \in DOMAIN Submits!SlotKind, NEW c, c = Submits!ReferenceBlock(slot)
  PROVE  /\ c \in Strings /\ Len(c) = 24
         /\ \A t, o : LiesAt(t, o, c) => Submits!U16At(t, o) = Submits!SlotKind[slot]
<1> DEFINE m == ReferenceOf(slot)
           k == Submits!SlotKind[slot]
<1>0. PICK size : size = 24
  OBVIOUS
<1>1. c = Submits!Written(size, Submits!ObjectReferenceBlockW, m)
  BY <1>0 DEF Submits!ReferenceBlock, ReferenceOf
<1>2. k \in Nat /\ k <= 65535
  BY SlotsAre
<1>3. /\ m["objectKind"] = Submits!N(k)
      /\ DOMAIN m = {"objectKind", "refFlags", "cacheNamespace", "cacheKeyHi", "cacheKeyLo"} /\ m = [f \in DOMAIN m |-> m[f]]
      /\ m["refFlags"] = Submits!Zero /\ m["cacheNamespace"] = Submits!N(1) /\ m["cacheKeyHi"] = Submits!Zero
      /\ m["cacheKeyLo"] = Submits!N(9)
  BY DEF ReferenceOf
<1> HIDE DEF m, k
<1>4. /\ DOMAIN Submits!ObjectReferenceBlockW = {"objectKind", "refFlags", "cacheNamespace", "cacheKeyHi", "cacheKeyLo"}
      /\ Submits!ObjectReferenceBlockW["objectKind"].offset = 0 /\ Submits!ObjectReferenceBlockW["objectKind"].kind = "u16"
  BY DEF Submits!ObjectReferenceBlockW, Submits!u16
<1>5. m \in [DOMAIN Submits!ObjectReferenceBlockW -> Channel!Numbers]
  <2>1. Submits!N(k) \in Channel!Numbers /\ Submits!N(1) \in Channel!Numbers /\ Submits!N(9) \in Channel!Numbers
    BY <1>2, LengthBytes
  <2>2. \A f \in DOMAIN m : m[f] \in Channel!Numbers
    BY <1>3, <2>1, ZeroBytes
  <2> QED
    BY <1>3, <1>4, <2>2
<1>6. Placed(Submits!ObjectReferenceBlockW, size)
  BY <1>0, ObjectReferenceBlockSound, SameTables DEF Sound
<1>7. c \in Strings /\ Len(c) = size
  BY <1>1, <1>5, <1>6, WrittenBytes, SameIntegers DEF Strings
<1>8. KindAtHead(Submits!ObjectReferenceBlockW, size, m, k, c)
  <2>1. size \in Nat /\ 2 <= size
    BY <1>0
  <2> QED
    BY <1>1, <1>2, <1>3, <1>4, <1>6, <1>7, <2>1 DEF KindAtHead
<1>9. ASSUME NEW t, NEW o, LiesAt(t, o, c)
      PROVE  Submits!U16At(t, o) = k
  BY <1>8, <1>9, KindRead
<1> QED
  BY <1>0, <1>7, <1>9 DEF k

\* Blocks of 24 bytes, each there or not.
ZeroOr24(l) == l = 0 \/ l = 24

OffsetsAre(l1, l2, l3, x) ==
  (\E i \in 1 .. ((l1 + l2 + l3) \div 24) : x = 24 * (i - 1))
    <=> ((l1 # 0 /\ x = 0) \/ (l2 # 0 /\ x = l1) \/ (l3 # 0 /\ x = l1 + l2))

\* Reference blocks lie at multiples of their length, those of other slots being empty.
LEMMA BlockOffsets ==
  ASSUME NEW l1, NEW l2, NEW l3, ZeroOr24(l1), ZeroOr24(l2), ZeroOr24(l3), NEW x
  PROVE  OffsetsAre(l1, l2, l3, x)
<1>1. (l1 = 0 \/ l1 = 24) /\ (l2 = 0 \/ l2 = 24) /\ (l3 = 0 \/ l3 = 24)
  BY DEF ZeroOr24
<1>a. SUFFICES (\E i \in 1 .. ((l1 + l2 + l3) \div 24) : x = 24 * (i - 1))
                 <=> ((l1 # 0 /\ x = 0) \/ (l2 # 0 /\ x = l1) \/ (l3 # 0 /\ x = l1 + l2))
  BY DEF OffsetsAre
<1> DEFINE n == (l1 + l2 + l3) \div 24
<1>2. CASE l1 + l2 + l3 = 0
  <2>1. n = 0
    BY <1>2
  <2> HIDE DEF n
  <2>2. ~ \E i \in 1 .. n : x = 24 * (i - 1)
    BY <2>1
  <2> QED
    BY <1>1, <1>2, <2>2 DEF n
<1>3. CASE l1 + l2 + l3 = 24
  <2>1. n = 1
    BY <1>3
  <2> HIDE DEF n
  <2>2. (\E i \in 1 .. n : x = 24 * (i - 1)) <=> x = 0
    BY <2>1
  <2>3. ((l1 # 0 /\ x = 0) \/ (l2 # 0 /\ x = l1) \/ (l3 # 0 /\ x = l1 + l2)) <=> x = 0
    <3>1. \/ l1 = 24 /\ l2 = 0 /\ l3 = 0
          \/ l1 = 0 /\ l2 = 24 /\ l3 = 0
          \/ l1 = 0 /\ l2 = 0 /\ l3 = 24
      BY ONLY <1>1, <1>3
    <3>2. CASE l1 = 24 /\ l2 = 0 /\ l3 = 0
      BY ONLY <3>2
    <3>3. CASE l1 = 0 /\ l2 = 24 /\ l3 = 0
      BY ONLY <3>3
    <3>4. CASE l1 = 0 /\ l2 = 0 /\ l3 = 24
      BY ONLY <3>4
    <3> QED
      BY ONLY <3>1, <3>2, <3>3, <3>4
  <2> QED
    BY ONLY <2>2, <2>3 DEF n
<1>4. CASE l1 + l2 + l3 = 48
  <2>1. n = 2
    BY <1>4
  <2> HIDE DEF n
  <2>2. (\E i \in 1 .. n : x = 24 * (i - 1)) <=> (x = 0 \/ x = 24)
    <3>1. \A i : i \in 1 .. n <=> i = 1 \/ i = 2
      BY <2>1
    <3> QED
      BY ONLY <3>1
  <2> QED
    BY <1>1, <1>4, <2>2 DEF n
<1>5. CASE l1 + l2 + l3 = 72
  <2>1. n = 3
    BY <1>5
  <2> HIDE DEF n
  <2>2. (\E i \in 1 .. n : x = 24 * (i - 1)) <=> (x = 0 \/ x = 24 \/ x = 48)
    <3>1. \A i : i \in 1 .. n <=> i = 1 \/ i = 2 \/ i = 3
      BY <2>1
    <3> QED
      BY ONLY <3>1
  <2> QED
    BY <1>1, <1>5, <2>2 DEF n
<1> QED
  BY <1>1, <1>2, <1>3, <1>4, <1>5

\* A tensor input as the builder lets it through.
GoodTensors(in) ==
  /\ in.kind = "tensor" /\ Tiles(in) /\ in.camera \in Strings /\ in.refs \subseteq DOMAIN Submits!SlotKind
  /\ in.sections \in Seq(Submits!Sections) /\ Len(in.sections) <= 65535
  /\ GoodTable(in.sections, Len(in.sections), Len(in.tileIds))

LEMMA ModesAre ==
  /\ Submits!Modes["DenseRange"] = 0 /\ Submits!Modes["RawU16"] = 1 /\ Submits!Modes["DeltaU16"] = 2 /\ Submits!Modes["Bitset"] = 3
  /\ DOMAIN Submits!Modes = {"DenseRange", "RawU16", "DeltaU16", "Bitset"}
BY DEF Submits!Modes

LEMMA EmptyString ==
  ASSUME NEW c \in Strings, Len(c) = 0
  PROVE  c = <<>>
BY DEF Strings

LEMMA NoIntegers == Submits!U16Bytes(<<>>) = <<>>
<1>0. <<>> \in Seq(Int)
  OBVIOUS
<1>1. PICK s : s = <<>>
  OBVIOUS
<1>2. PICK c : c = Submits!U16Bytes(s)
  OBVIOUS
<1>3. s \in Seq(Int) /\ \A i \in 1 .. Len(s) : 0 <= s[i] /\ s[i] <= 65535
  BY ONLY <1>0, <1>1
<1>4. c \in Strings /\ Len(c) = 2 * Len(s)
  BY ONLY <1>2, <1>3, U16Table
<1>5. Len(s) = 0
  BY <1>1
<1>6. c \in Strings /\ Len(c) = 0
  BY ONLY <1>4, <1>5
<1> QED
  BY <1>1, <1>2, <1>6, EmptyString

\* No tiles, no bytes.
LEMMA NoTiles ==
  ASSUME NEW in, Tiles(in), in.tileIds = <<>>
  PROVE  Submits!TileIndices(in.tileIds, in.mode) = <<>>
<1> DEFINE ids == in.tileIds
           c == Submits!TileIndices(ids, in.mode)
<1>1. ids \in Seq(Int) /\ in.mode \in {"DenseRange", "RawU16", "DeltaU16", "Bitset"} /\ Len(ids) = 0
  BY ModesAre DEF Tiles
<1>2. CASE in.mode = "DenseRange"
  BY <1>2 DEF Submits!TileIndices
<1>3. CASE in.mode = "RawU16"
  <2>1. c = Submits!U16Bytes(<<>>)
    BY <1>3 DEF Submits!TileIndices
  <2> QED
    BY <2>1, NoIntegers
<1>4. CASE in.mode = "DeltaU16"
  <2> DEFINE ds == Submits!Deltas(ids)
  <2>1. c = Submits!U16Bytes(ds)
    BY <1>4 DEF Submits!TileIndices
  <2>2. ds = <<>>
    BY <1>1 DEF Submits!Deltas
  <2> HIDE DEF ds, c
  <2>3. c = Submits!U16Bytes(<<>>)
    BY ONLY <2>1, <2>2
  <2> QED
    BY <2>3, NoIntegers DEF c
<1>5. CASE in.mode = "Bitset"
  <2>1. c = [k \in 1 .. (IF ids = <<>> THEN 0 ELSE Submits!Last(ids) \div 8 + 1) |-> Submits!BitsetByte(ids, k)]
    BY <1>5 DEF Submits!TileIndices
  <2>2. c = [k \in 1 .. 0 |-> Submits!BitsetByte(ids, k)]
    BY <2>1
  <2> QED
    BY <2>2
<1> QED
  BY <1>1, <1>2, <1>3, <1>4, <1>5

\* The objects of a tensor request are strings, and empty when there is nothing to say.
ObjectsKnown(in, o) ==
  /\ o["camera"] = in.camera /\ o["tileIndex"] = Submits!TileIndices(in.tileIds, in.mode)
  /\ o["tensorSectionTable"] = Submits!SectionTable(in.sections)
  /\ o["camera"] \in Strings /\ o["tileIndex"] \in Strings /\ o["tensorSectionTable"] \in Strings
  /\ in.tileIds = <<>> => o["tileIndex"] = <<>>
  /\ in.sections = <<>> => o["tensorSectionTable"] = <<>>

\* The objects a tensor request carries.
LEMMA ObjectsOf ==
  ASSUME NEW in, GoodTensors(in), NEW o, o = Submits!TensorObjects(in)
  PROVE  ObjectsKnown(in, o)
<1>1. /\ o["camera"] = in.camera /\ o["tileIndex"] = Submits!TileIndices(in.tileIds, in.mode)
      /\ o["tensorSectionTable"] = Submits!SectionTable(in.sections)
  BY DEF Submits!TensorObjects
<1>2. Submits!TileIndices(in.tileIds, in.mode) \in Strings
  <2>1. Tiles(in) /\ in.mode \in {"DenseRange", "RawU16", "DeltaU16", "Bitset"}
    BY ModesAre DEF GoodTensors, Tiles
  <2>2. CASE in.mode = "DenseRange"
    BY <2>1, <2>2, DenseTiles
  <2>3. CASE in.mode = "RawU16"
    BY <2>1, <2>3, RawTiles
  <2>4. CASE in.mode = "DeltaU16"
    BY <2>1, <2>4, DeltaTiles
  <2>5. CASE in.mode = "Bitset"
    BY <2>1, <2>5, BitsetTiles
  <2> QED
    BY <2>1, <2>2, <2>3, <2>4, <2>5
<1>3. Submits!SectionTable(in.sections) \in Strings
  BY SectionsLaid DEF GoodTensors
<1>4. in.tileIds = <<>> => Submits!TileIndices(in.tileIds, in.mode) = <<>>
  BY NoTiles DEF GoodTensors
<1>5. ASSUME in.sections = <<>>
      PROVE  Submits!SectionTable(in.sections) = <<>>
  <2>1. PICK n, at : n = Len(in.sections) /\ TableLaid(in.sections, n, at)
    BY SectionsLaid DEF GoodTensors
  <2>2. n = 0
    BY <1>5, <2>1
  <2>3. Len(Submits!SectionTable(in.sections)) = at[n] /\ at[0] = 0
    BY <2>1 DEF TableLaid
  <2>4. Len(Submits!SectionTable(in.sections)) = 0
    BY ONLY <2>2, <2>3
  <2> QED
    BY <1>3, <2>4, EmptyString
<1>6. in.camera \in Strings
  BY DEF GoodTensors
<1> QED
  BY <1>1, <1>2, <1>3, <1>4, <1>5, <1>6 DEF ObjectsKnown

\* The tile ids, read out of their object.
LEMMA TilesRead ==
  ASSUME NEW in, Tiles(in), NEW m, m.tileCount = Submits!N(Len(in.tileIds)),
         m.tileIndexMode = Submits!N(Submits!Modes[in.mode]), m.tileBaseId = Submits!N(in.base)
  PROVE  Submits!TilesRecovered(in, m, Submits!TileIndices(in.tileIds, in.mode))
<1> DEFINE ids == in.tileIds
           c == Submits!TileIndices(ids, in.mode)
<1>1. /\ Len(ids) \in Nat /\ Len(ids) <= 65535
      /\ in.mode \in {"DenseRange", "RawU16", "DeltaU16", "Bitset"}
  BY ModesAre DEF Tiles
<1>2. Submits!Low(m.tileCount) = Len(ids)
  <2> HIDE DEF ids
  <2>1. m.tileCount = Submits!N(Len(ids))
    BY DEF ids
  <2> QED
    BY <1>1, <2>1, LengthBytes
<1>3. Submits!Low(m.tileIndexMode) = Submits!Modes[in.mode]
  <2>1. PICK k \in Nat : k = Submits!Modes[in.mode] /\ k <= 65535
    BY <1>1, ModesAre
  <2>2. Submits!Low(Submits!N(k)) = k
    BY <2>1, LengthBytes
  <2> QED
    BY <2>1, <2>2
<1>4. CASE in.mode = "Bitset"
  <2>1. Submits!TilesInBitset(c) = {ids[i] : i \in 1 .. Len(ids)}
    <3>1. Tiles(in) /\ in.mode = "Bitset"
      BY <1>4
    <3>2. PICK z, d : z = in.tileIds /\ d = Submits!TileIndices(z, in.mode)
      OBVIOUS
    <3>3. BitsetSays(d, z)
      BY ONLY <3>1, <3>2, BitsetTiles
    <3> QED
      BY <3>2, <3>3 DEF BitsetSays
  <2> QED
    BY <1>4, <2>1 DEF Submits!TilesRecovered
<1>5. CASE in.mode # "Bitset"
  <2>1. Submits!ReadTiles(Submits!Low(m.tileIndexMode), Submits!Low(m.tileBaseId), Len(ids), c) = ids
    <3>1. CASE in.mode = "DenseRange"
      <4>1. Submits!ReadTiles(0, Submits!Low(Submits!N(in.base)), Len(ids), c) = ids
        BY <3>1, DenseTiles
      <4>2. Submits!Low(m.tileIndexMode) = 0
        BY <1>3, <3>1, ModesAre
      <4> QED
        BY <4>1, <4>2
    <3>2. CASE in.mode = "RawU16"
      <4>1. \A base : Submits!ReadTiles(1, base, Len(ids), c) = ids
        BY <3>2, RawTiles
      <4>2. Submits!Low(m.tileIndexMode) = 1
        BY <1>3, <3>2, ModesAre
      <4> QED
        BY <4>1, <4>2
    <3>3. CASE in.mode = "DeltaU16"
      <4>1. \A base : Submits!ReadTiles(2, base, Len(ids), c) = ids
        BY <3>3, DeltaTiles
      <4>2. Submits!Low(m.tileIndexMode) = 2
        BY <1>3, <3>3, ModesAre
      <4> QED
        BY <4>1, <4>2
    <3> QED
      BY <1>1, <1>5, <3>1, <3>2, <3>3
  <2> HIDE DEF c
  <2>2. Submits!ReadTiles(Submits!Low(m.tileIndexMode), Submits!Low(m.tileBaseId), Submits!Low(m.tileCount), c) = ids
    BY ONLY <1>2, <2>1
  <2> QED
    BY <1>5, <2>2 DEF Submits!TilesRecovered, c
<1> QED
  BY <1>4, <1>5

\* The sections, read out of theirs.
LEMMA SectionsRead ==
  ASSUME NEW in, GoodTensors(in), NEW m, m.tileCount = Submits!N(Len(in.tileIds)), m.sectionCount = Submits!N(Len(in.sections)),
         NEW table, table = Submits!SectionTable(in.sections), Len(table) <= 65535
  PROVE  Submits!SectionsRecovered(in, m, table)
<1> DEFINE ss == in.sections
           n == Len(ss)
           count == Len(in.tileIds)
<1>1. GoodTable(ss, n, count) /\ n \in Nat /\ n <= 65535 /\ count \in Nat /\ count <= 65535
  BY DEF GoodTensors, GoodTable, Tiles
<1>2. TableSays(table, ss, n, count)
  <2>1. table = Submits!SectionTable(ss)
    OBVIOUS
  <2> HIDE DEF ss, n, count
  <2> QED
    BY <1>1, <2>1, TableRead
<1>3. m.sectionCount = Submits!N(n) /\ m.tileCount = Submits!N(count)
  OBVIOUS
<1>4. n = Len(in.sections) /\ ss = in.sections
  OBVIOUS
<1> HIDE DEF ss, n, count
<1>5. Submits!Low(m.sectionCount) = n /\ Submits!Low(m.tileCount) = count
  BY <1>1, <1>3, LengthBytes
<1>6. Submits!SectionsRecovered(in, m, table)
        <=> /\ n = Len(ss)
            /\ \A i \in 1 .. n :
                 Submits!ReadSection(table, Submits!SectionStarts(table, n)[i], count) =
                   [role |-> ss[i].role, tiles |-> ss[i].tiles, codecs |-> Submits!SectionCodecs(ss[i])]
            /\ Len(table) = IF n = 0 THEN 0 ELSE Submits!SectionEnd(table, Submits!SectionStarts(table, n)[n])
  BY <1>4, <1>5 DEF Submits!SectionsRecovered
<1> QED
  BY <1>2, <1>4, <1>6 DEF TableSays

SlotNamed == <<"camera", "tileIndex", "tensorSectionTable">>

\* What a tensor request says, object by object, and how.
Said(in) == [k \in ObjectKinds |-> Submits!TensorObjects(in)[SlotNamed[k]]]
Inlined(in) == [k \in ObjectKinds |-> Submits!InlinePart(in, SlotNamed[k])]
Referred(in) == [k \in ObjectKinds |-> Submits!ReferencePart(in, SlotNamed[k])]

PartKnown(in, k) ==
  /\ Said(in)[k] \in Strings /\ Inlined(in)[k] \in Strings /\ Referred(in)[k] \in Strings
  /\ SlotNamed[k] \in DOMAIN Submits!SlotKind /\ Submits!SlotKind[SlotNamed[k]] = k
  /\ \/ Inlined(in)[k] = <<>>
     \/ SlotNamed[k] \notin in.refs /\ Inlined(in)[k] = Submits!InlineObject(k, Said(in)[k])
  /\ SlotNamed[k] \in in.refs \/ Inlined(in)[k] # <<>> \/ Said(in)[k] = <<>>
  /\ Referred(in)[k] = IF SlotNamed[k] \in in.refs THEN Submits!ReferenceBlock(SlotNamed[k]) ELSE <<>>

LEMMA NamesAre ==
  /\ SlotNamed[1] = "camera" /\ SlotNamed[2] = "tileIndex" /\ SlotNamed[3] = "tensorSectionTable"
  /\ \A slot \in DOMAIN Submits!SlotKind : \E k \in ObjectKinds : slot = SlotNamed[k]
BY SlotsAre, KindsAre DEF SlotNamed

\* The parts of a tensor request are strings.
LEMMA PartsOfTensor ==
  ASSUME NEW in, GoodTensors(in), NEW k \in ObjectKinds
  PROVE  PartKnown(in, k)
<1> DEFINE slot == SlotNamed[k]
           o == Submits!TensorObjects(in)
<1>0. /\ slot \in {"camera", "tileIndex", "tensorSectionTable"} /\ slot \in DOMAIN Submits!SlotKind
      /\ Submits!SlotKind[slot] = k /\ k \in Nat /\ k <= 65535
  BY KindsAre, NamesAre, SlotsAre
<1>1. /\ Said(in)[k] = o[slot] /\ Inlined(in)[k] = Submits!InlinePart(in, slot) /\ Referred(in)[k] = Submits!ReferencePart(in, slot)
  BY DEF Said, Inlined, Referred
<1>2. ObjectsKnown(in, o)
  BY ObjectsOf
<1> HIDE DEF slot, o
<1>3. o[slot] \in Strings
  BY <1>0, <1>2 DEF ObjectsKnown
<1>4. Submits!InlinePart(in, slot) = IF Submits!HasObject(in, slot) THEN Submits!InlineObject(k, o[slot]) ELSE <<>>
  BY <1>0 DEF Submits!InlinePart, o
<1>5. Submits!HasObject(in, slot) => slot \notin in.refs
  BY DEF Submits!HasObject
<1>6. slot \in in.refs \/ Submits!HasObject(in, slot) \/ o[slot] = <<>>
  <2>1. CASE slot = "camera"
    BY <1>2, <2>1 DEF Submits!HasObject, ObjectsKnown
  <2>2. CASE slot = "tileIndex"
    BY <1>2, <2>2 DEF Submits!HasObject, ObjectsKnown
  <2>3. CASE slot = "tensorSectionTable"
    BY <1>2, <2>3 DEF Submits!HasObject, ObjectsKnown
  <2> QED
    BY <1>0, <2>1, <2>2, <2>3
<1>7. Submits!InlineObject(k, o[slot]) \in Strings /\ Submits!InlineObject(k, o[slot]) # <<>>
  <2>1. PICK w, l : ObjectLaid(k, o[slot], w, l)
    BY <1>0, <1>3, ObjectShape
  <2>2. /\ Submits!InlineObject(k, o[slot]) \in Strings /\ Len(o[slot]) \in Nat /\ Gap(Len(o[slot])) \in Nat
        /\ Len(Submits!InlineObject(k, o[slot])) = 16 + Len(o[slot]) + Gap(Len(o[slot]))
    BY <2>1 DEF ObjectLaid
  <2>3. Len(Submits!InlineObject(k, o[slot])) # 0
    BY ONLY <2>2
  <2>4. Len(<<>>) = 0
    OBVIOUS
  <2> QED
    BY <2>2, <2>3, <2>4
<1>8. Submits!ReferencePart(in, slot) = IF slot \in in.refs THEN Submits!ReferenceBlock(slot) ELSE <<>>
  BY DEF Submits!ReferencePart
<1>9. Submits!ReferencePart(in, slot) \in Strings
  <2>1. Submits!ReferenceBlock(slot) \in Strings
    BY <1>0, ReferenceShape
  <2> QED
    BY <1>8, <2>1, Nothing
<1>10. Submits!InlinePart(in, slot) \in Strings
  BY <1>4, <1>7, Nothing
<1> QED
  BY <1>0, <1>1, <1>3, <1>4, <1>5, <1>6, <1>7, <1>8, <1>9, <1>10 DEF PartKnown, slot

\* The fields of its metadata the reader needs.
TensorFields(in, m) ==
  /\ m.tileCount = Submits!N(Len(in.tileIds)) /\ m.sectionCount = Submits!N(Len(in.sections))
  /\ m.tileIndexMode = Submits!N(Submits!Modes[in.mode]) /\ m.tileBaseId = Submits!N(in.base)

\* What createTensorSubmitRequest() puts together can be encoded.
LEMMA TensorIsRequest ==
  ASSUME NEW in, GoodTensors(in), NEW r, r = Submits!TensorRequest(in)
  PROVE  /\ IsRequest(r) /\ TensorFields(in, r.metadata)
         /\ r.body = Submits!Body(Joined(Inlined(in)), Joined(Referred(in)), <<>>, <<>>)
<1> DEFINE inline == Joined(Inlined(in))
           references == Joined(Referred(in))
           bit(slot, b) == IF slot \in in.refs THEN b ELSE 0
           g0 == Submits!PlainMetadata
           v1 == Submits!N(16)
           v2 == Submits!N(4)
           v3 == Submits!N(1)
           v4 == Submits!N(1)
           v5 == Submits!N(Len(in.tileIds))
           v6 == Submits!N(Len(in.sections))
           v7 == Submits!N(Submits!Modes[in.mode])
           v8 == Submits!N(in.base)
           v9 == Submits!N(IF "camera" \in in.refs THEN 0 ELSE Len(in.camera))
           v10 == Submits!N(IF "tileIndex" \in in.refs THEN 0 ELSE Len(Submits!TensorObjects(in).tileIndex))
           v11 == Submits!N(IF references = <<>> THEN 0 ELSE IF inline = <<>> THEN 1 ELSE 2)
           v12 == Submits!N(bit("camera", 1) + bit("tileIndex", 2) + bit("tensorSectionTable", 4))
           g1 == [g0 EXCEPT !.srcWidth = v1]
           g2 == [g1 EXCEPT !.tileWidth = v2]
           g3 == [g2 EXCEPT !.inputProfile = v3]
           g4 == [g3 EXCEPT !.payloadKindBitmap = v4]
           g5 == [g4 EXCEPT !.tileCount = v5]
           g6 == [g5 EXCEPT !.sectionCount = v6]
           g7 == [g6 EXCEPT !.tileIndexMode = v7]
           g8 == [g7 EXCEPT !.tileBaseId = v8]
           g9 == [g8 EXCEPT !.cameraBytes = v9]
           g10 == [g9 EXCEPT !.tileIndexBytes = v10]
           g11 == [g10 EXCEPT !.submitMode = v11]
           g12 == [g11 EXCEPT !.objectRefMask = v12]
           body == Submits!Body(inline, references, <<>>, <<>>)
<1>1. /\ inline = Submits!InlinePart(in, "camera") \o Submits!InlinePart(in, "tileIndex") \o Submits!InlinePart(in, "tensorSectionTable")
      /\ references =
           Submits!ReferencePart(in, "camera") \o Submits!ReferencePart(in, "tileIndex") \o Submits!ReferencePart(in, "tensorSectionTable")
  <2>1. /\ Inlined(in)[1] = Submits!InlinePart(in, SlotNamed[1]) /\ Inlined(in)[2] = Submits!InlinePart(in, SlotNamed[2])
        /\ Inlined(in)[3] = Submits!InlinePart(in, SlotNamed[3])
    BY KindsAre DEF Inlined
  <2>2. /\ Referred(in)[1] = Submits!ReferencePart(in, SlotNamed[1]) /\ Referred(in)[2] = Submits!ReferencePart(in, SlotNamed[2])
        /\ Referred(in)[3] = Submits!ReferencePart(in, SlotNamed[3])
    BY KindsAre DEF Referred
  <2>3. inline = Inlined(in)[1] \o Inlined(in)[2] \o Inlined(in)[3]
    BY DEF Joined
  <2>4. references = Referred(in)[1] \o Referred(in)[2] \o Referred(in)[3]
    BY DEF Joined
  <2>5. SlotNamed[1] = "camera" /\ SlotNamed[2] = "tileIndex" /\ SlotNamed[3] = "tensorSectionTable"
    BY NamesAre
  <2> HIDE DEF inline, references
  <2> QED
    BY ONLY <2>1, <2>2, <2>3, <2>4, <2>5
<1> HIDE DEF inline, references
<1>2. r = [kind |-> "built", metadata |-> g12, body |-> body]
  BY <1>1 DEF Submits!TensorRequest
<1>3. /\ v1 \in Channel!Numbers /\ v2 \in Channel!Numbers /\ v3 \in Channel!Numbers /\ v4 \in Channel!Numbers /\ Submits!Fits(v4, 4)
      /\ v5 \in Channel!Numbers /\ v6 \in Channel!Numbers /\ v7 \in Channel!Numbers /\ v8 \in Channel!Numbers
      /\ v9 \in Channel!Numbers /\ v10 \in Channel!Numbers /\ v11 \in Channel!Numbers /\ v12 \in Channel!Numbers
  <2>1. v1 \in Channel!Numbers /\ v2 \in Channel!Numbers /\ v3 \in Channel!Numbers /\ v4 \in Channel!Numbers
    BY LengthBytes
  <2>2. Submits!Fits(v4, 4)
    BY NumeralFacts, SameIntegers
  <2>3. v5 \in Channel!Numbers /\ v6 \in Channel!Numbers
    <3>1. Len(in.tileIds) \in Nat /\ Len(in.sections) \in Nat
      BY DEF GoodTensors, Tiles
    <3> QED
      BY <3>1, LengthBytes
  <2>4. v7 \in Channel!Numbers /\ v8 \in Channel!Numbers
    <3>1. Submits!Modes[in.mode] \in Nat /\ in.base \in Int
      BY ModesAre DEF GoodTensors, Tiles
    <3>2. v7 \in Channel!Numbers
      BY <3>1, LengthBytes
    <3>3. v8 \in Channel!Numbers
      BY <3>1, IntegerBytes
    <3> QED
      BY <3>2, <3>3
  <2>5. v9 \in Channel!Numbers /\ v10 \in Channel!Numbers
    <3>1. in.camera \in Strings /\ Submits!TensorObjects(in).tileIndex \in Strings
      BY ObjectsOf DEF GoodTensors, ObjectsKnown
    <3>2. Len(in.camera) \in Nat /\ Len(Submits!TensorObjects(in).tileIndex) \in Nat
      BY <3>1 DEF Strings
    <3>3. PICK x \in Nat : x = IF "camera" \in in.refs THEN 0 ELSE Len(in.camera)
      BY <3>2
    <3>4. PICK y \in Nat : y = IF "tileIndex" \in in.refs THEN 0 ELSE Len(Submits!TensorObjects(in).tileIndex)
      BY <3>2
    <3>5. Submits!N(x) \in Channel!Numbers /\ Submits!N(y) \in Channel!Numbers
      BY LengthBytes
    <3> QED
      BY <3>3, <3>4, <3>5
  <2>6. v11 \in Channel!Numbers /\ v12 \in Channel!Numbers
    <3>1. PICK x \in Nat : x = IF references = <<>> THEN 0 ELSE IF inline = <<>> THEN 1 ELSE 2
      OBVIOUS
    <3>2. PICK y \in Nat : y = bit("camera", 1) + bit("tileIndex", 2) + bit("tensorSectionTable", 4)
      OBVIOUS
    <3>3. Submits!N(x) \in Channel!Numbers /\ Submits!N(y) \in Channel!Numbers
      BY LengthBytes
    <3> QED
      BY <3>1, <3>2, <3>3
  <2> QED
    BY <2>1, <2>2, <2>3, <2>4, <2>5, <2>6
<1>4. /\ v5 = Submits!N(Len(in.tileIds)) /\ v6 = Submits!N(Len(in.sections))
      /\ v7 = Submits!N(Submits!Modes[in.mode]) /\ v8 = Submits!N(in.base)
  OBVIOUS
<1> HIDE DEF v1, v2, v3, v4, v5, v6, v7, v8, v9, v10, v11, v12
<1>5. PICK F : F = DOMAIN Submits!FrameSubmitW
  OBVIOUS
<1>6. "payloadKindBitmap" \in F /\ "tileCount" \in F /\ "sectionCount" \in F /\ "tileIndexMode" \in F /\ "tileBaseId" \in F
  BY <1>5, PlainIsNumbers
<1>7. g0 \in [F -> Channel!Numbers]
  BY <1>5, PlainIsNumbers
<1> HIDE DEF g0
<1>8. g1 \in [F -> Channel!Numbers]
  BY <1>3, <1>6, <1>7, Changed
<1> HIDE DEF g1
<1>9. g2 \in [F -> Channel!Numbers]
  BY <1>3, <1>6, <1>8, Changed
<1> HIDE DEF g2
<1>10. g3 \in [F -> Channel!Numbers]
  BY <1>3, <1>6, <1>9, Changed
<1> HIDE DEF g3
<1>11. g4 \in [F -> Channel!Numbers] /\ g4.payloadKindBitmap = v4
  BY <1>3, <1>6, <1>10, Changed
<1> HIDE DEF g4
<1>12. g5 \in [F -> Channel!Numbers] /\ g5.payloadKindBitmap = v4 /\ g5.tileCount = v5
  BY <1>3, <1>6, <1>11, Changed
<1> HIDE DEF g5
<1>13. g6 \in [F -> Channel!Numbers] /\ g6.payloadKindBitmap = v4 /\ g6.tileCount = v5 /\ g6.sectionCount = v6
  BY <1>3, <1>6, <1>12, Changed
<1> HIDE DEF g6
<1>14. g7 \in [F -> Channel!Numbers] /\ g7.payloadKindBitmap = v4 /\ g7.tileCount = v5 /\ g7.sectionCount = v6 /\ g7.tileIndexMode = v7
  BY <1>3, <1>6, <1>13, Changed
<1> HIDE DEF g7
<1>15. g8 \in [F -> Channel!Numbers] /\ g8.payloadKindBitmap = v4 /\ g8.tileCount = v5 /\ g8.sectionCount = v6 /\ g8.tileIndexMode = v7 /\ g8.tileBaseId = v8
  BY <1>3, <1>6, <1>14, Changed
<1> HIDE DEF g8
<1>16. g9 \in [F -> Channel!Numbers] /\ g9.payloadKindBitmap = v4 /\ g9.tileCount = v5 /\ g9.sectionCount = v6 /\ g9.tileIndexMode = v7 /\ g9.tileBaseId = v8
  BY <1>3, <1>6, <1>15, Changed
<1> HIDE DEF g9
<1>17. g10 \in [F -> Channel!Numbers] /\ g10.payloadKindBitmap = v4 /\ g10.tileCount = v5 /\ g10.sectionCount = v6 /\ g10.tileIndexMode = v7 /\ g10.tileBaseId = v8
  BY <1>3, <1>6, <1>16, Changed
<1> HIDE DEF g10
<1>18. g11 \in [F -> Channel!Numbers] /\ g11.payloadKindBitmap = v4 /\ g11.tileCount = v5 /\ g11.sectionCount = v6 /\ g11.tileIndexMode = v7 /\ g11.tileBaseId = v8
  BY <1>3, <1>6, <1>17, Changed
<1> HIDE DEF g11
<1>19. g12 \in [F -> Channel!Numbers] /\ g12.payloadKindBitmap = v4 /\ g12.tileCount = v5 /\ g12.sectionCount = v6 /\ g12.tileIndexMode = v7 /\ g12.tileBaseId = v8
  BY <1>3, <1>6, <1>18, Changed
<1>20. body \in Strings
  <2>1. inline \in Strings /\ references \in Strings
    <3>1. PartKnown(in, 1) /\ PartKnown(in, 2) /\ PartKnown(in, 3)
      BY KindsAre, PartsOfTensor
    <3>2. /\ Inlined(in)[1] \in Strings /\ Inlined(in)[2] \in Strings /\ Inlined(in)[3] \in Strings
          /\ Referred(in)[1] \in Strings /\ Referred(in)[2] \in Strings /\ Referred(in)[3] \in Strings
      BY <3>1 DEF PartKnown
    <3>3. ThreeParts(inline, Inlined(in)[1], Inlined(in)[2], Inlined(in)[3])
      BY <3>2, ThreePartsOf DEF inline, Joined
    <3>4. ThreeParts(references, Referred(in)[1], Referred(in)[2], Referred(in)[3])
      BY <3>2, ThreePartsOf DEF references, Joined
    <3> QED
      BY <3>3, <3>4 DEF ThreeParts
  <2>2. body = Submits!Body(inline, references, <<>>, <<>>)
    OBVIOUS
  <2> HIDE DEF body
  <2>3. PICK size : size = 32
    OBVIOUS
  <2>4. <<>> \in Strings
    BY Nothing
  <2>5. Laid(body, size, inline, references, <<>>, <<>>)
    BY <2>1, <2>2, <2>3, <2>4, BodyShape
  <2> QED
    BY <2>5 DEF Laid
<1> HIDE DEF g12
<1>21. body = Submits!Body(Joined(Inlined(in)), Joined(Referred(in)), <<>>, <<>>)
  BY DEF inline, references
<1> HIDE DEF body
<1>22. r.metadata = g12 /\ r.body = body /\ r = [kind |-> "built", metadata |-> r.metadata, body |-> r.body]
  BY <1>2
<1>23. IsRequest(r)
  BY <1>3, <1>5, <1>19, <1>20, <1>22 DEF IsRequest
<1>24. TensorFields(in, r.metadata)
  BY ONLY <1>4, <1>19, <1>22 DEF TensorFields
<1> QED
  BY <1>21, <1>22, <1>23, <1>24

\* The slots given by reference are the kinds among the reference blocks.
LEMMA ReferencesRead ==
  ASSUME NEW in, GoodTensors(in), NEW t, t = Joined(Referred(in))
  PROVE  Submits!ReferencesRecovered(in, t)
<1> DEFINE q(k) == Referred(in)[k]
           l(k) == Len(q(k))
           given(k) == SlotNamed[k] \in in.refs
<1>1. ASSUME NEW k \in ObjectKinds
      PROVE  /\ q(k) \in Strings /\ SlotNamed[k] \in DOMAIN Submits!SlotKind /\ Submits!SlotKind[SlotNamed[k]] = k
             /\ ZeroOr24(l(k)) /\ (given(k) <=> l(k) # 0)
             /\ \A o : l(k) # 0 /\ LiesAt(t, o, q(k)) => Submits!U16At(t, o) = k
  <2>1. /\ q(k) \in Strings /\ SlotNamed[k] \in DOMAIN Submits!SlotKind /\ Submits!SlotKind[SlotNamed[k]] = k
        /\ q(k) = IF given(k) THEN Submits!ReferenceBlock(SlotNamed[k]) ELSE <<>>
    BY PartsOfTensor DEF PartKnown
  <2> HIDE DEF q, given
  <2>2. CASE given(k)
    <3>1. q(k) = Submits!ReferenceBlock(SlotNamed[k])
      BY <2>1, <2>2
    <3>2. PICK c : c = q(k)
      OBVIOUS
    <3>3. Len(c) = 24 /\ \A o : LiesAt(t, o, c) => Submits!U16At(t, o) = Submits!SlotKind[SlotNamed[k]]
      BY <2>1, <3>1, <3>2, ReferenceShape
    <3>4. l(k) = 24 /\ \A o : LiesAt(t, o, q(k)) => Submits!U16At(t, o) = k
      BY ONLY <2>1, <3>2, <3>3 DEF l
    <3> QED
      BY ONLY <2>1, <2>2, <3>4 DEF ZeroOr24
  <2>3. CASE ~given(k)
    <3>1. q(k) = <<>>
      BY <2>1, <2>3
    <3>2. l(k) = 0
      BY <3>1
    <3> HIDE DEF l
    <3> QED
      BY ONLY <2>1, <2>3, <3>2 DEF ZeroOr24
  <2> QED
    BY <2>2, <2>3
<1>2. t = q(1) \o q(2) \o q(3)
  BY DEF Joined
<1> HIDE DEF q
<1>3. ThreeParts(t, q(1), q(2), q(3))
  <2>1. q(1) \in Strings /\ q(2) \in Strings /\ q(3) \in Strings
    BY <1>1, KindsAre
  <2> QED
    BY <1>2, <2>1, ThreePartsOf
<1>4. /\ Len(t) = l(1) + l(2) + l(3)
      /\ LiesAt(t, 0, q(1)) /\ LiesAt(t, l(1), q(2)) /\ LiesAt(t, l(1) + l(2), q(3))
  BY <1>3 DEF ThreeParts
<1> HIDE DEF l, given
<1>5. /\ ZeroOr24(l(1)) /\ ZeroOr24(l(2)) /\ ZeroOr24(l(3))
      /\ l(1) # 0 => Submits!U16At(t, 0) = 1
      /\ l(2) # 0 => Submits!U16At(t, l(1)) = 2
      /\ l(3) # 0 => Submits!U16At(t, l(1) + l(2)) = 3
  BY <1>1, <1>4, KindsAre
<1>6. \A x : (\E i \in 1 .. (Len(t) \div 24) : x = 24 * (i - 1))
               <=> ((l(1) # 0 /\ x = 0) \/ (l(2) # 0 /\ x = l(1)) \/ (l(3) # 0 /\ x = l(1) + l(2)))
  <2> TAKE x
  <2>1. OffsetsAre(l(1), l(2), l(3), x)
    BY <1>5, BlockOffsets
  <2> QED
    BY ONLY <1>4, <2>1 DEF OffsetsAre
<1> DEFINE n == Len(t) \div 24
           v(x) == Submits!U16At(t, x)
<1>7. ASSUME NEW k \in ObjectKinds
      PROVE  (\E i \in 1 .. n : v(24 * (i - 1)) = k) <=> l(k) # 0
  <2>1. \A x : (\E i \in 1 .. n : x = 24 * (i - 1))
                 <=> ((l(1) # 0 /\ x = 0) \/ (l(2) # 0 /\ x = l(1)) \/ (l(3) # 0 /\ x = l(1) + l(2)))
    BY <1>6
  <2>2. /\ l(1) # 0 => v(0) = 1
        /\ l(2) # 0 => v(l(1)) = 2
        /\ l(3) # 0 => v(l(1) + l(2)) = 3
    BY <1>5
  <2>3. (\E i \in 1 .. n : v(24 * (i - 1)) = k) <=> (\E x : (\E i \in 1 .. n : x = 24 * (i - 1)) /\ v(x) = k)
    <3> HIDE DEF n, v
    <3> QED
      OBVIOUS
  <2> HIDE DEF n, v
  <2>4. (\E x : (\E i \in 1 .. n : x = 24 * (i - 1)) /\ v(x) = k)
          <=> (\E x : ((l(1) # 0 /\ x = 0) \/ (l(2) # 0 /\ x = l(1)) \/ (l(3) # 0 /\ x = l(1) + l(2))) /\ v(x) = k)
    BY ONLY <2>1
  <2>5. (\E x : ((l(1) # 0 /\ x = 0) \/ (l(2) # 0 /\ x = l(1)) \/ (l(3) # 0 /\ x = l(1) + l(2))) /\ v(x) = k)
          <=> ((l(1) # 0 /\ v(0) = k) \/ (l(2) # 0 /\ v(l(1)) = k) \/ (l(3) # 0 /\ v(l(1) + l(2)) = k))
    BY ONLY TRUE
  <2>6. k = 1 \/ k = 2 \/ k = 3
    BY KindsAre
  <2>7. ((l(1) # 0 /\ v(0) = k) \/ (l(2) # 0 /\ v(l(1)) = k) \/ (l(3) # 0 /\ v(l(1) + l(2)) = k)) <=> l(k) # 0
    <3>1. CASE k = 1
      BY ONLY <2>2, <3>1
    <3>2. CASE k = 2
      BY ONLY <2>2, <3>2
    <3>3. CASE k = 3
      BY ONLY <2>2, <3>3
    <3> QED
      BY ONLY <2>6, <3>1, <3>2, <3>3
  <2> QED
    BY ONLY <2>3, <2>4, <2>5, <2>7
<1>8. ASSUME NEW slot \in DOMAIN Submits!SlotKind
      PROVE  (\E i \in 1 .. n : v(24 * (i - 1)) = Submits!SlotKind[slot]) <=> slot \in in.refs
  <2>1. PICK k \in ObjectKinds : slot = SlotNamed[k]
    BY NamesAre
  <2>2. Submits!SlotKind[slot] = k /\ (slot \in in.refs <=> l(k) # 0)
    BY <1>1, <2>1 DEF given
  <2> HIDE DEF n, v
  <2>3. (\E i \in 1 .. n : v(24 * (i - 1)) = k) <=> l(k) # 0
    BY <1>7
  <2> QED
    BY ONLY <2>2, <2>3
<1>9. in.refs \subseteq DOMAIN Submits!SlotKind
  BY DEF GoodTensors
<1>10. {slot \in DOMAIN Submits!SlotKind : \E i \in 1 .. n : v(24 * (i - 1)) = Submits!SlotKind[slot]} = in.refs
  <2> HIDE DEF n, v
  <2> QED
    BY ONLY <1>8, <1>9
<1> QED
  BY <1>10 DEF Submits!ReferencesRecovered

\* What the receiver finds in a tensor request.
TensorsFound(in, r) ==
  LET inline == Submits!Region(r.body, "inline")
  IN  /\ \A start \in Submits!ObjectStarts(inline) :
           \E slot \in DOMAIN Submits!SlotKind \ in.refs : Submits!U16At(inline, start) = Submits!SlotKind[slot]
      /\ Submits!ReferencesRecovered(in, Submits!Region(r.body, "references"))
      /\ "camera" \notin in.refs => Submits!ObjectOf(inline, 1) = in.camera
      /\ "tileIndex" \notin in.refs => Submits!TilesRecovered(in, r.metadata, Submits!ObjectOf(inline, 2))
      /\ "tensorSectionTable" \notin in.refs => Submits!SectionsRecovered(in, r.metadata, Submits!ObjectOf(inline, 3))

\* The reader finds in a tensor request what was submitted.
LEMMA TensorsOfRequest ==
  ASSUME NEW in, GoodTensors(in), NEW r, r = Submits!TensorRequest(in), Submits!ValidBody(r.metadata, r.body)
  PROVE  TensorsFound(in, r)
<1> DEFINE p == Inlined(in)
           s == Said(in)
           t == Joined(p)
           refs == Joined(Referred(in))
           m == r.metadata
           b == r.body
<1>1. /\ TensorFields(in, m) /\ b = Submits!Body(t, refs, <<>>, <<>>) /\ Submits!ValidBody(m, b)
  BY TensorIsRequest
<1>2. ASSUME NEW k \in ObjectKinds
      PROVE  PartKnown(in, k)
  BY PartsOfTensor
<1>3. ASSUME NEW k \in ObjectKinds
      PROVE  /\ s[k] \in Strings /\ p[k] \in Strings /\ Referred(in)[k] \in Strings
             /\ SlotNamed[k] \in DOMAIN Submits!SlotKind /\ Submits!SlotKind[SlotNamed[k]] = k
             /\ p[k] = <<>> \/ (SlotNamed[k] \notin in.refs /\ p[k] = Submits!InlineObject(k, s[k]))
             /\ SlotNamed[k] \in in.refs \/ p[k] # <<>> \/ s[k] = <<>>
  BY <1>2 DEF PartKnown
<1>4. /\ s[1] = in.camera /\ s[2] = Submits!TileIndices(in.tileIds, in.mode) /\ s[3] = Submits!SectionTable(in.sections)
  <2>1. s[1] = Submits!TensorObjects(in)[SlotNamed[1]] /\ s[2] = Submits!TensorObjects(in)[SlotNamed[2]]
        /\ s[3] = Submits!TensorObjects(in)[SlotNamed[3]]
    BY KindsAre DEF Said
  <2>2. ObjectsKnown(in, Submits!TensorObjects(in))
    BY ObjectsOf
  <2>3. /\ Submits!TensorObjects(in)["camera"] = in.camera
        /\ Submits!TensorObjects(in)["tileIndex"] = Submits!TileIndices(in.tileIds, in.mode)
        /\ Submits!TensorObjects(in)["tensorSectionTable"] = Submits!SectionTable(in.sections)
    BY <2>2 DEF ObjectsKnown
  <2>4. SlotNamed[1] = "camera" /\ SlotNamed[2] = "tileIndex" /\ SlotNamed[3] = "tensorSectionTable"
    BY NamesAre
  <2> HIDE DEF s
  <2> QED
    BY ONLY <2>1, <2>3, <2>4
<1>5. refs = Joined(Referred(in)) /\ t = Joined(p)
  OBVIOUS
<1> HIDE DEF p, s, t, refs, m, b
<1>6. t \in Strings /\ refs \in Strings /\ <<>> \in Strings
  <2>1. p[1] \in Strings /\ p[2] \in Strings /\ p[3] \in Strings
    BY <1>3, KindsAre
  <2>2. Referred(in)[1] \in Strings /\ Referred(in)[2] \in Strings /\ Referred(in)[3] \in Strings
    BY <1>3, KindsAre
  <2>3. ThreeParts(t, p[1], p[2], p[3])
    BY <1>5, <2>1, ThreePartsOf DEF Joined
  <2>4. ThreeParts(refs, Referred(in)[1], Referred(in)[2], Referred(in)[3])
    BY <1>5, <2>2, ThreePartsOf DEF Joined
  <2> QED
    BY <2>3, <2>4, Nothing DEF ThreeParts
<1>7. Submits!Region(b, "inline") = t /\ Submits!Region(b, "references") = refs /\ Len(t) <= 65535
  BY <1>1, <1>6, BodyRegions
<1>8. RegionOf(t, p, s)
  <2>1. \A k \in ObjectKinds : s[k] \in Strings /\ (p[k] = <<>> \/ p[k] = Submits!InlineObject(k, s[k]))
    BY <1>3
  <2>2. t = Joined(p)
    BY <1>5
  <2>3. Len(t) <= 65535
    BY <1>7
  <2> QED
    BY ONLY <2>1, <2>2, <2>3 DEF RegionOf
<1>9. RegionSays(t, p, s)
  BY <1>8, RegionRead
<1>10. ASSUME NEW k \in ObjectKinds, SlotNamed[k] \notin in.refs
       PROVE  Submits!ObjectOf(t, k) = s[k]
  <2>1. Submits!ObjectOf(t, k) = IF p[k] = <<>> THEN <<>> ELSE s[k]
    BY <1>9 DEF RegionSays
  <2>2. p[k] # <<>> \/ s[k] = <<>>
    BY <1>3, <1>10
  <2> QED
    BY ONLY <2>1, <2>2
<1>11. ASSUME NEW start \in Submits!ObjectStarts(t)
       PROVE  \E slot \in DOMAIN Submits!SlotKind \ in.refs : Submits!U16At(t, start) = Submits!SlotKind[slot]
  <2>1. PICK k \in ObjectKinds : p[k] # <<>> /\ Submits!U16At(t, start) = k
    BY <1>9 DEF RegionSays
  <2>2. SlotNamed[k] \in DOMAIN Submits!SlotKind /\ SlotNamed[k] \notin in.refs /\ Submits!SlotKind[SlotNamed[k]] = k
    BY <1>3, <2>1
  <2> QED
    BY <2>1, <2>2
<1>12. Submits!ReferencesRecovered(in, refs)
  BY <1>5, ReferencesRead
<1>13. ASSUME "camera" \notin in.refs
       PROVE  Submits!ObjectOf(t, 1) = in.camera
  <2>1. 1 \in ObjectKinds /\ SlotNamed[1] \notin in.refs
    BY <1>13, KindsAre, NamesAre
  <2>2. Submits!ObjectOf(t, 1) = s[1]
    BY <1>10, <2>1
  <2> QED
    BY ONLY <1>4, <2>2
<1>14. ASSUME "tileIndex" \notin in.refs
       PROVE  Submits!TilesRecovered(in, m, Submits!ObjectOf(t, 2))
  <2>1. 2 \in ObjectKinds /\ SlotNamed[2] \notin in.refs
    BY <1>14, KindsAre, NamesAre
  <2>2. Submits!ObjectOf(t, 2) = s[2]
    BY <1>10, <2>1
  <2>3. Submits!ObjectOf(t, 2) = Submits!TileIndices(in.tileIds, in.mode)
    BY ONLY <1>4, <2>2
  <2>4. /\ m.tileCount = Submits!N(Len(in.tileIds)) /\ m.tileIndexMode = Submits!N(Submits!Modes[in.mode])
        /\ m.tileBaseId = Submits!N(in.base) /\ Tiles(in)
    BY <1>1 DEF TensorFields, GoodTensors
  <2>5. Submits!TilesRecovered(in, m, Submits!TileIndices(in.tileIds, in.mode))
    BY <2>4, TilesRead
  <2> QED
    BY <2>3, <2>5
<1>15. ASSUME "tensorSectionTable" \notin in.refs
       PROVE  Submits!SectionsRecovered(in, m, Submits!ObjectOf(t, 3))
  <2>1. 3 \in ObjectKinds /\ SlotNamed[3] \notin in.refs
    BY <1>15, KindsAre, NamesAre
  <2>2. Submits!ObjectOf(t, 3) = s[3]
    BY <1>10, <2>1
  <2>3. PICK table : table = Submits!ObjectOf(t, 3)
    OBVIOUS
  <2>4. table = Submits!SectionTable(in.sections) /\ table = s[3]
    BY ONLY <1>4, <2>2, <2>3
  <2>5. Len(table) <= 65535
    <3>1. CASE p[3] = <<>>
      <4>1. table = <<>>
        BY <1>3, <2>1, <2>4, <3>1
      <4> QED
        BY <4>1
    <3>2. CASE p[3] # <<>>
      <4>1. p[3] = Submits!InlineObject(3, s[3]) /\ s[3] \in Strings
        BY <1>3, <2>1, <3>2
      <4>2. PICK w, l : ObjectLaid(3, s[3], w, l)
        BY <4>1, ObjectShape
      <4>3. PICK a1, a2, a3, x, g, n :
                a1 = Len(p[1]) /\ a2 = Len(p[2]) /\ a3 = Len(p[3]) /\ x = Len(s[3]) /\ g = Gap(x) /\ n = Len(t)
        OBVIOUS
      <4>4. x \in Nat /\ g \in Nat /\ a3 = 16 + x + g
        <5>1. /\ Len(s[3]) \in Nat /\ Gap(Len(s[3])) \in Nat
              /\ Len(Submits!InlineObject(3, s[3])) = 16 + Len(s[3]) + Gap(Len(s[3]))
          BY <4>2 DEF ObjectLaid
        <5> QED
          BY ONLY <4>1, <4>3, <5>1
      <4>5. n = a1 + a2 + a3 /\ a1 \in Nat /\ a2 \in Nat
        <5>1. Len(t) = Len(p[1]) + Len(p[2]) + Len(p[3]) /\ Len(p[1]) \in Nat /\ Len(p[2]) \in Nat
          BY <1>8, RegionLaid DEF ThreeParts
        <5> QED
          BY ONLY <4>3, <5>1
      <4>6. n <= 65535
        BY <1>7, <4>3
      <4>7. x <= 65535
        BY ONLY <4>4, <4>5, <4>6
      <4> QED
        BY ONLY <2>4, <4>3, <4>7
    <3> QED
      BY <3>1, <3>2
  <2>6. m.tileCount = Submits!N(Len(in.tileIds)) /\ m.sectionCount = Submits!N(Len(in.sections))
    BY <1>1 DEF TensorFields
  <2>6a. table = Submits!SectionTable(in.sections)
    BY <2>4
  <2>7. Submits!SectionsRecovered(in, m, table)
    BY <2>6a, <2>5, <2>6, SectionsRead
  <2> QED
    BY <2>3, <2>7
<1> QED
  BY <1>7, <1>11, <1>12, <1>13, <1>14, <1>15 DEF TensorsFound, m, b

LEMMA SubmitValuesFit == \A in \in Inputs : Submits!WellFormed(in)
BY SubmitAssumption

\* What the builders take is what the lemmas above speak of.
LEMMA FramesAreGood ==
  ASSUME NEW in, Submits!WellFormed(in), Submits!Buildable(in), in.kind = "typed"
  PROVE  AreFrames(in.frames) /\ Len(in.frames) <= 65535
<1>1. in.frames \in Seq(Submits!Frames) /\ \A i \in 1 .. Len(in.frames) : in.frames[i].payloadKind <= 65535
  BY DEF Submits!WellFormed
<1>2. Len(in.frames) <= 65535 /\ \A i \in 1 .. Len(in.frames) : Submits!OnePayloadKind(Submits!N(in.frames[i].payloadKind))
  BY DEF Submits!Buildable
<1>3. \A i \in 1 .. Len(in.frames) : in.frames[i] \in Submits!Frames
  BY <1>1
<1>4. \A i \in 1 .. Len(in.frames) : GoodFrame(in.frames[i])
  BY <1>1, <1>2, <1>3 DEF GoodFrame
<1> QED
  BY <1>1, <1>2, <1>4 DEF AreFrames

LEMMA TensorsAreGood ==
  ASSUME NEW in, Submits!WellFormed(in), Submits!Buildable(in), in.kind = "tensor"
  PROVE  GoodTensors(in)
<1>1. /\ in.tileIds \in Seq(Int) /\ in.mode \in DOMAIN Submits!Modes /\ in.base \in Int
      /\ in.camera \in Seq(Submits!Bytes) /\ in.sections \in Seq(Submits!Sections)
      /\ in.refs \subseteq DOMAIN Submits!SlotKind
  BY DEF Submits!WellFormed
<1>2. /\ Len(in.tileIds) <= 65535 /\ Len(in.sections) <= 65535
      /\ Submits!TilesFit(in.tileIds, in.mode, in.base) /\ Submits!SectionsFit(in.sections, Len(in.tileIds))
  BY DEF Submits!Buildable
<1>3. in.camera \in Strings
  BY <1>1 DEF Strings, Submits!Bytes, Channel!Bytes
<1>4. Tiles(in)
  BY <1>1, <1>2 DEF Tiles
<1>5. Len(in.tileIds) \in Nat /\ Len(in.sections) \in Nat
  BY <1>1
<1>6. ASSUME NEW i \in 1 .. Len(in.sections)
      PROVE  SectionFacts(in.sections[i], Len(in.tileIds))
  <2>1. in.sections[i] \in Submits!Sections
    BY <1>1
  <2>2. Submits!SectionFits(in.sections[i], Len(in.tileIds))
    BY <1>2 DEF Submits!SectionsFit
  <2>3. GoodSection(in.sections[i], Len(in.tileIds))
    BY <2>1, <2>2 DEF GoodSection
  <2> QED
    BY <1>5, <2>3, GoodSections
<1>7. GoodTable(in.sections, Len(in.sections), Len(in.tileIds))
  BY <1>5, <1>6 DEF GoodTable
<1> QED
  BY <1>1, <1>2, <1>3, <1>4, <1>7 DEF GoodTensors

\* A request a builder returns.
Returned(in, r) ==
  /\ IsRequest(r) /\ Submits!ValidFrameSubmit(r.metadata) /\ Submits!ValidBody(r.metadata, r.body)
  /\ \/ in.kind = "typed" /\ r = Submits!TypedRequest(in) /\ AreFrames(in.frames) /\ Len(in.frames) <= 65535
     \/ in.kind = "tensor" /\ r = Submits!TensorRequest(in) /\ GoodTensors(in)

\* What the builders return.
LEMMA BuiltIsReturned ==
  ASSUME NEW in, Submits!WellFormed(in), NEW r, r = Submits!BuildRequest(in), r # Submits!Refused
  PROVE  Returned(in, r)
<1>1. in.kind = "typed" \/ in.kind = "tensor"
  BY DEF Submits!WellFormed
<1>2. /\ r = IF in.kind = "typed" THEN Submits!TypedRequest(in) ELSE Submits!TensorRequest(in)
      /\ Submits!Buildable(in) /\ Submits!ValidFrameSubmit(r.metadata) /\ Submits!ValidBody(r.metadata, r.body)
  BY DEF Submits!BuildRequest
<1>3. CASE in.kind = "typed"
  <2>1. AreFrames(in.frames) /\ Len(in.frames) <= 65535
    BY <1>2, <1>3, FramesAreGood
  <2>2. r = Submits!TypedRequest(in)
    BY <1>2, <1>3
  <2>3. IsRequest(Submits!TypedRequest(in))
    BY <1>3, <2>1, TypedIsRequest
  <2>4. IsRequest(r)
    BY ONLY <2>2, <2>3
  <2> QED
    BY ONLY <1>2, <1>3, <2>1, <2>2, <2>4 DEF Returned
<1>4. CASE in.kind = "tensor"
  <2>1. GoodTensors(in)
    BY <1>2, <1>4, TensorsAreGood
  <2>2. r = Submits!TensorRequest(in)
    BY <1>2, <1>4
  <2>3. IsRequest(r)
    BY <2>1, <2>2, TensorIsRequest
  <2> QED
    BY ONLY <1>2, <1>4, <2>1, <2>2, <2>3 DEF Returned
<1> QED
  BY <1>1, <1>3, <1>4

\* A request is built of an input, its payload is its metadata and its body, and what was
\* accepted was decoded from the payload.
SubmitsInv ==
  /\ input \in Inputs
  /\ built = Submits!Unbuilt \/ built = Submits!BuildRequest(input)
  /\ \/ payload = Submits!NoBytes
     \/ /\ built \notin {Submits!Unbuilt, Submits!Refused}
        /\ payload = Submits!Written(72, Submits!FrameSubmitW, built.metadata) \o built.body
  /\ \/ accepted = Submits!Unbuilt
     \/ payload # Submits!NoBytes /\ accepted = Submits!DecodePayload(payload)

LEMMA InitSubmits == Submits!Init => SubmitsInv
BY DEF Submits!Init, SubmitsInv

LEMMA SubmitsStep == SubmitsInv /\ [Submits!Next]_submitVars => SubmitsInv'
<1> SUFFICES ASSUME SubmitsInv, [Submits!Next]_submitVars
             PROVE  SubmitsInv'
  OBVIOUS
<1>1. CASE Submits!Build
  BY <1>1 DEF SubmitsInv, Submits!Build
<1>2. CASE Submits!EncodePayload
  BY <1>2 DEF SubmitsInv, Submits!EncodePayload
<1>3. CASE Submits!Accept
  BY <1>3 DEF SubmitsInv, Submits!Accept
<1>4. CASE UNCHANGED submitVars
  BY <1>4 DEF SubmitsInv, submitVars
<1> QED
  BY <1>1, <1>2, <1>3, <1>4 DEF Submits!Next

LEMMA SubmitsAlone ==
  ASSUME [PartsNext]_<<part, registryVars, channelVars, submitVars, hostVars, roleVars>>
  PROVE  part' = part /\ (part = "submits" => [Submits!Next]_submitVars)
BY DEF PartsNext

\* SubmitsInv holds throughout: what is decoded is the payload of what was built.
THEOREM SubmitsInvariance == PartsSpec => [](part = "submits" => SubmitsInv)
<1>1. PartsInit => (part = "submits" => SubmitsInv)
  BY InitSubmits DEF PartsInit
<1>2. (part = "submits" => SubmitsInv) /\ [PartsNext]_<<part, registryVars, channelVars, submitVars, hostVars, roleVars>>
        => (part = "submits" => SubmitsInv)'
  BY SubmitsAlone, SubmitsStep
<1> QED BY <1>1, <1>2, PTL DEF PartsSpec

\* What the receiver accepts is what was built.
LEMMA AcceptedIsReturned ==
  ASSUME SubmitsInv, accepted # Submits!Unbuilt
  PROVE  accepted = built /\ Returned(input, accepted)
<1>1. /\ input \in Inputs /\ built = Submits!BuildRequest(input) /\ built # Submits!Refused
      /\ payload = Submits!Written(72, Submits!FrameSubmitW, built.metadata) \o built.body
      /\ accepted = Submits!DecodePayload(payload)
  BY DEF SubmitsInv
<1>2. Submits!WellFormed(input)
  BY <1>1, SubmitValuesFit
<1>3. Returned(input, built)
  BY <1>1, <1>2, BuiltIsReturned
<1>4. Submits!DecodePayload(Submits!Written(72, Submits!FrameSubmitW, built.metadata) \o built.body) = built
  BY <1>3, RequestAccepted DEF Returned
<1>5. accepted = built
  BY ONLY <1>1, <1>4
<1> QED
  BY ONLY <1>3, <1>5

\* Whatever a builder returns, for every input a caller can form, the decoder of the
\* receiving side accepts with the same metadata and body, and a reader that knows only
\* the bytes finds in it every object, tile, section, codec and frame submitted.
THEOREM SubmittedTheorem == PartsSpec => []SubmittedIsReceived
<1>1. ASSUME SubmitsInv
      PROVE  Submits!BuiltIsAccepted
  BY <1>1, AcceptedIsReturned DEF Submits!BuiltIsAccepted
<1>2. ASSUME SubmitsInv
      PROVE  Submits!TensorsRecovered
  <2>1. SUFFICES ASSUME accepted.kind = "built", input.kind = "tensor"
                 PROVE  TensorsFound(input, accepted)
    BY DEF Submits!TensorsRecovered, TensorsFound
  <2>2. accepted # Submits!Unbuilt
    BY <2>1 DEF Submits!Unbuilt
  <2>3. Returned(input, accepted)
    BY <1>2, <2>2, AcceptedIsReturned
  <2>4. GoodTensors(input) /\ accepted = Submits!TensorRequest(input) /\ Submits!ValidBody(accepted.metadata, accepted.body)
    BY <2>1, <2>3 DEF Returned
  <2> QED
    BY <2>4, TensorsOfRequest
<1>3. ASSUME SubmitsInv
      PROVE  Submits!FramesRecovered
  <2>1. SUFFICES ASSUME accepted.kind = "built", input.kind = "typed"
                 PROVE  [i \in 1 .. Submits!Low(accepted.metadata.payloadFrameCount) |-> Submits!ReadFrame(accepted.body, i)]
                          = input.frames
    BY DEF Submits!FramesRecovered
  <2>2. accepted # Submits!Unbuilt
    BY <2>1 DEF Submits!Unbuilt
  <2>3. Returned(input, accepted)
    BY <1>3, <2>2, AcceptedIsReturned
  <2>4. /\ AreFrames(input.frames) /\ Len(input.frames) <= 65535 /\ accepted = Submits!TypedRequest(input)
        /\ Submits!ValidBody(accepted.metadata, accepted.body)
    BY <2>1, <2>3 DEF Returned
  <2> QED
    BY <2>1, <2>4, FramesOfRequest
<1>4. (part = "submits" => SubmitsInv) => SubmittedIsReceived
  BY <1>1, <1>2, <1>3 DEF SubmittedIsReceived, Submits!SubmittedIsReceived
<1> QED BY <1>4, SubmitsInvariance, PTL
=============================================================================
