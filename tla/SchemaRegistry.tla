--------------------------- MODULE SchemaRegistry ---------------------------
(***************************************************************************)
(* NnrpSchemaRegistry (packages/core/src/index.ts): the descriptors each   *)
(* side of a connection installs in its own order, and what they make of a *)
(* typed payload that names a schema.                                      *)
(***************************************************************************)
EXTENDS Naturals, FiniteSets

CONSTANTS Registries,   \* one per client, server or listener
          Descriptors,  \* schemaId, schemaVersion, profileId, schemaHash, rest
          Payloads,     \* the schemaId, schemaVersion and profileId of typed payloads
          MaxOffers     \* bound: descriptors offered to one registry

ASSUME RegistryAssumption ==
  /\ \A d \in Descriptors : {d.schemaId, d.schemaVersion, d.profileId, d.schemaHash} \subseteq Nat
  /\ \A p \in Payloads : {p.schemaId, p.schemaVersion, p.profileId} \subseteq Nat
  /\ MaxOffers \in Nat

VARIABLES
  installed,   \* #descriptors, at most one for each key
  offered,     \* history: what install() was called with
  conflicts,   \* history: the keys install() reported HashConflict for
  forgotten    \* history: invalidate() removed a descriptor

vars == <<installed, offered, conflicts, forgotten>>

Unspecified == 0
StandardProfiles == {Unspecified, 1, 2}

Key(d) == <<d.schemaId, d.schemaVersion>>
\* Mutant: descriptors of one hash are the same whatever their profile.
SameHash(d, e) == d.schemaHash = e.schemaHash

SameSchema(d, e) == d.schemaHash = e.schemaHash /\ d.profileId = e.profileId
Existing(r, key) == {e \in installed[r] : Key(e) = key}

Init ==
  /\ installed = [r \in Registries |-> {}]
  /\ offered = [r \in Registries |-> {}]
  /\ conflicts = [r \in Registries |-> {}]
  /\ forgotten = [r \in Registries |-> FALSE]

\* Mutant: install() overwrites the version it finds.
InstallOverwrites(r, d) ==
  /\ Cardinality(offered[r] \cup {d}) <= MaxOffers
  /\ offered' = [offered EXCEPT ![r] = @ \cup {d}]
  /\ IF d.profileId \in StandardProfiles
     THEN installed' = [installed EXCEPT ![r] = (@ \ Existing(r, Key(d))) \cup {d}]
     ELSE UNCHANGED installed
  /\ UNCHANGED <<conflicts, forgotten>>

\* A descriptor of no standard profile is refused before anything is looked up; a
\* version that is installed stays as it is, with an error when the schema differs.
Install(r, d) ==
  /\ Cardinality(offered[r] \cup {d}) <= MaxOffers
  /\ offered' = [offered EXCEPT ![r] = @ \cup {d}]
  /\ IF d.profileId \in StandardProfiles /\ Existing(r, Key(d)) = {}
     THEN installed' = [installed EXCEPT ![r] = @ \cup {d}]
     ELSE UNCHANGED installed
  /\ IF d.profileId \in StandardProfiles /\ \E e \in Existing(r, Key(d)) : ~SameSchema(d, e)
     THEN conflicts' = [conflicts EXCEPT ![r] = @ \cup {Key(d)}]
     ELSE UNCHANGED conflicts
  /\ UNCHANGED forgotten

Invalidate(r, key) ==
  /\ Existing(r, key) # {}
  /\ installed' = [installed EXCEPT ![r] = @ \ Existing(r, key)]
  /\ forgotten' = [forgotten EXCEPT ![r] = TRUE]
  /\ UNCHANGED <<offered, conflicts>>

Next == \E r \in Registries, d \in Descriptors : Install(r, d) \/ Invalidate(r, Key(d))

Spec == Init /\ [][Next]_vars

-----------------------------------------------------------------------------
\* Why lookup() fails.
LookupFailure(r, id) ==
  IF \E e \in installed[r] : e.schemaId = id THEN "VersionUnknown" ELSE "Unknown"

\* validateBinding: what a registry makes of a typed payload.
Binding(r, p) ==
  IF p.profileId \notin StandardProfiles THEN "UpdateRejected"
  ELSE IF p.profileId = Unspecified
  THEN IF p.schemaId = 0 /\ p.schemaVersion = 0 THEN "Bound" ELSE "Incompatible"
  ELSE IF p.schemaId = 0 THEN "Unknown"
  ELSE IF Existing(r, Key(p)) = {} THEN LookupFailure(r, p.schemaId)
  ELSE IF \E e \in Existing(r, Key(p)) : e.profileId = p.profileId THEN "Bound" ELSE "Incompatible"

-----------------------------------------------------------------------------
\* Two registries that were offered the same descriptors, in whatever order, and never
\* reported a conflict give the same answer for every typed payload: what one side
\* sends the other side does not refuse because it installed in another order.
SameOffersSameAnswers ==
  \A r, s \in Registries :
    /\ offered[r] = offered[s]
    /\ ~forgotten[r] /\ ~forgotten[s]
    /\ conflicts[r] = {} /\ conflicts[s] = {}
    => \A p \in Payloads : Binding(r, p) = Binding(s, p)

\* No step puts another descriptor in the place of an installed one.
VersionsAreFinal ==
  [][\A r \in Registries : \A d \in installed[r], e \in installed'[r] :
       Key(d) = Key(e) => d = e]_vars
=============================================================================
