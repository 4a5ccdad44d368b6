------------------------- MODULE MetadataRepository -------------------------
(***************************************************************************)
(* The registry of published Schemas and of Collection documents, at the   *)
(* grain its protocol promises: one atomic step per operation that changes *)
(* it.  SchemaRepository and MetadataRepository (publication.py 122-174)   *)
(* are the protocols, InMemoryMetadataRepository (177-403) the code.       *)
(*                                                                         *)
(* An operation is described by its outcome, the answer the code gives in  *)
(* the current state, and by the change it makes when the outcome is the   *)
(* successful one.  Every other outcome (an exception, or the idempotent   *)
(* answer to a replay) leaves the registry as it is: a stuttering step     *)
(* here.  Modules that give the operations a caller read the outcomes.     *)
(***************************************************************************)
EXTENDS Integers

CONSTANTS
  SchemaIds,     \* (catalog, namespace, name): the key of one Schema
  Versions,      \* version strings
  Rank,          \* the SemVer precedence of a version string; strings that
                 \* differ only in build metadata share their rank
  Bodies,        \* canonical definitions; with id and version they fix the
                 \* fingerprint of a document
  Breaking,      \* the <<source, target>> bodies classified as BREAKING
  Resources,     \* Collection references
  Absent,        \* "no entry in the dictionary"
  AnyRevision,   \* expected_revision=None
  MaxRevision    \* bound: replace_collection is unlimited in the code

CollectionStates ==
  {"PROVISIONING", "ACTIVE", "PROVISIONING_FAILED", "MIGRATING", "DEPRECATED"}

\* The status is all that ever changes in a PublishedSchema.
Publication == [body : Bodies, status : {"PUBLISHED", "DEPRECATED"}]

SchemaRefs == SchemaIds \X Versions

\* A CollectionDocument: the Schema it pins exactly and its activation state.
Collection == [schema : SchemaRefs, state : CollectionStates]

ASSUME RankAssumption     == Rank \in [Versions -> Nat]
ASSUME BreakingAssumption == Breaking \subseteq Bodies \X Bodies
ASSUME AbsentAssumption   == Absent \notin Publication /\ Absent \notin Collection
ASSUME RevisionAssumption == MaxRevision \in Nat /\ AnyRevision \notin Nat

VARIABLES
  schemas,     \* _schemas: key -> version -> PublishedSchema
  resources,   \* _resources: reference -> CollectionDocument
  revision,    \* _revision
  waived       \* history: the <<id, version>> published with allow_breaking

vars == <<schemas, resources, revision, waived>>

Init ==
  /\ schemas   = [id \in SchemaIds |-> [v \in Versions |-> Absent]]
  /\ resources = [r \in Resources |-> Absent]
  /\ revision  = 0
  /\ waived    = {}

-----------------------------------------------------------------------------
(* Reading the registry *)

\* Mutant: a lookup that does not see deprecated versions.
KnownUnlessDeprecated(id, v) ==
  schemas[id][v] # Absent /\ schemas[id][v].status # "DEPRECATED"

Known(id, v) == schemas[id][v] # Absent

KnownVersions(id, includeDeprecated) ==
  {v \in Versions : /\ Known(id, v)
                    /\ includeDeprecated \/ schemas[id][v].status = "PUBLISHED"}

\* _latest: the greatest of the versions that count.
IsLatest(id, includeDeprecated, v) ==
  LET candidates == KnownVersions(id, includeDeprecated)
  IN  v \in candidates /\ \A w \in candidates : Rank[w] <= Rank[v]

\* get_schema with an exact version: does it find one?
Readable(id, v, includeDeprecated) == v \in KnownVersions(id, includeDeprecated)

\* Mutant: a pin of the past is accepted as well.
RevisionReached(expected) == expected = AnyRevision \/ expected <= revision

RevisionMatches(expected) == expected = AnyRevision \/ expected = revision

-----------------------------------------------------------------------------
(* Publishing and deprecating Schemas *)

\* Mutant: versions of equal precedence are accepted.
BelowLatest(id, v) ==
  \E latest \in Versions : IsLatest(id, TRUE, latest) /\ Rank[v] < Rank[latest]

NotAboveLatest(id, v) ==
  \E latest \in Versions : IsLatest(id, TRUE, latest) /\ Rank[v] <= Rank[latest]

\* Mutant: the comparison skips deprecated versions.
BreaksLatestActive(id, body) ==
  \E latest \in Versions : /\ IsLatest(id, FALSE, latest)
                           /\ <<schemas[id][latest].body, body>> \in Breaking

BreaksLatest(id, body) ==
  \E latest \in Versions : /\ IsLatest(id, TRUE, latest)
                           /\ <<schemas[id][latest].body, body>> \in Breaking

PublishOutcome(id, v, body, expected, allowBreaking) ==
  IF ~RevisionMatches(expected)           THEN "RegistryRevisionConflict"
  ELSE IF Known(id, v)
    THEN IF schemas[id][v].body = body    THEN "idempotent"
                                          ELSE "SchemaVersionConflict"
  ELSE IF NotAboveLatest(id, v)           THEN "SchemaVersionConflict"
  ELSE IF BreaksLatest(id, body) /\ ~allowBreaking
                                          THEN "IncompatibleSchema"
                                          ELSE "published"

StorePublication(id, v, body) ==
  schemas' = [schemas EXCEPT ![id][v] = [body |-> body, status |-> "PUBLISHED"]]

PublishSchema(id, v, body, expected, allowBreaking) ==
  /\ PublishOutcome(id, v, body, expected, allowBreaking) = "published"
  /\ StorePublication(id, v, body)
  /\ revision' = revision + 1
  /\ waived' = IF allowBreaking THEN waived \cup {<<id, v>>} ELSE waived
  /\ UNCHANGED resources

DeprecateOutcome(id, v, expected) ==
  IF ~RevisionMatches(expected)                   THEN "RegistryRevisionConflict"
  ELSE IF ~Known(id, v)                           THEN "ResourceNotFound"
  ELSE IF schemas[id][v].status = "DEPRECATED"    THEN "idempotent"
                                                  ELSE "deprecated"

\* Mutant: a status the document format does not have.
StoreRetirement(id, v) == schemas' = [schemas EXCEPT ![id][v].status = "RETIRED"]

StoreDeprecation(id, v) == schemas' = [schemas EXCEPT ![id][v].status = "DEPRECATED"]

\* Mutant: deprecation is taken for a change of status, not of the registry.
DeprecateUncounted(id, v, expected) ==
  /\ DeprecateOutcome(id, v, expected) = "deprecated"
  /\ StoreDeprecation(id, v)
  /\ UNCHANGED <<resources, revision, waived>>

DeprecateSchema(id, v, expected) ==
  /\ DeprecateOutcome(id, v, expected) = "deprecated"
  /\ StoreDeprecation(id, v)
  /\ revision' = revision + 1
  /\ UNCHANGED <<resources, waived>>

-----------------------------------------------------------------------------
(* Collection documents *)

\* Mutants: a Collection that failed, or any Collection, may be created anew.
CreateOutcomeAfterFailure(r, schema, expected) ==
  IF ~RevisionMatches(expected)                         THEN "RegistryRevisionConflict"
  ELSE IF /\ resources[r] # Absent
          /\ resources[r].state # "PROVISIONING_FAILED" THEN "ResourceAlreadyExists"
  ELSE IF ~Readable(schema[1], schema[2], FALSE)        THEN "ResourceNotFound"
                                                        ELSE "created"

CreateOutcomeAnyway(r, schema, expected) ==
  IF ~RevisionMatches(expected)                         THEN "RegistryRevisionConflict"
  ELSE IF ~Readable(schema[1], schema[2], FALSE)        THEN "ResourceNotFound"
                                                        ELSE "created"

\* The Schema lookup comes last: it is get_schema, which takes the lock again.
CreateOutcome(r, schema, expected) ==
  IF ~RevisionMatches(expected)                         THEN "RegistryRevisionConflict"
  ELSE IF resources[r] # Absent                         THEN "ResourceAlreadyExists"
  ELSE IF ~Readable(schema[1], schema[2], FALSE)        THEN "ResourceNotFound"
                                                        ELSE "created"

StoreCollection(r, document) == resources' = [resources EXCEPT ![r] = document]

\* Whatever state the caller's document has, it is stored as PROVISIONING.
CreateCollection(r, schema, expected) ==
  /\ CreateOutcome(r, schema, expected) = "created"
  /\ StoreCollection(r, [schema |-> schema, state |-> "PROVISIONING"])
  /\ revision' = revision + 1
  /\ UNCHANGED <<schemas, waived>>

ReplaceOutcome(r, expected) ==
  IF ~RevisionMatches(expected)     THEN "RegistryRevisionConflict"
  ELSE IF resources[r] = Absent     THEN "ResourceNotFound"
                                    ELSE "replaced"

\* The new document is stored unseen: neither its Schema nor the step from the
\* old state to the new one is checked.
ReplaceCollection(r, document, expected) ==
  /\ revision < MaxRevision
  /\ ReplaceOutcome(r, expected) = "replaced"
  /\ StoreCollection(r, document)
  /\ revision' = revision + 1
  /\ UNCHANGED <<schemas, waived>>

-----------------------------------------------------------------------------
Expectations == {AnyRevision, revision}   \* any other pin is refused

Next ==
  \E expected \in Expectations :
    \/ \E id \in SchemaIds, v \in Versions, body \in Bodies, allow \in BOOLEAN :
         PublishSchema(id, v, body, expected, allow)
    \/ \E id \in SchemaIds, v \in Versions : DeprecateSchema(id, v, expected)
    \/ \E r \in Resources, schema \in SchemaRefs : CreateCollection(r, schema, expected)
    \/ \E r \in Resources, document \in Collection : ReplaceCollection(r, document, expected)

Spec == Init /\ [][Next]_vars

-----------------------------------------------------------------------------
(* The registry holds publications and Collection documents under its keys. *)
TypeOK ==
  /\ schemas   \in [SchemaIds -> [Versions -> Publication \cup {Absent}]]
  /\ resources \in [Resources -> Collection \cup {Absent}]
  /\ revision  \in Nat
  /\ waived    \subseteq SchemaRefs

(* No two published versions of a Schema have the same precedence, so       *)
(* "the latest" names one document and list_schema_versions has one order,  *)
(* even though 1.0.0 and 1.0.0+build are different dictionary keys.         *)
LatestIsUnique ==
  \A id \in SchemaIds : \A v, w \in Versions :
    Known(id, v) /\ Known(id, w) /\ Rank[v] = Rank[w] => v = w

(* A version that was published without allow_breaking does not break the   *)
(* version right below it.  Publication compares with the latest version    *)
(* only; this says that comparison is still the right one afterwards,       *)
(* whatever was deprecated or published since.                              *)
RightBelow(id, w, v) ==
  /\ Known(id, w) /\ Known(id, v) /\ Rank[w] < Rank[v]
  /\ \A u \in Versions : Known(id, u) => Rank[u] <= Rank[w] \/ Rank[v] <= Rank[u]

EvolutionIsGuarded ==
  \A id \in SchemaIds : \A w, v \in Versions :
    RightBelow(id, w, v) /\ <<id, v>> \notin waived
      => <<schemas[id][w].body, schemas[id][v].body>> \notin Breaking

(* A published document is never edited, withdrawn or brought back:  the    *)
(* definition of a version stays, and DEPRECATED is final, also when the    *)
(* same document is published again.                                        *)
PublishedForever ==
  [][\A id \in SchemaIds, v \in Versions : schemas[id][v] # Absent =>
       /\ schemas'[id][v] # Absent
       /\ schemas'[id][v].body = schemas[id][v].body
       /\ schemas[id][v].status = "DEPRECATED" => schemas'[id][v] = schemas[id][v]]_vars

(* One revision is one state of the registry: every change of a publication *)
(* or a Collection takes a new revision, and revisions are not skipped.     *)
(* Compare-and-set on the revision depends on it.                           *)
RevisionNamesState ==
  [][\/ revision' = revision + 1
     \/ revision' = revision /\ UNCHANGED <<schemas, resources>>]_vars
=============================================================================
