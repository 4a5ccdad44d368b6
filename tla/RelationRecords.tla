---------------------------- MODULE RelationRecords ----------------------------
(***************************************************************************)
(* The Records of a relation Collection and what traversal expects of      *)
(* them.  The relation profile of a Schema (profiles.py 249-303) says      *)
(* between which Collections there may be Records; all_neighbors looks at  *)
(* profiles only (NeighborTraversal).  A Record is validated against the   *)
(* allowedCollections of its two endpoint fields (validation.py 710-727)   *)
(* and never against the profile.  Three checks written in three places    *)
(* have to keep the two together while the Schema evolves.                 *)
(*                                                                         *)
(* The endpoint fields are required; every other field is left out.        *)
(***************************************************************************)
EXTENDS Integers

CONSTANTS
  Collections,  \* references of structured Collections
  Profiles,     \* the relation profiles that may be declared
  NoRecord          \* no Record

Sides == {"source", "target"}

\* Endpoint Collections are unique and not empty.
RelationProfile ==
  [source : SUBSET Collections \ {{}}, target : SUBSET Collections \ {{}}, directed : BOOLEAN]

\* A relation Schema: its profile, the endpoint fields that have an index of
\* kind relation-endpoint of their own, and the allowedCollections of those that
\* are constrained.
Definitions ==
  [profile : Profiles, indexed : SUBSET Sides,
   allowed : UNION {[constrained -> SUBSET Collections \ {{}}] : constrained \in SUBSET Sides}]

Endpoints == [Sides -> Collections]

ASSUME ProfilesAssumption == Profiles \subseteq RelationProfile
ASSUME NoRecordAssumption == NoRecord \notin Endpoints

VARIABLES
  schema,  \* the latest version
  record,  \* the Collections the Record written last points to, or NoRecord
  origin,  \* the version it was written under
  worst    \* the highest class of a step since then, and 0 before one

relationVars == <<schema, record, origin, worst>>

-----------------------------------------------------------------------------
(* validate_schema: _validate_profile *)

Agrees(doc) ==
  \A side \in DOMAIN doc.allowed : doc.allowed[side] = doc.profile[side]

RelationWellFormed(doc) == doc.indexed = Sides /\ Agrees(doc)

(* classify_compatibility: _compare_profiles, and of _compare_field what     *)
(* concerns constraints.  There is no change of the indexes between two      *)
(* well-formed versions.                                                     *)

Identical   == 0
Conditional == 4
Breaking    == 5

\* Mutant: endpoints are taken for a profile's metadata.
ClassByMetadata(source, target) ==
  IF source.profile # target.profile \/ source.allowed # target.allowed
    THEN Conditional ELSE Identical

Class(source, target) ==
  IF source.profile # target.profile      THEN Breaking
  ELSE IF source.allowed # target.allowed THEN Conditional
                                          ELSE Identical

(* validate_record: _validate_scalar, of a RecordRef *)

Admits(doc, ends) == \A side \in DOMAIN doc.allowed : ends[side] \in doc.allowed[side]

-----------------------------------------------------------------------------
RelationInit ==
  /\ schema \in {doc \in Definitions : RelationWellFormed(doc)}
  /\ record = NoRecord /\ origin = NoRecord /\ worst = Identical

Publish(doc, allowBreaking) ==
  /\ RelationWellFormed(doc) /\ doc # schema
  /\ Class(schema, doc) = Breaking => allowBreaking
  /\ schema' = doc
  /\ worst' = IF record # NoRecord /\ Class(schema, doc) > worst THEN Class(schema, doc) ELSE worst
  /\ UNCHANGED <<record, origin>>

\* A new Record, or a changed one, which is validated as a whole all the same.
Write(ends) ==
  /\ Admits(schema, ends)
  /\ record' = ends /\ origin' = schema /\ worst' = Identical
  /\ UNCHANGED schema

RelationNext ==
  \/ \E doc \in Definitions, allowBreaking \in BOOLEAN : Publish(doc, allowBreaking)
  \/ \E ends \in Endpoints : Write(ends)

RelationSpec == RelationInit /\ [][RelationNext]_relationVars

-----------------------------------------------------------------------------
\* RelationProfile.neighbors
Neighbors(profile, collection) ==
  (IF collection \in profile.source THEN profile.target ELSE {})
  \cup (IF ~profile.directed /\ collection \in profile.target THEN profile.source ELSE {})

\* There is a version a Record was written under, or no Record.
TypeOK ==
  /\ schema \in Definitions /\ RelationWellFormed(schema)
  /\ record \in Endpoints \cup {NoRecord}
  /\ origin \in IF record = NoRecord THEN {NoRecord} ELSE {doc \in Definitions : RelationWellFormed(doc)}
  /\ worst \in {Identical, Conditional, Breaking}
  /\ record = NoRecord => worst = Identical

\* A Record of a relation whose endpoint fields are constrained is found by
\* traversal: from the Collection of its source all_neighbors leads to that of
\* its target, and back if the relation is not directed (publication.py
\* 618-633).  It stays so however the Schema evolves, constraints taken away
\* included, until somebody allows a breaking change.
TraversalFindsRecords ==
  record # NoRecord /\ worst < Breaking /\ DOMAIN origin.allowed = Sides =>
    /\ record["target"] \in Neighbors(schema.profile, record["source"])
    /\ ~schema.profile.directed => record["source"] \in Neighbors(schema.profile, record["target"])
=============================================================================
