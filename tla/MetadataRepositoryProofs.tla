---------------------- MODULE MetadataRepositoryProofs ----------------------
(***************************************************************************)
(* Theorems about MetadataRepository, for every set of Schemas, versions,  *)
(* bodies and Collections, every precedence and every bound.               *)
(*                                                                         *)
(* Uniqueness of the latest version and guarded evolution both rest on the *)
(* fact that publication compares with the greatest version there is, so   *)
(* the invariant says that there is one (LatestExists): Versions may be    *)
(* infinite, and a set of ranks need not have a maximum.                   *)
(***************************************************************************)
EXTENDS MetadataRepository, TLAPS

LatestExists ==
  \A id \in SchemaIds : \A v \in Versions :
    Known(id, v) => \E latest \in Versions : IsLatest(id, TRUE, latest)

IInv == TypeOK /\ LatestExists /\ LatestIsUnique /\ EvolutionIsGuarded

-----------------------------------------------------------------------------
(* A version that may be published is above everything already published.  *)
LEMMA PublishedIsAbove ==
  ASSUME TypeOK, LatestExists,
         NEW id \in SchemaIds, NEW v \in Versions, ~NotAboveLatest(id, v)
  PROVE  \A w \in Versions : Known(id, w) => Rank[w] < Rank[v]
<1> SUFFICES ASSUME NEW w \in Versions, Known(id, w)
             PROVE  Rank[w] < Rank[v]
  OBVIOUS
<1>1. PICK latest \in Versions : IsLatest(id, TRUE, latest)
  BY DEF LatestExists
<1>2. Rank[w] <= Rank[latest]
  BY <1>1 DEF IsLatest, KnownVersions
<1>3. ~(Rank[v] <= Rank[latest])
  BY <1>1 DEF NotAboveLatest
<1> QED
  BY <1>2, <1>3, RankAssumption

(* What a publication found out before it wrote.                           *)
LEMMA PublishGuards ==
  ASSUME NEW id, NEW v, NEW body, NEW expected, NEW allow \in BOOLEAN,
         PublishOutcome(id, v, body, expected, allow) = "published"
  PROVE  /\ ~Known(id, v)
         /\ ~NotAboveLatest(id, v)
         /\ BreaksLatest(id, body) => allow
  BY DEF PublishOutcome

(* The one entry a publication changes.                                    *)
LEMMA PublishEffect ==
  ASSUME TypeOK, NEW id \in SchemaIds, NEW v \in Versions, NEW body \in Bodies,
         StorePublication(id, v, body)
  PROVE  /\ schemas' \in [SchemaIds -> [Versions -> Publication \cup {Absent}]]
         /\ schemas'[id][v] = [body |-> body, status |-> "PUBLISHED"]
         /\ \A i \in SchemaIds, w \in Versions :
              i # id \/ w # v => schemas'[i][w] = schemas[i][w]
<1>1. [body |-> body, status |-> "PUBLISHED"] \in Publication
  BY DEF Publication
<1> QED
  BY <1>1 DEF TypeOK, StorePublication

(* The one status a deprecation changes.                                   *)
LEMMA DeprecateEffect ==
  ASSUME TypeOK, NEW id \in SchemaIds, NEW v \in Versions,
         Known(id, v), StoreDeprecation(id, v)
  PROVE  /\ schemas' \in [SchemaIds -> [Versions -> Publication \cup {Absent}]]
         /\ schemas'[id][v] \in Publication
         /\ schemas'[id][v].body = schemas[id][v].body
         /\ schemas'[id][v].status = "DEPRECATED"
         /\ \A i \in SchemaIds, w \in Versions :
              i # id \/ w # v => schemas'[i][w] = schemas[i][w]
<1> DEFINE old == schemas[id][v]
           new == [old EXCEPT !.status = "DEPRECATED"]
<1>1. old \in Publication
  BY DEF TypeOK, Known
<1>2. new \in Publication /\ new.body = old.body /\ new.status = "DEPRECATED"
  BY <1>1 DEF Publication
<1>3. schemas' = [schemas EXCEPT ![id] = [schemas[id] EXCEPT ![v] = new]]
  BY DEF StoreDeprecation, TypeOK
<1> HIDE DEF new
<1>4. schemas'[id][v] = new
  BY <1>3 DEF TypeOK
<1>5. schemas' \in [SchemaIds -> [Versions -> Publication \cup {Absent}]]
  BY <1>2, <1>3 DEF TypeOK
<1>6. \A i \in SchemaIds, w \in Versions : i # id \/ w # v => schemas'[i][w] = schemas[i][w]
  BY <1>3 DEF TypeOK
<1> QED
  BY <1>2, <1>4, <1>5, <1>6

-----------------------------------------------------------------------------
(* Type correctness *)

LEMMA TypeStep == TypeOK /\ [Next]_vars => TypeOK'
<1> SUFFICES ASSUME TypeOK, [Next]_vars PROVE TypeOK'
  OBVIOUS
<1> USE RevisionAssumption
<1>1. ASSUME NEW expected \in Expectations, NEW id \in SchemaIds, NEW v \in Versions,
             NEW body \in Bodies, NEW allow \in BOOLEAN,
             PublishSchema(id, v, body, expected, allow)
      PROVE  TypeOK'
  <2>1. schemas' \in [SchemaIds -> [Versions -> Publication \cup {Absent}]]
    BY <1>1, PublishEffect DEF PublishSchema
  <2>2. waived' \subseteq SchemaRefs
    BY <1>1 DEF PublishSchema, TypeOK, SchemaRefs
  <2> QED
    BY <1>1, <2>1, <2>2 DEF PublishSchema, TypeOK
<1>2. ASSUME NEW expected \in Expectations, NEW id \in SchemaIds, NEW v \in Versions,
             DeprecateSchema(id, v, expected)
      PROVE  TypeOK'
  <2>1. Known(id, v) /\ StoreDeprecation(id, v)
    BY <1>2 DEF DeprecateSchema, DeprecateOutcome
  <2>2. schemas' \in [SchemaIds -> [Versions -> Publication \cup {Absent}]]
    BY <2>1, DeprecateEffect
  <2> QED
    BY <1>2, <2>2 DEF DeprecateSchema, TypeOK
<1>3. ASSUME NEW expected \in Expectations, NEW r \in Resources, NEW schema \in SchemaRefs,
             CreateCollection(r, schema, expected)
      PROVE  TypeOK'
  <2>1. [schema |-> schema, state |-> "PROVISIONING"] \in Collection
    BY DEF Collection, CollectionStates
  <2> QED
    BY <1>3, <2>1 DEF CreateCollection, StoreCollection, TypeOK
<1>4. ASSUME NEW expected \in Expectations, NEW r \in Resources, NEW document \in Collection,
             ReplaceCollection(r, document, expected)
      PROVE  TypeOK'
  BY <1>4 DEF ReplaceCollection, StoreCollection, TypeOK
<1>5. CASE UNCHANGED vars
  BY <1>5 DEF vars, TypeOK
<1> QED
  BY <1>1, <1>2, <1>3, <1>4, <1>5 DEF Next

(* The registry holds only publications and Collection documents, and its   *)
(* revision is a natural number.                                            *)
THEOREM TypeCorrect == Spec => []TypeOK
<1>1. Init => TypeOK
  BY DEF Init, TypeOK
<1> QED
  BY <1>1, TypeStep, PTL DEF Spec

-----------------------------------------------------------------------------
(* Which actions touch the publications at all.  A step either adds one      *)
(* version that was unknown, or deprecates one that was known, or leaves     *)
(* all of them alone: the invariants are argued on these three cases.        *)

Adds(id, v, body, allow) ==
  /\ \E expected \in Expectations :
       PublishOutcome(id, v, body, expected, allow) = "published"
  /\ StorePublication(id, v, body)
  /\ waived' = IF allow THEN waived \cup {<<id, v>>} ELSE waived
  /\ revision' = revision + 1

Deprecates(id, v) ==
  /\ Known(id, v)
  /\ schemas[id][v].status # "DEPRECATED"
  /\ StoreDeprecation(id, v)
  /\ UNCHANGED waived
  /\ revision' = revision + 1

LEMMA NextCases ==
  ASSUME [Next]_vars
  PROVE  \/ \E id \in SchemaIds, v \in Versions, body \in Bodies, allow \in BOOLEAN :
              Adds(id, v, body, allow)
         \/ \E id \in SchemaIds, v \in Versions : Deprecates(id, v)
         \/ UNCHANGED <<schemas, waived>> /\ revision' = revision + 1
         \/ UNCHANGED vars
<1>1. ASSUME NEW expected \in Expectations, NEW id \in SchemaIds, NEW v \in Versions,
             NEW body \in Bodies, NEW allow \in BOOLEAN,
             PublishSchema(id, v, body, expected, allow)
      PROVE  Adds(id, v, body, allow)
  BY <1>1 DEF PublishSchema, Adds
<1>2. ASSUME NEW expected \in Expectations, NEW id \in SchemaIds, NEW v \in Versions,
             DeprecateSchema(id, v, expected)
      PROVE  Deprecates(id, v)
  BY <1>2 DEF DeprecateSchema, DeprecateOutcome, Deprecates
<1>3. ASSUME NEW expected \in Expectations, NEW r \in Resources, NEW schema \in SchemaRefs,
             CreateCollection(r, schema, expected)
      PROVE  UNCHANGED <<schemas, waived>> /\ revision' = revision + 1
  BY <1>3 DEF CreateCollection
<1>4. ASSUME NEW expected \in Expectations, NEW r \in Resources, NEW document \in Collection,
             ReplaceCollection(r, document, expected)
      PROVE  UNCHANGED <<schemas, waived>> /\ revision' = revision + 1
  BY <1>4 DEF ReplaceCollection
<1> QED
  BY <1>1, <1>2, <1>3, <1>4 DEF Next

(* Neither deprecation nor a change of Collections alters which versions are *)
(* known, nor their bodies.                                                  *)
SameDocuments ==
  \A i \in SchemaIds, w \in Versions :
    /\ Known(i, w)' <=> Known(i, w)
    /\ Known(i, w) => schemas'[i][w].body = schemas[i][w].body

LEMMA DeprecateKeepsDocuments ==
  ASSUME TypeOK, NEW id \in SchemaIds, NEW v \in Versions, Deprecates(id, v)
  PROVE  SameDocuments
<1>1. Known(id, v) /\ StoreDeprecation(id, v)
  BY DEF Deprecates
<1>2. /\ schemas'[id][v] # Absent
      /\ schemas'[id][v].body = schemas[id][v].body
      /\ \A i \in SchemaIds, w \in Versions :
           i # id \/ w # v => schemas'[i][w] = schemas[i][w]
  BY <1>1, DeprecateEffect, AbsentAssumption
<1> QED
  BY <1>1, <1>2 DEF SameDocuments, Known

(* One version more, above all there were; nothing else is touched.         *)
AddedAbove(id, v, body) ==
  /\ \A i \in SchemaIds, w \in Versions :
       /\ Known(i, w)' <=> Known(i, w) \/ (i = id /\ w = v)
       /\ Known(i, w) => schemas'[i][w] = schemas[i][w]
  /\ schemas'[id][v].body = body
  /\ \A w \in Versions : Known(id, w) => Rank[w] < Rank[v]
  /\ BreaksLatest(id, body) => <<id, v>> \in waived'
  /\ waived \subseteq waived'

LEMMA AddsOneDocument ==
  ASSUME TypeOK, LatestExists,
         NEW id \in SchemaIds, NEW v \in Versions, NEW body \in Bodies, NEW allow \in BOOLEAN,
         Adds(id, v, body, allow)
  PROVE  AddedAbove(id, v, body)
<1>1. PICK expected \in Expectations : PublishOutcome(id, v, body, expected, allow) = "published"
  BY DEF Adds
<1>2. /\ ~Known(id, v)
      /\ ~NotAboveLatest(id, v)
      /\ BreaksLatest(id, body) => allow
  BY <1>1, PublishGuards
<1>3. StorePublication(id, v, body)
  BY DEF Adds
<1>4. /\ schemas'[id][v] = [body |-> body, status |-> "PUBLISHED"]
      /\ \A i \in SchemaIds, w \in Versions :
           i # id \/ w # v => schemas'[i][w] = schemas[i][w]
  BY <1>3, PublishEffect
<1>5. schemas'[id][v] # Absent
  BY <1>4, AbsentAssumption DEF Publication
<1>6. \A i \in SchemaIds, w \in Versions :
        /\ Known(i, w)' <=> Known(i, w) \/ (i = id /\ w = v)
        /\ Known(i, w) => schemas'[i][w] = schemas[i][w]
  BY <1>2, <1>4, <1>5 DEF Known
<1>7. \A w \in Versions : Known(id, w) => Rank[w] < Rank[v]
  BY <1>2, PublishedIsAbove
<1>8. (BreaksLatest(id, body) => <<id, v>> \in waived') /\ waived \subseteq waived'
  BY <1>2 DEF Adds
<1> QED
  BY <1>4, <1>6, <1>7, <1>8 DEF AddedAbove

-----------------------------------------------------------------------------
(* The invariant *)

LEMMA LatestExistsStep ==
  ASSUME TypeOK, LatestExists, [Next]_vars
  PROVE  LatestExists'
<1> USE DEF IsLatest, KnownVersions
<1>1. ASSUME NEW id \in SchemaIds, NEW v \in Versions, NEW body \in Bodies,
             NEW allow \in BOOLEAN, Adds(id, v, body, allow)
      PROVE  LatestExists'
  <2> SUFFICES ASSUME NEW i \in SchemaIds, NEW w \in Versions, Known(i, w)'
               PROVE  \E latest \in Versions : IsLatest(i, TRUE, latest)'
    BY DEF LatestExists
  <2>0. AddedAbove(id, v, body)
    BY <1>1, AddsOneDocument
  <2>1. /\ \A u \in Versions : Known(i, u)' <=> Known(i, u) \/ (i = id /\ u = v)
        /\ \A u \in Versions : Known(id, u) => Rank[u] < Rank[v]
    BY <2>0 DEF AddedAbove
  <2>2. CASE i = id
    BY <2>1, <2>2, RankAssumption
  <2>3. CASE i # id
    BY <2>1, <2>3 DEF LatestExists
  <2> QED
    BY <2>2, <2>3
<1>2. ASSUME SameDocuments PROVE LatestExists'
  BY <1>2 DEF SameDocuments, LatestExists
<1>3. UNCHANGED schemas => SameDocuments
  BY DEF SameDocuments, Known
<1> QED
  BY <1>1, <1>2, <1>3, NextCases, DeprecateKeepsDocuments DEF vars

LEMMA LatestIsUniqueStep ==
  ASSUME TypeOK, LatestExists, LatestIsUnique, [Next]_vars
  PROVE  LatestIsUnique'
<1>1. ASSUME NEW id \in SchemaIds, NEW v \in Versions, NEW body \in Bodies,
             NEW allow \in BOOLEAN, Adds(id, v, body, allow)
      PROVE  LatestIsUnique'
  <2>1. AddedAbove(id, v, body)
    BY <1>1, AddsOneDocument
  <2> QED
    BY <2>1, RankAssumption DEF AddedAbove, LatestIsUnique
<1>2. ASSUME SameDocuments PROVE LatestIsUnique'
  BY <1>2 DEF SameDocuments, LatestIsUnique
<1>3. UNCHANGED schemas => SameDocuments
  BY DEF SameDocuments, Known
<1> QED
  BY <1>1, <1>2, <1>3, NextCases, DeprecateKeepsDocuments DEF vars

(* The version right below a new one is the latest one: the one it was       *)
(* compared with.                                                            *)
LEMMA EvolutionStep ==
  ASSUME TypeOK, LatestExists, EvolutionIsGuarded, [Next]_vars
  PROVE  EvolutionIsGuarded'
<1>1. ASSUME NEW id \in SchemaIds, NEW v \in Versions, NEW body \in Bodies,
             NEW allow \in BOOLEAN, Adds(id, v, body, allow)
      PROVE  EvolutionIsGuarded'
  <2> SUFFICES ASSUME NEW i \in SchemaIds, NEW lower \in Versions, NEW upper \in Versions,
                      RightBelow(i, lower, upper)', <<i, upper>> \notin waived'
               PROVE  (<<schemas[i][lower].body, schemas[i][upper].body>> \notin Breaking)'
    BY DEF EvolutionIsGuarded
  <2>0. AddedAbove(id, v, body)
    BY <1>1, AddsOneDocument
  <2>1. /\ \A u \in Versions : Known(i, u)' <=> Known(i, u) \/ (i = id /\ u = v)
        /\ \A u \in Versions : Known(i, u) => schemas'[i][u] = schemas[i][u]
        /\ schemas'[id][v].body = body
        /\ \A u \in Versions : Known(id, u) => Rank[u] < Rank[v]
        /\ BreaksLatest(id, body) => <<id, v>> \in waived'
        /\ waived \subseteq waived'
    BY <2>0 DEF AddedAbove
  <2>2. /\ Known(i, lower)' /\ Known(i, upper)' /\ Rank[lower] < Rank[upper]
        /\ \A u \in Versions : Known(i, u)' => Rank[u] <= Rank[lower] \/ Rank[upper] <= Rank[u]
    BY DEF RightBelow
  <2>3. CASE i = id /\ upper = v
    <3>1. Known(id, lower)
      BY <2>1, <2>2, <2>3, RankAssumption
    <3>2. IsLatest(id, TRUE, lower)
      <4>1. \A u \in Versions : Known(id, u) => Rank[u] <= Rank[lower]
        BY <2>1, <2>2, <2>3, RankAssumption
      <4> QED
        BY <3>1, <4>1 DEF IsLatest, KnownVersions
    <3>3. ~BreaksLatest(id, body)
      BY <2>1, <2>3
    <3> QED
      BY <2>1, <2>3, <3>1, <3>2, <3>3 DEF BreaksLatest
  <2>4. CASE ~(i = id /\ upper = v)
    <3>1. Known(i, upper)
      BY <2>1, <2>2, <2>4
    <3>2. Known(i, lower)
      BY <2>1, <2>2, <3>1, RankAssumption
    <3>3. RightBelow(i, lower, upper)
      BY <2>1, <2>2, <3>1, <3>2 DEF RightBelow
    <3> QED
      BY <2>1, <3>1, <3>2, <3>3 DEF EvolutionIsGuarded
  <2> QED
    BY <2>3, <2>4
<1>2. ASSUME SameDocuments, UNCHANGED waived PROVE EvolutionIsGuarded'
  BY <1>2 DEF SameDocuments, EvolutionIsGuarded, RightBelow
<1>3. UNCHANGED schemas => SameDocuments
  BY DEF SameDocuments, Known
<1>4. \A id \in SchemaIds, v \in Versions : Deprecates(id, v) => UNCHANGED waived
  BY DEF Deprecates
<1> QED
  BY <1>1, <1>2, <1>3, <1>4, NextCases, DeprecateKeepsDocuments DEF vars

LEMMA InvariantHolds == Spec => []IInv
<1>1. Init => IInv
  BY DEF Init, IInv, TypeOK, LatestExists, LatestIsUnique, EvolutionIsGuarded,
         RightBelow, Known
<1>2. IInv /\ [Next]_vars => IInv'
  BY TypeStep, LatestExistsStep, LatestIsUniqueStep, EvolutionStep DEF IInv
<1> QED
  BY <1>1, <1>2, PTL DEF Spec

(* No two versions of a Schema that were ever published have the same        *)
(* precedence: publish_schema compares with the greatest one, deprecated     *)
(* versions included, so "latest" is one document.                           *)
THEOREM LatestIsUniqueAlways == Spec => []LatestIsUnique
<1>1. IInv => LatestIsUnique
  BY DEF IInv
<1> QED
  BY <1>1, InvariantHolds, PTL

(* Unless its caller said allow_breaking, a version never breaks the one     *)
(* right below it.                                                           *)
THEOREM EvolutionIsGuardedAlways == Spec => []EvolutionIsGuarded
<1>1. IInv => EvolutionIsGuarded
  BY DEF IInv
<1> QED
  BY <1>1, InvariantHolds, PTL

-----------------------------------------------------------------------------
(* Action properties *)

(* A published definition stays what it is, and deprecation is final.        *)
THEOREM PublishedForeverAlways == Spec => PublishedForever
<1> DEFINE Keeps ==
      \A id \in SchemaIds, v \in Versions : schemas[id][v] # Absent =>
        /\ schemas'[id][v] # Absent
        /\ schemas'[id][v].body = schemas[id][v].body
        /\ schemas[id][v].status = "DEPRECATED" => schemas'[id][v] = schemas[id][v]
<1>1. TypeOK /\ LatestExists /\ [Next]_vars => [Keeps]_vars
  <2> SUFFICES ASSUME TypeOK, LatestExists, [Next]_vars PROVE Keeps
    OBVIOUS
  <2>1. ASSUME NEW id \in SchemaIds, NEW v \in Versions, NEW body \in Bodies,
               NEW allow \in BOOLEAN, Adds(id, v, body, allow)
        PROVE  Keeps
    <3>1. AddedAbove(id, v, body)
      BY <2>1, AddsOneDocument
    <3> QED
      BY <3>1 DEF AddedAbove, Known
  <2>2. ASSUME NEW id \in SchemaIds, NEW v \in Versions, Deprecates(id, v)
        PROVE  Keeps
    <3>1. Known(id, v) /\ StoreDeprecation(id, v) /\ schemas[id][v].status # "DEPRECATED"
      BY <2>2 DEF Deprecates
    <3>2. /\ schemas'[id][v] # Absent
          /\ schemas'[id][v].body = schemas[id][v].body
          /\ \A i \in SchemaIds, w \in Versions :
               i # id \/ w # v => schemas'[i][w] = schemas[i][w]
      BY <3>1, DeprecateEffect, AbsentAssumption
    <3> QED
      BY <3>1, <3>2 DEF Known
  <2>3. UNCHANGED schemas => Keeps
    BY DEF Known
  <2> QED
    BY <2>1, <2>2, <2>3, NextCases DEF vars
<1>2. IInv => TypeOK /\ LatestExists
  BY DEF IInv
<1> QED
  BY <1>1, <1>2, InvariantHolds, PTL DEF Spec, PublishedForever

(* Every change of a publication or a Collection takes the next revision.    *)
THEOREM RevisionNamesStateAlways == Spec => RevisionNamesState
<1>1. [Next]_vars => [\/ revision' = revision + 1
                      \/ revision' = revision /\ UNCHANGED <<schemas, resources>>]_vars
  BY NextCases DEF Adds, Deprecates, vars
<1> QED
  BY <1>1, PTL DEF Spec, RevisionNamesState
=============================================================================
