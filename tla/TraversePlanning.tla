--------------------------- MODULE TraversePlanning ---------------------------
(***************************************************************************)
(* How a call of traverse becomes an Operation (catalogs.py 256-282,       *)
(* 427-463, 566-603), and the registry that moves on meanwhile.  With      *)
(* allNeighbors the relations are resolved against a snapshot while the    *)
(* Operation is planned (NeighborTraversal is that walk), and the          *)
(* Operation carries the fingerprint of the snapshot with them.            *)
(***************************************************************************)
EXTENDS NeighborTraversal

CONSTANTS
  Asks,      \* calls of resolve_all_neighbors, and of traverse
  MaxMoves   \* bound: changes of the registry after the snapshot

VARIABLES
  ask,       \* the call that is made
  present,   \* the registry; the walk sees the one of the snapshot
  operation  \* the Operation, once it is planned

planVars == <<ask, present, operation>>
allVars  == <<vars, planVars>>

\* planned: a call of traverse, that names relations or asks for all neighbors,
\* to a provider with or without a relation_resolver.
Ask == [planned : BOOLEAN, relations : SUBSET Refs, all : BOOLEAN, resolver : BOOLEAN]

ASSUME AsksAssumption == Asks \subseteq Ask

\* The fingerprint hashes the revision and all documents: it stands for them.
Fingerprint(revision, nowActive, nowProfile) ==
  [revision |-> revision, active |-> nowActive, profile |-> nowProfile]

PlanInit ==
  /\ Init
  /\ ask \in Asks
  /\ present = Fingerprint(0, active, profile)
  /\ operation = Absent

\* Exactly one of relationCollections and allNeighbors, and a depth in range.
Contradictory == (ask.relations # {}) = ask.all

AcceptableTraverse == maxDepth \in 1..32 /\ ~Contradictory

Planning == ask.planned /\ outcome = "called"

\* The surface raises before there is an Expression (catalogs.py 270-273).
SurfaceRefuses ==
  /\ Planning /\ Contradictory
  /\ outcome' = "ValueError"
  /\ UNCHANGED <<inputs, frontier, visited, selected, depth, planVars>>

\* The provider, on an Expression that the surface or somebody else has made.
Refuse ==
  /\ Planning
  /\ ~AcceptableTraverse \/ (ask.all /\ ~ask.resolver)
  /\ outcome' = "InvalidDefinition"
  /\ UNCHANGED <<inputs, frontier, visited, selected, depth, planVars>>

\* The Operation names the start and the relations, each once.
Plan(relations, fingerprint) ==
  operation' = [resources |-> {start} \cup relations, relations |-> relations,
                registryFingerprint |-> fingerprint]

PlanNamed ==
  /\ Planning /\ AcceptableTraverse /\ ~ask.all
  /\ Plan(ask.relations, Absent)
  /\ outcome' = "planned"
  /\ UNCHANGED <<inputs, frontier, visited, selected, depth, ask, present>>

\* The resolver takes the snapshot and walks.
Resolve ==
  /\ outcome = "called" /\ ask.planned => AcceptableTraverse /\ ask.all /\ ask.resolver
  /\ Next
  /\ UNCHANGED planVars

\* Mutant: the fingerprint is asked for when the walk is over.
ResolvedAgainstPresent == present

ResolvedAgainst == Fingerprint(0, active, profile)

PlanResolved ==
  /\ ask.planned /\ outcome = "resolved"
  /\ Plan(selected, ResolvedAgainst)
  /\ outcome' = "planned"
  /\ UNCHANGED <<inputs, frontier, visited, selected, depth, ask, present>>

\* A Collection is activated or deprecated, or pins another Schema.
Move(ref, toActive, toProfile) ==
  /\ present.revision < MaxMoves
  /\ present' = Fingerprint(present.revision + 1,
                            IF toActive THEN present.active \cup {ref} ELSE present.active \ {ref},
                            [present.profile EXCEPT ![ref] = toProfile])
  /\ UNCHANGED <<vars, ask, operation>>

PlanNext ==
  \/ SurfaceRefuses \/ Refuse \/ PlanNamed \/ Resolve \/ PlanResolved
  \/ \E ref \in Refs, toActive \in BOOLEAN, toProfile \in Profiles \cup {Absent} :
       Move(ref, toActive, toProfile)

PlanSpec == PlanInit /\ [][PlanNext]_allVars

-----------------------------------------------------------------------------
\* The same call, expanded in the present registry.
Now == INSTANCE NeighborTraversal WITH active <- present.active, profile <- present.profile

(* An Operation planned from allNeighbors names, besides its start, exactly  *)
(* the relations a walk would select now, unless its registryFingerprint     *)
(* differs from that of the present registry: a plan that has gone stale can *)
(* always be told from one that has not.                                     *)
StalenessShows ==
  outcome = "planned" /\ ask.all =>
    \/ operation.registryFingerprint # present
    \/ /\ operation.relations = UNION {Now!Touching(c) : c \in Now!Within(maxDepth - 1)}
       /\ operation.resources = operation.relations \cup {start}
=============================================================================
