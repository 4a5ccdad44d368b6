-------------------------- MODULE NeighborTraversal --------------------------
(***************************************************************************)
(* resolve_all_neighbors (publication.py 584-645): the relation            *)
(* Collections within maxDepth hops of a Collection, in one snapshot of    *)
(* the registry.  One step per round of the code's loop.                   *)
(***************************************************************************)
EXTENDS Integers

CONSTANTS
  Refs,        \* references of Collections
  Profiles,    \* the relation profiles Schemas declare
  Bindings,    \* what binding_of may answer
  Depths,      \* the maxDepth callers ask for
  Absent       \* no relation profile; no binding_of

RelationProfile == [sources : SUBSET Refs \ {{}}, targets : SUBSET Refs \ {{}},
                    directed : BOOLEAN]

ASSUME ProfilesAssumption == Profiles \subseteq RelationProfile
ASSUME DepthsAssumption   == Depths \subseteq Int
ASSUME AbsentAssumption   == Absent \notin RelationProfile \cup [Refs -> Bindings]

VARIABLES
  active,     \* resources: the ACTIVE Collections of the snapshot
  profile,    \* the relation profile of the Schema each Collection pins, if
              \* the snapshot has that Schema and it is a relation
  shown,      \* what visible() lets the caller see
  binding,    \* binding_of
  start, maxDepth,
  frontier, visited, selected, depth,
  outcome     \* "called", "expanding", and then how the call ends

inputs == <<active, profile, shown, binding, start, maxDepth>>
vars   == <<inputs, frontier, visited, selected, depth, outcome>>

Relations == {r \in active : profile[r] # Absent}

\* RelationProfile.neighbors
Neighbors(r, collection) ==
  {n \in Refs :
     \/ collection \in profile[r].sources /\ n \in profile[r].targets
     \/ /\ ~profile[r].directed
        /\ collection \in profile[r].targets /\ n \in profile[r].sources}

Touching(collection) ==
  {r \in Relations : r \in shown /\ Neighbors(r, collection) # {}}

\* One hop: over a visible relation to a visible, active Collection.
Hop(collection, n) ==
  /\ n \in active /\ n \in shown
  /\ \E r \in Touching(collection) : n \in Neighbors(r, collection)

-----------------------------------------------------------------------------
Init ==
  /\ active  \in SUBSET Refs
  /\ profile \in [Refs -> Profiles \cup {Absent}]
  /\ shown   \in SUBSET Refs
  /\ binding \in [Refs -> Bindings] \cup {Absent}
  /\ start   \in Refs
  /\ maxDepth \in Depths
  /\ frontier = {} /\ visited = {} /\ selected = {}
  /\ depth = 0
  /\ outcome = "called"

Begin ==
  /\ outcome = "called"
  /\ outcome' = IF maxDepth \notin 1..32      THEN "ValueError"
                ELSE IF start \notin active   THEN "ResourceNotFound"
                                              ELSE "expanding"
  /\ frontier' = {start} /\ visited' = {start}
  /\ UNCHANGED <<inputs, selected, depth>>

\* Mutant: a round selects after it has moved on.
ExpandAfterMove ==
  /\ outcome = "expanding" /\ depth < maxDepth /\ frontier # {}
  /\ frontier' = {n \in Refs \ visited : \E c \in frontier : Hop(c, n)}
  /\ selected' = selected \cup UNION {Touching(c) : c \in frontier'}
  /\ visited' = visited \cup frontier'
  /\ depth' = depth + 1
  /\ UNCHANGED <<inputs, outcome>>

\* One round of "for _depth in range(max_depth)".  visited is the one of the
\* rounds before, for every Collection of the frontier.
Expand ==
  /\ outcome = "expanding" /\ depth < maxDepth /\ frontier # {}
  /\ selected' = selected \cup UNION {Touching(c) : c \in frontier}
  /\ frontier' = {n \in Refs \ visited : \E c \in frontier : Hop(c, n)}
  /\ visited' = visited \cup frontier'
  /\ depth' = depth + 1
  /\ UNCHANGED <<inputs, outcome>>

\* The rounds are used up, or there is nothing left to expand.  Everything
\* selected or visited has to have the binding of the start.
Finish ==
  /\ outcome = "expanding" /\ (depth = maxDepth \/ frontier = {})
  /\ outcome' = IF binding # Absent
                     /\ \E ref \in selected \cup visited : binding[ref] # binding[start]
                  THEN "CapabilityMismatch" ELSE "resolved"
  /\ UNCHANGED <<inputs, frontier, visited, selected, depth>>

Next == Begin \/ Expand \/ Finish

Spec == Init /\ [][Next]_vars

-----------------------------------------------------------------------------
(* The walk stays among the Collections and counts no more rounds than asked. *)
TypeOK ==
  /\ active \subseteq Refs /\ shown \subseteq Refs /\ start \in Refs
  /\ profile \in [Refs -> Profiles \cup {Absent}]
  /\ maxDepth \in Depths
  /\ frontier \subseteq Refs /\ visited \subseteq Refs /\ selected \subseteq Refs
  /\ depth \in Nat /\ depth <= 32 /\ (depth = 0 \/ depth <= maxDepth)
  /\ outcome \in {"called", "expanding", "resolved", "ValueError", "ResourceNotFound",
                  "CapabilityMismatch"}

\* Reference: where walks of at most n hops lead.
Walks(n) ==
  {w \in [0..n -> Refs] : w[0] = start /\ \A i \in 1..n : w[i] = w[i - 1] \/ Hop(w[i - 1], w[i])}

Within(n) == {w[n] : w \in Walks(n)}

(* What is selected is exactly the visible relations of the Collections that *)
(* walks of less than maxDepth hops lead to: expanding every Collection only *)
(* once and stopping at an empty frontier lose none, and none is added.      *)
SelectsTheNeighborhood ==
  outcome \in {"resolved", "CapabilityMismatch"} =>
    selected = UNION {Touching(c) : c \in Within(maxDepth - 1)}

(* The Binding decides how an ended walk answers, whatever the order of its  *)
(* rounds: it is resolved iff no Binding is asked for, or the start, all     *)
(* that walks of up to maxDepth hops lead to and the relations selected have *)
(* one (publication.py 635-644).  The Collections of the last round count,   *)
(* although their relations are not selected.                                *)
BindingDecides ==
  outcome \in {"resolved", "CapabilityMismatch"} =>
    LET reached == Within(maxDepth) \cup UNION {Touching(c) : c \in Within(maxDepth - 1)}
    IN  outcome = "resolved" <=>
          binding = Absent \/ \A ref \in reached : binding[ref] = binding[start]

(* Whatever has been passed was expanded in full: its visible relations are  *)
(* selected and its neighbors visited, so a Collection never has to be       *)
(* expanded again.                                                           *)
NothingLeftBehind ==
  \A c \in visited \ frontier :
    /\ Touching(c) \subseteq selected
    /\ \A n \in Refs : Hop(c, n) => n \in visited

(* The walk stays inside what the caller may see and what is active: every   *)
(* Collection visited but the start, and every relation selected, is both,   *)
(* and a selected relation touches a visited Collection.                     *)
StaysInSight ==
  /\ visited \ {start} \subseteq active \cap shown
  /\ \A r \in selected : r \in Relations /\ r \in shown /\ \E c \in visited : r \in Touching(c)
=============================================================================
