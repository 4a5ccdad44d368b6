------------------------- MODULE MCTraversePlanning -------------------------
(* Three Collections and two relation Collections that join them.  The start *)
(* is fixed, hidden or inactive is at most one Collection, and the relations *)
(* go from one Collection to one or two.  The registry moves on once, where  *)
(* everything is visible: Collection b or relation s comes or goes.          *)
EXTENDS TraversePlanning, FiniteSets

CONSTANTS a, b, c, r, s, main, other

MCProfiles ==
  [sources : {{a}, {b}, {c}}, targets : {t \in SUBSET {a, b, c} : Cardinality(t) \in 1..2},
   directed : BOOLEAN]

AllButOne == {t \in SUBSET Refs : Cardinality(Refs \ t) <= 1}

AllNeighbors == [planned |-> TRUE, relations |-> {}, all |-> TRUE, resolver |-> TRUE]

MCAsks ==
  {AllNeighbors,
   [AllNeighbors EXCEPT !.planned = FALSE], [AllNeighbors EXCEPT !.resolver = FALSE],
   [AllNeighbors EXCEPT !.relations = {r}],
   [AllNeighbors EXCEPT !.relations = {r}, !.all = FALSE]}

MCInit ==
  /\ start = a
  /\ active \in AllButOne
  /\ shown \in AllButOne
  /\ \E p, q \in Profiles :
       profile = [ref \in Refs |-> IF ref = r THEN p ELSE IF ref = s THEN q ELSE Absent]
  /\ binding \in {Absent, [ref \in Refs |-> IF ref = c THEN other ELSE main]}
  /\ maxDepth \in Depths
  /\ ask \in Asks
  /\ ask # AllNeighbors => shown = Refs /\ binding = Absent
  /\ frontier = {} /\ visited = {} /\ selected = {}
  /\ depth = 0
  /\ outcome = "called"
  /\ present = Fingerprint(0, active, profile)
  /\ operation = Absent

MCNext ==
  \/ SurfaceRefuses \/ Refuse \/ PlanNamed \/ Resolve \/ PlanResolved
  \/ \E ref \in {b, s} :
       /\ outcome \in {"resolved", "planned"} /\ shown = Refs /\ binding = Absent
       /\ Move(ref, ref \notin present.active, present.profile[ref])

MCSpec == MCInit /\ [][MCNext]_allVars
=============================================================================
