---------------------------- MODULE MCRelationRecords ----------------------------
EXTENDS RelationRecords

CONSTANTS c1, c2, c3

\* Directed and not, between two Collections or three, and one to itself.
MCProfiles ==
  {[source |-> {c1}, target |-> {c2}, directed |-> TRUE],
   [source |-> {c1}, target |-> {c2}, directed |-> FALSE],
   [source |-> {c1, c3}, target |-> {c2}, directed |-> FALSE],
   [source |-> {c1}, target |-> {c2, c3}, directed |-> TRUE],
   [source |-> {c1}, target |-> {c1, c2}, directed |-> FALSE]}
=============================================================================
