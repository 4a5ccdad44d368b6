\* One Schema with colliding precedences and one Collection.
SPECIFICATION Spec
CONSTANTS
  SchemaIds = {s1}
  v1 = v1  v2 = v2  v2b = v2b  v3 = v3
  a = a  b = b
  Versions = {v1, v2, v2b, v3}
  Bodies = {a, b}
  Resources = {r1}
  Rank <- MCRank
  Breaking <- MCBreaking
  Absent = Absent
  AnyRevision = AnyRevision
  MaxRevision = 5
INVARIANTS
  TypeOK
  LatestIsUnique
  EvolutionIsGuarded
PROPERTIES
  PublishedForever
  RevisionNamesState
CHECK_DEADLOCK FALSE
