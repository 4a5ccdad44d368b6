\* A create whose Schema is deprecated before it looks the Schema up again.
SPECIFICATION Spec
CONSTANTS
  v1 = v1  v2 = v2
  SchemaIds = {s1}
  Versions = {v1, v2}
  Bodies = {a}
  Resources = {r1}
  Rank <- MCRank
  Breaking = {}
  Absent = Absent
  AnyRevision = AnyRevision
  MaxRevision = 20
  Callers = {c1}
  MaxTries = 2
  ManageBound = 5
INVARIANTS
  FailedCreateIsMarked
CHECK_DEADLOCK FALSE
