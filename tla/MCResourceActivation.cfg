\* Two callers, two tries each.
SPECIFICATION Spec
CONSTANTS
  v1 = v1  v2 = v2
  SchemaIds = {s1}
  Versions = {v1, v2}
  Bodies = {a}
  Resources = {r1, r2}
  Rank <- MCRank
  Breaking = {}
  Absent = Absent
  AnyRevision = AnyRevision
  MaxRevision = 20
  Callers = {c1, c2}
  MaxTries = 2
  ManageBound = 5
INVARIANTS
  ActivationOwnsItsCollection
  ActivatedIsApplied
PROPERTIES
  LiveBundleIsClosed
  StatesMoveOn
  ProvisioningSettles
CHECK_DEADLOCK FALSE
