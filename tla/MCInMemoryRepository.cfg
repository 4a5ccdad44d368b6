\* Two threads, every operation, two calls each.
SPECIFICATION Spec
CONSTANTS
  s1 = s1
  v1 = v1  v2 = v2
  a = a  b = b
  r1 = r1
  SchemaIds = {s1}
  Versions = {v1, v2}
  Bodies = {a, b}
  Resources = {r1}
  Rank <- MCRank
  Breaking <- MCBreaking
  Absent = Absent
  AnyRevision = AnyRevision
  MaxRevision = 6
  Threads = {t1, t2}
  Calls <- MCCalls
  MaxCalls = 2
  Nobody = Nobody
INVARIANTS
  SnapshotIsOneRevision
  PinnedChangeFollowsItsPin
PROPERTIES
  AtomicSpec
  CallsReturn
CHECK_DEADLOCK FALSE
