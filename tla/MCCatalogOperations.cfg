\* Two clients, three versions, a breaking and a malformed body, nine asks.
SPECIFICATION MCSpec
CONSTANTS
  v1 = v1  v2 = v2  v3 = v3
  a = a  b = b  bad = bad
  s1 = s1  r1 = r1
  SchemaIds = {s1}
  Versions = {v1, v2, v3}
  Bodies = {a, b, bad}
  Malformed = {bad}
  Resources = {r1}
  Rank <- MCRank
  Breaking <- MCBreaking
  Absent = Absent
  AnyRevision = AnyRevision
  NotNamed = NotNamed
  MaxRevision = 10
  Clients = {c1, c2}
  Calls <- MCCalls
  Asks <- MCAsks
  MaxCalls = 2
  MaxSent = 2
  MaxDeliveries = 2
SYMMETRY MCSymmetry
INVARIANTS
  PinnedUpdateFollowsCurrent
  RepetitionIsIdempotent
  SurfaceSpeaksTheContract
  NoLostUpdate
  RepeatsAreHarmless
CHECK_DEADLOCK FALSE
