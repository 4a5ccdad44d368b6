SPECIFICATION RelationSpec
CONSTANTS
  c1 = c1
  c2 = c2
  c3 = c3
  Collections = {c1, c2, c3}
  Profiles   <- MCProfiles
  NoRecord    = NoRecord
INVARIANTS
  TraversalFindsRecords
