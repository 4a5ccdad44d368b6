SPECIFICATION Spec
CONSTANTS
  Absent = Absent
  Identifiers <- MCIdentifiers
  Versions    <- MCVersions
INVARIANTS
  PublishedAscend
  LatestIsHighest
  PrecedenceIsSemVer
