\* Two relations over three Collections, depths 1 to 3 and two refused ones.
SPECIFICATION MCSpec
CONSTANTS
  a = a  b = b  c = c  r = r  s = s
  main = main  other = other
  Refs = {a, b, c, r, s}
  Profiles <- MCProfiles
  Bindings = {main, other}
  Depths = {0, 1, 2, 3}
  Absent = Absent
  Asks <- MCAsks
  MaxMoves = 1
INVARIANTS
  StalenessShows
  SelectsTheNeighborhood
CHECK_DEADLOCK FALSE
