SPECIFICATION Spec
CONSTANTS
  a = a
  upperA = upperA
  n = n
  Null = Null
  Removal = Removal
  Absent = Absent
  Names = {1, 2, 3, 4, 5}
  Values <- MCValues
  Texts <- MCTexts
  Lower <- MCLower
  Documents <- MCDocuments
  Inputs <- MCInputs
INVARIANT StoredIsARecord
PROPERTY RoundsDecideValidity ImmutableFieldsKeep ValidationEnds
