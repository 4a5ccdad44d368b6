\* Every pair of constraints on every type, and what is stored under it.
SPECIFICATION FieldSpec
CONSTANTS
  None         = None
  Bits         = {2, 3}
  MaxPrecision = 3
  Bounds      <- MCBounds
  Numbers     <- MCNumbers
  Digits      <- MCDigits
  Exponents   <- MCExponents
  Strings     <- MCStrings
  MaxItems     = 2
  MaxDigits    = 4
  Places       = 2
INVARIANTS
  StoredIsAcceptedAgain
  DeclaredIsWhatDecides
CHECK_DEADLOCK FALSE
