SPECIFICATION TextSpec
CONSTANTS
  Null      = Null
  Locales  <- MCLocales
  First    <- MCFirst
  Later    <- MCLater
  Nodes    <- MCNodes
  Messages <- MCMessages
  Denotes  <- MCDenotes
  Plain     = {"=0", "=1"}
  Arguments = {"n", "g"}
  Given    <- MCGiven
  MaxGiven  = 2
INVARIANTS
  ResolvesToNearest
  PoundIsInnermost
  SlavicFormsApply
PROPERTIES
  FormatAnswers
CHECK_DEADLOCK FALSE
