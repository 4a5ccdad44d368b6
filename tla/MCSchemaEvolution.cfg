SPECIFICATION DocSpec
CONSTANTS
  a = a
  b = b
  big = big
  Null = Null
  Plain = Plain
  Values <- V
  Texts <- MCTexts
  Lower <- MCLower
  Width <- MCWidth
  Definitions <- MCDefinitions
  Documents <- Publishable
  Inputs <- MCInputs
INVARIANT MildStepsKeepTheRecord MildStepsCompose UnbrokenShape ReadBackIsTheSame RolesStayOpen
