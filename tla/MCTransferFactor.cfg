SPECIFICATION Spec
CONSTANTS
  RObjects <- OneFactor
  DObjects <- MCNone
  Zone = 1
  StringsAsFactors = TRUE
INVARIANTS
  FactorsKeepNA
