SPECIFICATION Spec
CONSTANTS
  RObjects <- MCRObjects
  DObjects <- MCDObjects
  Zone = 1
  StringsAsFactors = TRUE
INVARIANTS TypeOK StreamDrained RoundTrip ValuesArrive
