CONSTANTS
  MaxBaud = 2
  DefaultBaud = 1
  Bits = 2
  MaxLosses = 1
SPECIFICATION Spec
INVARIANT NameFits
