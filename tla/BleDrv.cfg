CONSTANTS
  Wrap = 16
  Gap = 2
  MacLen = 3
  WordLen = 2
  Half = 6
  MaxLosses = 2
SPECIFICATION Spec
INVARIANTS AddressKept LedShowsLink InPhase
PROPERTIES Blinks OpensUp
