\* The filter of the code, eight samples.
CONSTANTS
  Keys = {x}
  Bits = 8
  MaxLosses = 1
SPECIFICATION Spec
INVARIANTS NothingStuck
PROPERTIES LongPressUnpairs Debounced
