\* Three speeds stand for six: one below the default, one above; a filter
\* of three samples; power lost twice, so that a repair can be cut short too.
CONSTANTS
  MaxBaud = 2
  DefaultBaud = 1
  Bits = 3
  MaxLosses = 2
SPECIFICATION Spec
INVARIANTS Settled SpeedKept PressActsOnce
PROPERTIES LongPressDisconnects
