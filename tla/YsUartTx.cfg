\* Two slots, two speeds, pointers that wrap after two laps.
CONSTANTS
  Num = 2
  PtrMod = 4
  Bauds = {1, 2}
  MaxMsgs = 5
SPECIFICATION TxFairSpec
INVARIANTS WholeInOrder NoRestartAtBootSpeed
PROPERTY QueueDrains
