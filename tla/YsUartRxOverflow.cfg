\* The same instance; the fifo fills up while the handler refuses.
CONSTANTS
  Num = 2
  PtrMod = 4
  Size = 4
  LenMod = 6
  MaxBytes = 7
SPECIFICATION Spec
INVARIANT InOrderOnce
