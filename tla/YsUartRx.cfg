\* Two slots of two data bytes; pointers wrap after two laps; a length
\* wraps soon after it passes the slot size.
CONSTANTS
  Num = 2
  PtrMod = 4
  Size = 4
  LenMod = 6
  MaxBytes = 7
SPECIFICATION FairSpec
INVARIANTS TypeOK PrefixDelivered
PROPERTIES AllDelivered ImplementsPipe
