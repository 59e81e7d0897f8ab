\* The line becomes slower than it was at boot.
CONSTANTS
  Num = 2
  PtrMod = 4
  Bauds = {1, 2}
  MaxMsgs = 5
SPECIFICATION TxSpec
INVARIANT NoRestart
