\* Messages are accepted until the fifo is full while one is being sent.
CONSTANTS
  Num = 2
  PtrMod = 4
  Bauds = {1, 2}
  MaxMsgs = 5
SPECIFICATION TxSpec
INVARIANT NoOverwriteInFlight
