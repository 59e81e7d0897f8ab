CONSTANTS
  RxNum = 2
  TxNum = 2
  Buffers = 1
  MaxChunks = 3
  MaxWrites = 3
  MaxSessions = 2
SPECIFICATION FairSpec
INVARIANTS UpWithoutGaps WritesInOrder
PROPERTIES SlotsServed EndToEnd
