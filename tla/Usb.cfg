CONSTANTS
  Packet = 2
  Descs = {"device", "report"}
  Size <- TwoSizes
  Lengths = {1, 2, 4, 7}
  Writes = 4
  MaxPackets = 3
  MaxLost = 2
  k1 = k1
  Keys = {k1}
  RingNum = 2
  FifoNum = 2
  PtrMod = 4
  MaxEvents = 3
SPECIFICATION UsbSpec
\* everything has been written and sent, or the last event reported
CHECK_DEADLOCK FALSE
INVARIANTS ReplyIsPrefix ReplyIsWhole Refused StreamWhole FreedOnceAfterSent FifoKeepsNewest TogglesAgree
PROPERTIES TransfersEnd AllSent HostFollows
