CONSTANTS
  Callbacks = {a, b, c}
  Intervals = {3, 4}
  MaxTimers = 3
  Wrap = 32
  Quarter = 8
  Pre = 1
  Post = 5
  Near = 3
  Far = 4
  Gap = 1
  Drives = 4
  Scans = 3
  Fn <- MiddleFn
  MaxKeys = 2
  Linger = 6
  BufNum = 2
  Modes = {"read", "hold", "invalid"}
  MaxChanges = 12
  Bouncing <- Stairs
  MaxBounces = 5
SPECIFICATION Spec
\* the contacts have moved as often as they may
CHECK_DEADLOCK FALSE
INVARIANTS TriggeredSequentially SkipsBounded NeverForgotten GhostsExact BufferKeepsNewest
PROPERTIES NoPhantom KeysFollow
