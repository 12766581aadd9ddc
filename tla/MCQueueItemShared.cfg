SPECIFICATION Spec
CONSTANTS
  Users = {u1, u2}
  FileSize = 5
  BlockSize = 2
  MaxSegments = 2
  Faster <- AnyFaster
  MultiChunk = {TRUE}
  FlushErrors = {"complete"}
  MaxFails = 2
INVARIANTS
  NoSharedPart
CHECK_DEADLOCK FALSE
