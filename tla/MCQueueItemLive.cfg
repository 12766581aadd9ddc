SPECIFICATION FairSpec
CONSTANTS
  Users = {u1, u2}
  FileSize = 5
  BlockSize = 2
  MaxSegments = 2
  Faster <- OneFaster
  MultiChunk = {TRUE}
  FlushErrors = {"complete"}
  MaxFails = 2
PROPERTIES
  AllReceived
CHECK_DEADLOCK FALSE
