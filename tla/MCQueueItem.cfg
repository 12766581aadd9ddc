SPECIFICATION Spec
CONSTANTS
  Users = {u1, u2, u3}
  FileSize = 4
  BlockSize = 2
  MaxSegments = 2
  Faster <- AnyFaster
  MultiChunk = {TRUE, FALSE}
  FlushErrors = {"complete"}
  MaxFails = 1
SYMMETRY UserSymmetry
INVARIANTS
  TypeOK
  DoneOnDisk
  SegmentsAligned
  NoGhostDownload
PROPERTIES
  FileSpec
CHECK_DEADLOCK FALSE
