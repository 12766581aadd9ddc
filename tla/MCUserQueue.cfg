SPECIFICATION Spec
CONSTANTS
  Items = {i1, i2}
  Users = {u1}
  NoItem = NoItem
  Highest = 1
  FileSlots = 1
  MaxChanges = 1
  MaxThreads = 1
SYMMETRY Symmetry
INVARIANT TypeOK
INVARIANT SourceListed
INVARIANT RunningIsDownload
INVARIANT NoPhantomDownload
