SPECIFICATION Spec
CONSTANTS
  Items = {i1, i2}
  Users = {u1}
  NoItem = NoItem
  Highest = 2
  FileSlots = 0
  MaxChanges = 1
  MaxThreads = 1
INVARIANT HighestPriority
