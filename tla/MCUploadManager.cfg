SPECIFICATION FairSpec
CONSTANTS
  u1 = u1
  u2 = u2
  c1 = c1
  c2 = c2
  Users = {u1, u2}
  Conns = {c1, c2}
  UserOf <- EachHisOwn
  Slots = 1
  AutoSlots = 0
  ExtraSlots = 1
  PartialSlots = 1
  MaxLost = 0
  MaxErrors = 0
INVARIANT TypeOK
PROPERTY LineSpec
PROPERTY QueueMoves
