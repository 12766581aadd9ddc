SPECIFICATION Spec
CONSTANTS
  u1 = u1
  u2 = u2
  c1 = c1
  c2 = c2
  Users = {u1}
  Conns = {c1, c2}
  UserOf <- OneUser
  Slots = 1
  AutoSlots = 0
  ExtraSlots = 1
  PartialSlots = 0
  MaxLost = 1
  MaxErrors = 1
INVARIANT SlotsCounted
INVARIANT UploadsAlive
INVARIANT NeverOvercounted
