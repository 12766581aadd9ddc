SPECIFICATION FairSpec
CONSTANTS
  Conns = {c1, c2}
  Downloads = {d1, d2}
  NoDownload = NoDownload
  Slots = 1
  ExtraSlots = 1
  MaxUpdates = 2
INVARIANT TypeOK
INVARIANT OnlyLive
PROPERTY SlotLimit
PROPERTY WakeUpServed
