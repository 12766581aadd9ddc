SPECIFICATION FairSpec
CONSTANTS
  Callers = {c1, c2}
  MaxCalls = 4
INVARIANTS
  TypeOK
  SignalMatchesQueue
  NoStalledWrite
  NoCallOnFreed
PROPERTIES
  LifeSpec
  ShutdownDrains
  GracelessDies
  ThreadEnds
CHECK_DEADLOCK FALSE
