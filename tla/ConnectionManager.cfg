SPECIFICATION FairSpec
CONSTANTS
  Users = {u1}
  Conns = {c1, c2}
  NoUser = NoUser
  PerSecond = 1
INVARIANT TypeOK
INVARIANT UploadsMatch
INVARIANT ActiveIsManaged
INVARIANT RemovedIsQueued
PROPERTY WaitingMoves
PROPERTY ConnectingEnds
