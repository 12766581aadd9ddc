SPECIFICATION FairSpec
CONSTANTS
  Files = {f1, f2}
  Dirs = {{f1}, {f1, f2}}
  NoFile = NoFile
  Blocks = 2
  Sharers = {refresh, ui}
  Gui = ui
  MaxSignals = 3
INVARIANT TypeOK
INVARIANT NoFileStranded
INVARIANT RunningHasWork
INVARIANT WholeTrees
CHECK_DEADLOCK FALSE
PROPERTY HashingEnds
PROPERTY JoinUnlessPaused
