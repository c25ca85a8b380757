\* Two ICUs, one of them main's, and a CPU.  A kernel may be left asleep.
SPECIFICATION FairSpec
CONSTANTS
  Cate <- MCCate
  MaxReady = 2
INVARIANT OrderlyLife
PROPERTY LoopsStartAndEnd
CHECK_DEADLOCK FALSE
