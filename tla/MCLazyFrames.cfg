\* Two tasks that call up to four deep.  Tasks may stay suspended or all end.
SPECIFICATION FramesSpec
CONSTANTS
  Tasks = {t1, t2}
  Frames = {f1, f2, f3, f4}
  None = none
INVARIANT FrameHasOneOwner
PROPERTY CallsNest
CHECK_DEADLOCK FALSE
