\* Two coroutines, three descriptors over three ICUs.
SPECIFICATION FairSpec
CONSTANTS
  Coros = {c1, c2}
  Fds = {f1, f2, f3}
  icuNum_ = 3
INVARIANTS LoadOrder TableMatchesEpoll
PROPERTIES CallReturns
