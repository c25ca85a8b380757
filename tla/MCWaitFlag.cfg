\* One CPU, as test/asyncTest.cpp and main.cpp start the kernel.
SPECIFICATION FairSpec
CONSTANTS
  Getters = {g1, g2, g3}
  Setter = s
  cpuNum_ = 1
INVARIANTS GetReturnsOnce
PROPERTIES GetReturns
CHECK_DEADLOCK FALSE
