\* Three threads, each both a producer and a consumer, and two values.
SPECIFICATION FairSpec
CONSTANTS
  Threads = {t1, t2, t3}
  MaxEnqueues = 2
INVARIANTS HeldAlone
PROPERTIES FifoUnlessTorn SpinEnds
