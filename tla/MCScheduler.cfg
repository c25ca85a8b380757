\* Two CPUs that can both sleep, an ICU that wakes them, three coroutines.
SPECIFICATION FairSpec
CONSTANTS
  CPUs = {cpu0, cpu1}
  ICUs = {icu}
  Handles = {a, b, c}
INVARIANTS NoLostWakeup FrameExclusive
PROPERTIES QueuedIsResumed
