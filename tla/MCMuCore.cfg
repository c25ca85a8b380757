\* Four coroutines: one holds, one is handed the lock, one waits, one arrives.
SPECIFICATION FairSpec
CONSTANTS
  Tasks = {1, 2, 3, 4}
  BlindTasks = {}
INVARIANTS MutualExclusion OwnerCanUnlock NoStrandedWaiter
PROPERTIES LockGranted LockSpec
