SPECIFICATION FairSpec
CONSTANTS
  c1 = c1
  c2 = c2
  c3 = c3
  Coros = {c1, c2, c3}
  Programs <- MCPrograms
  Watched = {c1}
INVARIANTS EntryPerWaiter NothingForgotten WriteExact
PROPERTIES OwedIsGiven ScanEnds
