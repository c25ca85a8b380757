\* Two clients and a descriptor for one of them.
SPECIFICATION FairServerSpec
CONSTANTS
  Clients = {c1, c2}
  Nobody = nobody
  FdLimit = 1
  Data <- MCData
  BufCap = 2
INVARIANTS EveryDescriptorIsOwned EchoesInOrder
PROPERTIES PendingIsAccepted EchoedOrClosed
CHECK_DEADLOCK FALSE
