SPECIFICATION FairSessionSpec
CONSTANTS
  Scripts <- MCScripts
  RemoteData <- MCRemoteData
  BufCap = 10
INVARIANTS AnswersInOrder RelayedInOrder NothingAfterClose LivesWhilePeersDo
PROPERTIES SessionEnds RelayGoesOn
CHECK_DEADLOCK FALSE
