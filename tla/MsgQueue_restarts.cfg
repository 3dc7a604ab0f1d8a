CONSTANTS
  Process <- Two
  Pairings <- Pairs
  QueueCap = 2
  MaxQueues = 4
  MaxSends = 3
  MaxStops = 2
SPECIFICATION FairSpec
INVARIANTS TypeOK SendIdLive HearsOnlyOthers
PROPERTIES ImplementsChannel KeptUntilRead WaitingIsRead
CHECK_DEADLOCK FALSE
