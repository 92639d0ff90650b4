SPECIFICATION FairSpec
CONSTANTS
  MaxDay = 2
  Clients = {c1}
  QueueSize = 1
  MaxEvents = 2
  MaxFaults = 2
  MaxRestarts = 2
INVARIANTS AtMostOneLost  QueueIsNewest
PROPERTIES ReadableStays CatchesUp GoneIsForgotten ShutdownEnds
