SPECIFICATION FairSpec
CONSTANTS
  InitialBackoff = 1
  MaxBackoff = 3
  HasDeadline = TRUE
  MayStop = TRUE
  MaxEvents = 3
  MaxFaults = 3
INVARIANTS
  TypeOK
  ConnectedIsSubscribed
  DeliveredInOrder
  OneEventAfterStop
  GivesUpOnlyWhenTold
PROPERTIES
  IdsGrow
  Reconnects
  StopEndsRun
