SPECIFICATION Spec
CONSTANTS
  e1 = e1
  e2 = e2
  a1 = a1
  a2 = a2
  Entities = {e1, e2}
  Areas = {a1, a2}
  None = None
  Unknown = Unknown
  Snapshots = {1}
  AreaOf <- OneSnapshot
  HidePatterns <- HideNothing
  BatchSize = 2
  HourLen = 1
  MayStop = FALSE
  MaxEvents = 3
  MaxTime = 0
  MaxFaults = 1
  MaxRestarts = 0
INVARIANT OneRowPerEvent
