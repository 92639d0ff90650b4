SPECIFICATION FairSpec
CONSTANTS
  a1 = a1
  a2 = a2
  d1 = d1
  e1 = e1
  Areas = {a1, a2}
  Devices = {d1}
  Entities = {e1}
  None = None
  Registries <- Keyed
  Overlap = FALSE
  MaxChanges = 3
  MaxFaults = 1
  MaxDisconnects = 1
  MaxRestarts = 1
INVARIANT SettledIndexIsCurrent
PROPERTY IndexConverges
