SPECIFICATION Spec
CONSTANTS
  MaxDay = 1
  Clients = {c1}
  QueueSize = 1
  MaxEvents = 1
  MaxFaults = 0
  MaxRestarts = 0
INVARIANT HiddenLeavesNoTrace
