SPECIFICATION Spec
CONSTANTS
  Areas = {1, 2}
  None = None
  Epoch = 100
  HourLen = 2
  DayHours = 2
  ActiveTime = 2
  RefreshTime = 1
  BatchSize = 2
  Limit = 1
  MaxTime = 4
  MaxEvents = 2
  MaxPages = 2
  MaxRefreshes = 1
PROPERTIES DayWindow ActiveAfterEvent EventsPerHourExact
