SPECIFICATION Spec
CONSTANTS
  Requests = {r1}
  Workers = {w1}
  RefreshLimit = 1
  MaxObjects = 2
  MaxCredentials = 3
  MaxCommands = 2
  MaxFaults = 2
CHECK_DEADLOCK FALSE
INVARIANTS ObjectsFollowRow ExchangedOnce ScheduleKept
PROPERTY CommitsKept
