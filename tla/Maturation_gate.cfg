SPECIFICATION Spec
CONSTANTS
  NeedsAck = TRUE
  MinSleeps = 1
  PageSize = 2
  MaxSleeps = 3
  MaxFaults = 3
  MaxChanges = 1
  MaxRequests = 5
INVARIANTS SleepsCountedOnce ConfinedWhileDeveloping
PROPERTIES MaturesAsAsked ReadyMatures
CHECK_DEADLOCK FALSE
