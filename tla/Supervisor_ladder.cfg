SPECIFICATION Spec
CONSTANTS
  N = 2
  Heavy = {2}
  MaxAttempts = 2
  EscalateOnCrash = TRUE
  Others = {"operator", "development"}
  FailureKinds = {"unchanged", "emptied", "replaced"}
  MaxFaults = 2
  MaxStack = 3
  IOFaults = TRUE
INVARIANT RepairUnderFreeze
PROPERTIES ForeignFreezesKept CrashAnswered
CHECK_DEADLOCK FALSE
