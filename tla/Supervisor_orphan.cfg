SPECIFICATION Spec
CONSTANTS
  N = 1
  Heavy = {1}
  MaxAttempts = 2
  EscalateOnCrash = TRUE
  Others = {"operator"}
  FailureKinds = {"unchanged"}
  MaxFaults = 1
  MaxStack = 2
  IOFaults = FALSE
PROPERTY RecoveryReleases
CHECK_DEADLOCK FALSE
