SPECIFICATION Spec
CONSTANTS
  MaxRequests = 4
  MaxBoots = 1
  Others = {"welfare"}
  FailingWrites = {"result", "release"}
  ProgrammeFailures = {"request", "programme_end"}
  MaxOverrides = 1
INVARIANTS CapturedUnderOneFreeze
PROPERTIES NotLeftWithoutSenses NeverAnsweredTwice RequestsConclude ImplementsPreserveWatch
