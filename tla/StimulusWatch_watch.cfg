SPECIFICATION Spec
CONSTANTS
  Others = {"operator", "supervisor"}
  MaxFailures = 2
  ReleaseFails = FALSE
  FreezeFails = TRUE
  MaxOverrides = 2
  MaxStarts = 1
INVARIANT OneDevelopmentFreeze
PROPERTY FreezeFollowsSource
