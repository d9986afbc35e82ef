SPECIFICATION DecommissionSpec
CONSTANTS
  NJobs = 1
  Services = {s1, s2}
  MaxCrashes = 1
  Colls = {c1}
  MaxFailures = 1
  MaxKills = 1
INVARIANTS PromotedWhole DeletedInOrder
PROPERTIES RemovedWhenDone Settles
CHECK_DEADLOCK FALSE
