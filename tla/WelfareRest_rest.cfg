SPECIFICATION RestSpec
CONSTANTS
  Responses = {"pause", "notify"}
  EarlyTimers = TRUE
  MaxUnread = 1
  MaxFaults = 1
  MaxRestarts = 1
  MaxReleases = 1
  MaxNotices = 2
INVARIANT FreshMeansRested
PROPERTY UnrelievedIsAnswered
