SPECIFICATION CycleSpec
CONSTANTS
  Batch = 2
  Processing = 5
  Experiential = 5
  SetRates <- MCSetRates
  GuardTimeout = 2
  MaxArrivals = 2
  MaxFaults = 1
  MaxRestarts = 1
  Unit = 20
INVARIANTS HandledOnceInOrder BroadcastsKeepPace OneUtteranceInFlight OneTickAfterPause
PROPERTIES CatchesUp NeverMuteForGood
