SPECIFICATION SleepSpec
CONSTANTS
  Awake = 2
  Rest = 2
  Cuts = {"restart", "stop", "crash"}
  MaxTroubles = 2
INVARIANTS RestedInFull AwakeOutsideSleep
PROPERTIES RestsWhenDue SleepRecurs
