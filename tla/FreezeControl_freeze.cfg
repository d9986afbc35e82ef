SPECIFICATION Spec
CONSTANTS
  HolderSources = {"welfare", "development"}
  MaxStack = 3
  MaxBoots = 2
  MaxOverrides = 2
  Corruption = TRUE
  Faults = {"boot", "perception"}
  Developing = TRUE
  MaxEdits = 1
  Editors = {"dashboard"}
PROPERTIES KeepsPromise WatchCatchesUp
