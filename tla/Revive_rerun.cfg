SPECIFICATION Spec
CONSTANTS
  DevFiles = {readout, progress}
  Trees = {"own", "unnamed", "empty"}
  MaxFaults = 3
  readout = readout
  progress = progress
INVARIANT PartialNeverScaled
PROPERTIES NoStaleRestore EvidenceKept RerunCompletes
