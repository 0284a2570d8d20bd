SPECIFICATION FairSpec
CONSTANTS
  r1 = r1
  r2 = r2
  old = old
  new = new
  Runs = {r1, r2}
  NumParts = 1
  FunctionParts = {}
  MaxIndex = 1
  PartIds = {old}
  Modes = {"start", "fresh", "purge"}
  Serial = FALSE
  FaultKinds = {"start", "crash"}
  MaxFaults = 1
  MaxEdits = 0
CHECK_DEADLOCK FALSE
PROPERTIES RunEnds
