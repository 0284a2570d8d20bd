SPECIFICATION FairSpec
CONSTANTS
  r1 = r1
  r2 = r2
  old = old
  new = new
  Runs = {r1, r2}
  NumParts = 1
  FunctionParts = {}
  MaxIndex = 2
  PartIds = {old, new}
  Modes = {"start", "reload"}
  Serial = TRUE
  FaultKinds = {"start", "hook", "kill", "crash"}
  MaxFaults = 2
  MaxEdits = 1
CHECK_DEADLOCK FALSE
PROPERTIES Converges
