SPECIFICATION Spec
CONSTANTS
  r1 = r1
  r2 = r2
  old = old
  new = new
  Runs = {r1, r2}
  NumParts = 2
  FunctionParts = {2}
  MaxIndex = 2
  PartIds = {old, new}
  Modes = {"start", "reload", "fresh", "stop", "purge"}
  Serial = TRUE
  FaultKinds = {"hook", "start", "kill", "timeout"}
  MaxFaults = 1
  MaxEdits = 1
SYMMETRY Symmetry
INVARIANTS TypeOK NoDowntime
PROPERTIES ReadyMeansServed StopStopsAll RemovedOnlyWhenStopped StaysServed
