SPECIFICATION Spec
CONSTANTS
  None = None
  DirOf <- AllDirOf
  Prints <- NoPrints
  Dotted <- NoDots
  Hostname = "here"
  Templates = {}
  FuelOfLoad = 3
  Dirs <- TwoDirs
  Worlds <- AllWorlds
  Commands <- AllCommands
  Processes = {p, q}
  MaxCommands = 2
  MaxFaults = 1
  Overlapping = TRUE
INVARIANTS TypeOK AcknowledgedApplied
PROPERTIES ReloadConverges
SYMMETRY Symmetry
CHECK_DEADLOCK FALSE
