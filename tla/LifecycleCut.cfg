SPECIFICATION Spec
CONSTANTS
  MaxStarts = 3
  MaxFaults = 5
INVARIANTS ReadyIsReached
CHECK_DEADLOCK FALSE
