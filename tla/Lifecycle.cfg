SPECIFICATION FairSpec
CONSTANTS
  MaxStarts = 3
  MaxFaults = 5
INVARIANTS TypeOK ReadyIsReachedUncut RemovedClean
PROPERTIES DeregisteredFirst Recovers
CHECK_DEADLOCK FALSE
