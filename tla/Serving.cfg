SPECIFICATION FairSpec
CONSTANTS
  Kinds <- AllKinds
  Clients = {c1, c2, c3}
  Requests <- AllRequests
  Outputs <- AllOutputs
  Preambles <- AllPreambles
  Strip = 1
  MaxRequests = 3
  MaxSignals = 1
INVARIANTS TypeOK TimerMeansIdle DroppedOnlyLate CgiIsTransparent
PROPERTIES WaitingIsTaken EndsWhenIdle
CHECK_DEADLOCK FALSE
