SPECIFICATION Spec
CONSTANTS
  None = None
  Units <- TwoDeployments
  Parent <- ServiceOfTwo
  Items <- OfTwo
  Mounts <- Arrays
  Home <- HostsInRoute
  Scalars <- Hosts
  FaultKinds = {"refused", "status", "lost", "restart"}
  MaxFaults = 5
  Orders = {"start", "stop"}
  MaxOrders = 4
INVARIANTS TypeOK ActiveMeansRegistered InactiveMeansGone NoDuplicate RetryDeregisters
PROPERTIES ImplementsConfigUnits
CHECK_DEADLOCK FALSE
