SPECIFICATION Spec
CONSTANTS
  None = None
  Units <- TwoDeployments
  Parent <- ServiceOfTwo
  Items <- SameId
  Mounts <- Arrays
  Home <- HostsInRoute
  Scalars <- Hosts
  FaultKinds = {}
  MaxFaults = 0
  Orders = {"start", "stop"}
  MaxOrders = 4
INVARIANTS ActiveMeansRegistered
CHECK_DEADLOCK FALSE
