SPECIFICATION FairSpec
CONSTANTS
  None = None
  Units <- TwoDeployments
  Parent <- ServiceOfTwo
  Items <- OfTwo
  Mounts <- Arrays
  Home <- HostsInRoute
  Scalars <- Hosts
  FaultKinds = {"restart"}
  MaxFaults = 2
  Orders = {"start"}
  MaxOrders = 3
PROPERTIES Refreshed
CHECK_DEADLOCK FALSE
