SPECIFICATION RequestSpec
CONSTANTS
  Methods <- MCMethods
  Paths <- MCPaths
  RoleSets <- MCRoleSets
  Origins = {"client", "auth_service", "order_service", "driver_service"}
  Faults = {"down", "time"}
INVARIANTS
  AnsweredWereAllowed
  InternalStaysInside
  EndpointsAreServed
CHECK_DEADLOCK FALSE
