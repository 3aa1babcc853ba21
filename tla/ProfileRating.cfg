SPECIFICATION RequestSpec
CONSTANTS
  Methods = {}
  Paths = {}
  RoleSets = {}
  Origins = {"auth_service", "order_service", "driver_service"}
  Faults = {"down"}
INVARIANT CallsAreServed
CHECK_DEADLOCK FALSE
