SPECIFICATION Spec
CONSTANTS
    business = business
    Orders = {business, o1, o2}
    Drivers = {d1, d2}
    TaxiTypes = {"economy", "business"}
    DefaultType = "economy"
    OrderType <- MCOrderType
    SelfSet = {"available", "on-trip", "offline"}
    Faults = {"caller", "network", "retry"}
    NoDriver = NoDriver
SYMMETRY Symmetry
INVARIANTS
    DriversAreNotShared
    HeldIsOnTrip
    OnTripIsAccountedFor
CHECK_DEADLOCK FALSE
