SPECIFICATION SerialSpec
CONSTANTS
    Orders = {o1, o2, o3}
    Users = {u1}
    Drivers = {d1, d2}
    Slots = {s1, s2}
    TaxiTypes = {"economy"}
    Ratings = {5}
    Faults = {"kafka"}
    SelfSet = {}
    NoDriver = NoDriver
    NoRating = NoRating
    NoOrder = NoOrder
    Rider <- MCRider
    Price <- MCPrice
    InitialBalance <- MCBalance2
    OrderType <- MCOrderType
    DriverType <- MCDriverType
SYMMETRY Symmetry
INVARIANTS
    CancelReleasesDriver
    SearchIsCurrent
    OneOrderPerDriver
    RidesArePaid
PROPERTIES
    LifecycleMovesForward
CHECK_DEADLOCK FALSE
