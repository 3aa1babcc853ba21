SPECIFICATION Spec
CONSTANTS
    Orders = {o1}
    Users = {u1}
    Drivers = {d1, d2}
    Slots = {s1, s2}
    TaxiTypes = {"economy"}
    Ratings = {1, 5}
    Faults = {"wallet", "db", "driver", "search", "kafka", "process"}
    SelfSet = {"available", "on-trip", "offline"}
    NoDriver = NoDriver
    NoRating = NoRating
    NoOrder = NoOrder
    Rider <- MCRider
    Price <- MCPrice
    InitialBalance <- MCBalance1
    OrderType <- MCOrderType
    DriverType <- MCDriverType
SYMMETRY Symmetry
INVARIANTS
    MoneyFollowsOrder
    EventsAreTrue
    SearchShowsOwnPast
PROPERTIES
    DriverAndRatingAreFinal
CHECK_DEADLOCK FALSE
