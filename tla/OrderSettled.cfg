SPECIFICATION LiveSpec
CONSTANTS
    Orders = {o1, o2}
    Users = {u1}
    Drivers = {d1}
    Slots = {s1}
    TaxiTypes = {"economy"}
    Ratings = {5}
    Faults = {"db"}
    SelfSet = {}
    NoDriver = NoDriver
    NoRating = NoRating
    NoOrder = NoOrder
    Rider <- MCRider
    Price <- MCPrice
    InitialBalance <- MCBalance1
    OrderType <- MCOrderType
    DriverType <- MCDriverType
INVARIANTS
    BalanceIsLedgerSum
    PaidForNothingOnlyByFault
PROPERTIES
    ChargeIsSettled
CHECK_DEADLOCK FALSE
