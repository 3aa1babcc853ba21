SPECIFICATION LiveSpec
CONSTANTS
    d1 = d1
    d2 = d2
    Keys = {k1, k2, k3}
    Events <- MCEvents
    DayLength = 2
    Now = 5
    Period = 2
    LastTrips = 2
    MaxCopies = 2
    Faults = {"clickhouse", "process"}
INVARIANTS
    ReportsAreExact
    RatingIsOfLastTrips
PROPERTIES
    EveryEventIsTried
CHECK_DEADLOCK FALSE
