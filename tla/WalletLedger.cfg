SPECIFICATION LiveSpec
CONSTANTS
    f1 = f1
    References = {f1, f2}
    Users = {u1}
    Calls = {c1, c2}
    Readers = {r1}
    Faults = {"db", "cache", "process"}
    NoCall = NoCall
    NoEntry = NoEntry
    NoReference = NoReference
    Owner <- MCOwner
    Amount <- MCAmount
INVARIANTS
    StaleOnlyForACause
PROPERTIES
    ImplementsLedger
    CallsReturn
