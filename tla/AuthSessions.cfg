SPECIFICATION Spec
CONSTANTS
    Sids = {s1, s2, s3}
    Calls = {c1, c2}
    Logouts <- MCLogouts
    Faults = {"redis", "process"}
    NoSid = NoSid
SYMMETRY Symmetry
INVARIANTS
    RetiredBeforeReplaced
    LoggedOutIsOut
    AcceptedIsRenewable
CHECK_DEADLOCK FALSE
