SPECIFICATION Spec
CONSTANTS
    e0 = e0
    f0 = f0
    p0 = p0
    Ids = {a0, u1}
    Admins = {a0}
    Emails = {e0, e1}
    Phones = {f0, f1}
    Passwords = {p0, p1}
    Seed <- MCSeed
    Calls = {c1, c2}
    Faults = {"mongo", "process"}
    NoDoc = NoDoc
    NoUser = NoUser
    NoPassword = NoPassword
SYMMETRY Symmetry
INVARIANTS
    LoginNamesOneUser
    AnswersAreTrue
    RolesFollowSignUp
    ClaimsAreCovered
PROPERTIES
    DeletedAreFrozen
CHECK_DEADLOCK FALSE
