\* Two accounts, one custom role, four overlapping requests that may fail.
SPECIFICATION Spec
CONSTANTS
    u1 = u1
    u2 = u2
    r1 = r1
    r2 = r2
    r3 = r3
    r4 = r4
    support = support
    Users = {u1, u2}
    StaffRoles = {support}
    Requests = {r1, r2, r3, r4}
    DbMayFail = TRUE
SYMMETRY AccountSymmetry
INVARIANTS
    TypeOK
    OneTokenPerSession
    AdminLeft
PROPERTIES
    SuspensionLasts
    LogoutIsFinal
\* The system may stop: every request has been served and no other arrives.
CHECK_DEADLOCK FALSE
