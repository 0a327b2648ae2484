\* Two requests or goroutines of an account at a time, the HealthScorer, and
\* statements that fail.
SPECIFICATION Spec
CONSTANTS
    u1 = u1
    p1 = p1
    p2 = p2
    r1 = r1
    r2 = r2
    r3 = r3
    r4 = r4
    free = free
    pro_monthly = pro_monthly
    Users = {u1}
    PaidPlans = {pro_monthly}
    FreePlan = free
    MaxSites <- MCMaxSites
    Projects = {p1, p2}
    Owner <- MCOwner
    Requests = {r1, r2, r3, r4}
    Sender <- MCSender
    MaxInFlight = 2
    DbMayFail = TRUE
SYMMETRY ProjectSymmetry
INVARIANTS
    TypeOK
    QuotaBound
    IssuesBound
PROPERTIES
    DeletedStaysDeleted
    EditKept
\* The system may stop: every request has been served and no other arrives.
CHECK_DEADLOCK FALSE
