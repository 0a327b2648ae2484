\* What the page that asks for a Cancel says of it.
SPECIFICATION Spec
CONSTANTS
    u1 = u1
    r1 = r1
    r2 = r2
    r3 = r3
    r4 = r4
    r5 = r5
    free = free
    pro_monthly = pro_monthly
    pro_yearly = pro_yearly
    Users = {u1}
    PaidPlans = {pro_monthly, pro_yearly}
    FreePlan = free
    MaxSites <- MCMaxSites
    Requests = {r1, r2, r3, r4, r5}
    Sender <- OneSender
    DbMayFail = TRUE
SYMMETRY RequestSymmetry
PROPERTIES
    CancelKeepsAccess
\* The system may stop: every request has been served and no other arrives.
CHECK_DEADLOCK FALSE
