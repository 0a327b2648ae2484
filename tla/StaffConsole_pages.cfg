CONSTANTS
    None = None
    Users = {1, 2, 3}
    Named = {1, 2}
    Narrowed = {2, 3}
    OnPlan = {1, 3}
    Size = 1
    MaxAsked = 3
    Names = {"ann", "bob"}
    Roles = {"owner", "admin", "support"}
    StaffRoles = {"admin", "support"}
    Rows = {1, 2}
    System = {1}
    k1 = k1
    k2 = k2
    f0 = f0
    f1 = f1
    f2 = f2
    Codes = {k1, k2}
    Forms = {f0, f1, f2}
    EmptyForm = f0
    BadForms = {f2}
    MaxOpened = 2
    MaxBegun = 2
    MaxEdition = 2
    MaxReads = 5
SPECIFICATION Spec
SYMMETRY CodesAlike
INVARIANTS
    TypeOK
    SpinnersHaveCause
    NothingUndone
    ListAnswersFilters
    TabsAreFresh
CHECK_DEADLOCK FALSE
