CONSTANTS
    t1 = t1
    t2 = t2
    r1 = r1
    r2 = r2
    Tabs = {t1, t2}
    Requests = {r1, r2}
    Tab <- MCTab
    Nobody = Nobody
    MaxTokens = 2
    MaxSupport = 1
SPECIFICATION Spec
INVARIANTS
    TypeOK
    NoSelfRefusal
    HeldIsGood
    OnlyStraysReturn
PROPERTIES
    SharesOneCall
    EveryRequestSettles
