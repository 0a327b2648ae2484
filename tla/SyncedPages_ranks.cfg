CONSTANTS
    Sites = {1, 2}
    Ranges = {7, 30}
    FirstRange = 30
    NetworksOf <- MCNetworksOf
    Networks = {"instagram", "linkedin", "facebook"}
    None = None
    MaxFetches = 2
    MaxEdition = 2
    MaxActs = 2
SPECIFICATION Spec
INVARIANT RanksListedOnce
CHECK_DEADLOCK FALSE
