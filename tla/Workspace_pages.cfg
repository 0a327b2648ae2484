CONSTANTS
    c1 = c1
    c2 = c2
    p1 = p1
    p2 = p2
    meta = meta
    twitter = twitter
    linkedin = linkedin
    s1 = s1
    s2 = s2
    w1 = w1
    w2 = w2
    None = None
    Projects = {1, 2}
    LastListed = 1
    Posts = {p1, p2}
    Initial = {}
    Contents = {c1, c2}
    PlatformOf <- MCPlatformOf
    PhotoStories = {c1}
    Fileless = {}
    LastDate = 2
    MaxDrafts = 2
    MaxBegun = 2
    MaxLoads = 1
    MaxTimed = 0
    Channels = {meta, linkedin, twitter}
    LoginChannels = {meta, linkedin}
    LinkedIn = linkedin
    MaxAttempts = 2
    Values = {1, 2}
    EmptyField = 1
    MaxOpened = 1
    Providers = {"google", "meta"}
    Unknown = Unknown
    MaxReading = 2
    MaxPressed = 2
    Linked = {1}
    Rows <- MCRows
    MaxSelected = 2
    TaskIds = {"k1", "k2"}
    MaxCalls = 2
    MaxTyped = 1
    MaxClicks = 3
    MaxChosen = 2
    MaxPageLoads = 2
    Ranges = {7, 30}
    FirstRange = 30
    Networks = {"instagram", "linkedin", "facebook"}
    NetworksOf <- MCNetworksOf
    MaxFetches = 2
    MaxEdition = 2
    MaxActs = 2
    Words = {w1, w2}
    SuggestionsOf <- MCSuggestionsOf
    DomainSeed = s1
    MaxSeedRows = 2
    MaxGenerated = 2
    MaxAudits = 3
    Findings = {1, 3}
    Formats = {"blog", "email"}
    MaxTopics = 2
    MaxCopies = 2
    MaxFlips = 2
SYMMETRY MCSymmetry
SPECIFICATION Spec
INVARIANTS
    TypeOK
    SpinnersHaveCause
    QuietPagesAreConsistent
    CopiesAreCurrent
    NothingTwice
    PlatformIsProjects
    NoProjectWithoutLogin
    SettingsUndoNothing
CHECK_DEADLOCK FALSE
