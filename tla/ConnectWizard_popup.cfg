CONSTANTS
    meta = meta
    twitter = twitter
    linkedin = linkedin
    None = None
    Channels = {meta, linkedin, twitter}
    LoginChannels = {meta, linkedin}
    LinkedIn = linkedin
    MaxAttempts = 2
SPECIFICATION Spec
INVARIANT ClosedPopupReleases
CHECK_DEADLOCK FALSE
