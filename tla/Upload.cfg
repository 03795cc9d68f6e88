CONSTANTS
    h1 = h1
    h2 = h2
    Users = {"u", "v"}
    Bannable = {"u"}
    Sessions <- MCSessions
    Handlers = {h1, h2}
    AccessTTL = 2
    RefreshTTL = 2
    MaxTime = 2
    MaxTokens = 4
    MaxRequests = 3
    MaxFaults = 1
    None = "none"
    Limit = 1
    Window = 2
    Slack = 0
    PresignTTL = 1
SPECIFICATION Spec
INVARIANTS
    LogoutHolds
    RateLimited
    
    NonceOutlivesUrl
SYMMETRY MCSymmetry
CHECK_DEADLOCK FALSE
