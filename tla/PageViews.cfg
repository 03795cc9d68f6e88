CONSTANTS
    Events = {"e1", "e2", "e3"}
    Topics = {"event.pv"}
    TopicOf <- MCTopicOf
    Subs = {"sub"}
    SubTopic <- MCSubTopic
    Competing = {}
    MaxRetries = 1
    MaxFaults = 1
    NoEvent = "none"
    Users = {"p"}
    Columns = {"view_count"}
    DeltasOf <- MCDeltasOf
    PostOf <- MCPostOf
    ViewerOf <- MCViewerOf
    BatchSize = 2
    EventChCap = 1
    RedisMayFail = TRUE
SPECIFICATION PVSpec
INVARIANTS
    ViewsNeverInflated
    ViewsSettle
CHECK_DEADLOCK FALSE
