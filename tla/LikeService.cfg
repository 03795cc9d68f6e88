CONSTANTS
    u1 = u1
    u2 = u2
    h1 = h1
    h2 = h2
    h3 = h3
    Users = {u1, u2}
    Posts = {"p1"}
    Handlers = {h1, h2, h3}
    UserOf <- MCSharedUser
    MaxRequests = 4
    RedisMayFail = TRUE
    PublishMayFail = TRUE
    Expiry = TRUE
SPECIFICATION Spec
INVARIANTS
    CountNeverAhead
    CountExact
    EventsReflectStateChanges
CHECK_DEADLOCK FALSE
