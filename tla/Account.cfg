CONSTANTS
    h1 = h1
    h2 = h2
    m1 = m1
    m2 = m2
    Phones = {"p1"}
    Active = {"p1"}
    Ips = {"i1"}
    Handlers = {h1, h2}
    PhoneLimit = 1
    IpLimit = 1
    Key = "key"
    Pepper = "pepper"
    Legacy = {"p1"}
    Split = TRUE
    None = "none"
    MaxRequests = 3
    MaxFaults = 1
    Runs = {m1, m2}
    RowsPerBatch = 1
    MaxStarts = 2
SPECIFICATION Spec
INVARIANTS
    SmsLimits
    CounterWillExpire
    CodeSingleUse
    PhoneReadable
    MigrationComplete
    OneAccountPerPhone
SYMMETRY MCSymmetry
CHECK_DEADLOCK FALSE
