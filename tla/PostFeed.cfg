CONSTANTS
    p1 = p1
    p2 = p2
    d1 = d1
    d2 = d2
    r1 = r1
    r2 = r2
    Posts = {p1}
    Deleters = {d1}
    Readers = {r1, r2}
    Split = TRUE
    MySQLMayFail = TRUE
    PublishMayFail = TRUE
    RedisMayFail = TRUE
    ReviewMayFail = TRUE
    MaxRedeliveries = 2
SPECIFICATION Spec
INVARIANTS
    FeedFresh
    
SYMMETRY MCSymmetry
VIEW MCView
