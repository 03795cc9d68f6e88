CONSTANTS
    p1 = p1
    d1 = d1
    d2 = d2
    e1 = e1
    v1 = v1
    Posts = {p1}
    Deleters = {d1, d2}
    Readers = {}
    Editors = {e1}
    Viewers = {v1}
    Split = TRUE
    MySQLMayFail = FALSE
    PublishMayFail = TRUE
    RedisMayFail = FALSE
    MarkerMayFail = TRUE
    ReviewMayFail = TRUE
    MaxRedeliveries = 1
SPECIFICATION AuthorFairSpec
INVARIANTS
    DeletedEventOnce
    VerdictLogged
PROPERTIES
    OwnWritesSeen
    EventuallyReviewed
CHECK_DEADLOCK FALSE
