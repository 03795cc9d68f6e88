CONSTANTS
    u1 = u1
    u2 = u2
    p1 = p1
    p2 = p2
    Users = {u1, u2}
    Posts = {p1, p2}
    BatchSize = 3
    MaxEvents = 6
    MaxFaults = 1
    LostReplies = TRUE
SPECIFICATION Spec
INVARIANTS
    TotalNeverBehind
    CountsMatchRows
    LastEventWins
SYMMETRY MCSymmetry
CHECK_DEADLOCK FALSE
