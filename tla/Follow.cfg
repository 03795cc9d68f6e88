CONSTANTS
    u1 = u1
    u2 = u2
    u3 = u3
    w1 = w1
    w2 = w2
    Users = {u1, u2, u3}
    Edges <- MCEdges
    Asked <- MCAsked
    Leaving = {u2}
    Writers = {w1, w2}
    Readers = {"r1"}
    MaxFollowing = 1
    DefaultListSize = 1
    MaxListSize = 2
    Sizes = {0}
    Split = TRUE
    MaxFaults = 1
    MaxRequests = 3
SPECIFICATION Spec
INVARIANTS
    EventsMatchRows
    LimitHeld
    FollowTakesEffect
PROPERTIES
    ReadYourWrites
SYMMETRY MCSymmetry
CHECK_DEADLOCK FALSE
