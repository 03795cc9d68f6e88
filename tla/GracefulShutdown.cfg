CONSTANTS
    l1 = l1
    l2 = l2
    u1 = u1
    likeSub = likeSub
    unlikeSub = unlikeSub
    NoEvent = NoEvent
    Events = {l1, l2, u1}
    Topics = {"like", "unlike"}
    TopicOf <- MCTopicOf
    Subs = {likeSub, unlikeSub}
    SubTopic <- MCSubTopic
    TopicLike = "like"
    TopicUnlike = "unlike"
    BufSize = 1
    BatchSize = 2
    EventChCap = 1
    MySQLMayFail = TRUE
SPECIFICATION Spec
INVARIANTS
    DrainedOnReturn
    NoStrandedEvent
    ShutdownOrder
    StoredInOrder
    NoSilentLoss
PROPERTIES
    DeliverySpec
SYMMETRY MCSymmetry
