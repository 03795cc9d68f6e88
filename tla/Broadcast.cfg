CONSTANTS
    Events = {"like", "unfollow"}
    Topics = {"event.like", "event.unfollow"}
    TopicOf <- MCTopicOf
    Subs = {"subLike", "subUnfollow"}
    SubTopic <- MCSubTopic
    Competing = {"event.like"}
    MaxRetries = 1
    MaxFaults = 1
    NoEvent = "none"
    Users = {"a", "b"}
    Columns = {"total_likes", "follower_count", "following_count"}
    DeltasOf <- MCDeltasOf
    BatchSize = 2
    EventChCap = 1
    RedisMayFail = FALSE
SPECIFICATION Spec
INVARIANT Broadcast
CHECK_DEADLOCK FALSE
