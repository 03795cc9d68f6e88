--------------------------- MODULE MCCountConsumer ---------------------------
EXTENDS CountConsumer

\* Somebody likes a post of a, and b un-follows a.
MCTopicOf == [e \in Events |-> IF e = "like" THEN "event.like" ELSE "event.unfollow"]

MCDeltasOf ==
    [e \in Events |->
        IF e = "like"
        THEN <<[user |-> "a", column |-> "total_likes", by |-> 1]>>
        ELSE <<[user |-> "b", column |-> "following_count", by |-> -1],
               [user |-> "a", column |-> "follower_count", by |-> -1]>>]

MCSubTopic ==
    [s \in Subs |-> IF s = "subLike" THEN "event.like" ELSE "event.unfollow"]
=============================================================================
