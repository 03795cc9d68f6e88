----------------------------- MODULE MCPageViews -----------------------------
EXTENDS PageViews

\* Two requests of one viewer and one of another, for one post.
MCTopicOf == [e \in Events |-> "event.pv"]
MCSubTopic == [s \in Subs |-> "event.pv"]
MCPostOf == [e \in Events |-> "p"]
MCViewerOf == [e \in Events |-> IF e = "e3" THEN "w" ELSE "v"]
MCDeltasOf == [e \in Events |-> <<[user |-> "p", column |-> "view_count", by |-> 1]>>]

ASSUME ViewDeltas == DeltasAreViews
=============================================================================
