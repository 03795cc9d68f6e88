------------------------- MODULE MCGracefulShutdown -------------------------
(* A small server: two likes and one unlike to publish. *)
EXTENDS GracefulShutdown, TLC

CONSTANTS l1, l2, u1, likeSub, unlikeSub

MCTopicOf == [e \in Events |-> IF e = u1 THEN "unlike" ELSE "like"]
MCSubTopic == likeSub :> "like" @@ unlikeSub :> "unlike"

\* The two likes are interchangeable.
MCSymmetry == Permutations({l1, l2})
=============================================================================
