------------------------------ MODULE MCFollow ------------------------------
EXTENDS Follow, TLC

CONSTANTS u1, u2, u3, w1, w2

\* One user, followed by nobody, follows the two others.
MCEdges == {<<u1, u2>>, <<u1, u3>>}

\* What u1 follows, and who follows u2.
MCAsked == {<<u1, "following">>, <<u2, "followers">>}

MCSymmetry == Permutations(Writers)
=============================================================================
