----------------------------- MODULE MCLikeFlush -----------------------------
EXTENDS LikeFlush

CONSTANTS u1, u2, p1, p2

\* Users and posts are told apart by nothing but their names.
MCSymmetry == Permutations({u1, u2}) \cup Permutations({p1, p2})
=============================================================================
