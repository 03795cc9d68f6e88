---------------------------- MODULE MCLikeService ----------------------------
EXTENDS LikeService, TLC

CONSTANTS u1, u2, h1, h2, h3

\* Two handlers serve u1 (two devices, or a double tap), one serves u2.
MCSharedUser == h1 :> u1 @@ h2 :> u1 @@ h3 :> u2
=============================================================================
