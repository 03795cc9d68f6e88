------------------------------ MODULE MCUpload ------------------------------
EXTENDS Upload, TLC

CONSTANTS h1, h2

MCSessions == <<"u">>

MCSymmetry == Permutations(Handlers)
=============================================================================
