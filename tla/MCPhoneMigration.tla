-------------------------- MODULE MCPhoneMigration --------------------------
EXTENDS PhoneMigration, TLC

CONSTANTS h1, h2, m1, m2

MCSymmetry == Permutations(Handlers) \cup Permutations(Runs)
=============================================================================
