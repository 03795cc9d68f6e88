---------------------------- MODULE MCAuthorPage ----------------------------
EXTENDS AuthorPage

CONSTANTS p1, d1, d2, e1, v1
=============================================================================
