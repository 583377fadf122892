---------------------------- MODULE MCLookAhead ---------------------------
EXTENDS LookAhead

MCLags == {0, 1, 3, 5}
MCSizes == {1, 2}
=============================================================================
