---------------------------- MODULE MCRunResults ----------------------------
EXTENDS RunResults
=============================================================================
