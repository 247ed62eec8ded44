---------------------------- MODULE MCRunRecovery ----------------------------
EXTENDS RunRecovery
=============================================================================
