---------------------------- MODULE MCPageSession ----------------------------
EXTENDS PageSession
=============================================================================
