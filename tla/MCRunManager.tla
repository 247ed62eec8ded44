---------------------------- MODULE MCRunManager ----------------------------
EXTENDS BrowserView
=============================================================================
