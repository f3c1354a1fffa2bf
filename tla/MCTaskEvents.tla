---------------------------- MODULE MCTaskEvents ----------------------------
EXTENDS TaskEvents
=============================================================================
