-------------------------- MODULE MCTaskOperations --------------------------
EXTENDS TaskOperations
=============================================================================
