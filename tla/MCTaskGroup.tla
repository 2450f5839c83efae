---------------------------- MODULE MCTaskGroup ----------------------------
EXTENDS TaskGroup, TLC
=============================================================================
