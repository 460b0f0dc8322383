---------------------------- MODULE MCReadyPool ----------------------------
EXTENDS ReadyPool
=============================================================================
