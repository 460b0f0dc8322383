---------------------------- MODULE MCRuntimeTurn ----------------------------
EXTENDS RuntimeTurn
=============================================================================
