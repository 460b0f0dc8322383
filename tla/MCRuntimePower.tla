--------------------------- MODULE MCRuntimePower ---------------------------
EXTENDS RuntimePower
=============================================================================
