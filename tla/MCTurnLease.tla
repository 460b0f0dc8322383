---------------------------- MODULE MCTurnLease ----------------------------
EXTENDS TurnLease
=============================================================================
