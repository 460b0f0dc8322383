----------------------------- MODULE MCRoutines -----------------------------
(* Two runs of one routine. *)
EXTENDS Routines

OneRoutine == [r \in Runs |-> "daily"]
=============================================================================
