---------------------------- MODULE MCBackfillJobs ----------------------------
(* Two jobs of one stream and two API processes, one of which may die. *)
EXTENDS BackfillJobs

CONSTANTS pA, pB

=============================================================================
