---------------------------- MODULE MCReplayEngine ----------------------------
(***************************************************************************)
(* Three requests at once: enough for a late result to meet a takeover and *)
(* a third request.                                                        *)
(***************************************************************************)
EXTENDS ReplayEngine, TLC

CONSTANTS p1, p2, p3

\* The requests are interchangeable.
Symmetry == Permutations(Requesters)
=============================================================================
