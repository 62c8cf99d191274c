----------------------------- MODULE MCQuarantine -----------------------------
(* Two routes of a stream, one run at a time or two, and two operators. *)
EXTENDS Quarantine

CONSTANTS worker, api, backfill, opA, opB

=============================================================================
