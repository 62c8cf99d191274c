----------------------------- MODULE MCStreamRun -----------------------------
(***************************************************************************)
(* Small instances of StreamRun: one or two routes, one to three runners,  *)
(* a source log of two or three events.                                    *)
(***************************************************************************)
EXTENDS StreamRun, TLC

CONSTANTS worker, api, backfill

\* A retrying route next to one that absorbs failures.
RetryAndLog == 1 :> "RETRY_AND_BACKOFF" @@ 2 :> "LOG_AND_CONTINUE"

\* One route, disabled by its first failure.
OneDisable == 1 :> "DISABLE_ROUTE_ON_FAILURE"

\* A failure of the first route pauses the stream; the policy of the second
\* is one the code does not know.
PauseAndUnknown == 1 :> "PAUSE_STREAM_ON_FAILURE" @@ 2 :> "UNKNOWN"
=============================================================================
