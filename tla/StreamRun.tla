------------------------------ MODULE StreamRun ------------------------------
(***************************************************************************)
(* One stream of the control plane, executed by StreamRunner.run.          *)
(*                                                                         *)
(* A run loads the stream's context (cursor and enabled routes), takes the *)
(* stream's run lock, fetches the batch behind its cursor, sends it to     *)
(* every enabled route in turn (destination rate limit, standby failover,  *)
(* route failure policy, retries), and stages its writes.  The staged      *)
(* checkpoint, stream status, disabled routes and dedup registry rows      *)
(* become visible in ONE transaction at the end of the run.  A run may     *)
(* raise, its flush may be rolled back, and its process may die between    *)
(* any two steps.                                                          *)
(*                                                                         *)
(* The source is a log of events 1..head and a cursor is a position in it, *)
(* so "checkpoint = c" reads "the next poll asks for events after c".      *)
(***************************************************************************)
EXTENDS Integers, FiniteSets

CONSTANTS
    Routes,      \* route ids; the fan-out visits them in increasing order
    Policy,      \* [Routes -> FailurePolicies], routes.failure_policy
    Standby,     \* routes whose destination has a failover binding
    Runners,     \* processes that may run this stream
    Polling,     \* scheduler workers: gated on the status, no db session
    Backfill,    \* backfill replays: a window of the source, no checkpoint
    Dedup,       \* stream_config.dedup is on, with a scope beyond the run
    WithSession, \* runs given the caller's db session (run-once, backfill)
    RetryCount,  \* routes.retry_count
    MaxEvent,    \* bound on the length of the source log
    Page,        \* most events one fetch returns
    NoRunner     \* the run lock is free

FailurePolicies ==
    {"LOG_AND_CONTINUE", "PAUSE_STREAM_ON_FAILURE",
     "DISABLE_ROUTE_ON_FAILURE", "RETRY_AND_BACKOFF", "UNKNOWN"}

ASSUME ConstantsAssumption ==
    /\ Routes \subseteq Nat
    /\ Policy \in [Routes -> FailurePolicies]
    /\ Standby \subseteq Routes
    /\ Polling \subseteq Runners
    /\ Backfill \subseteq Runners \ Polling
    /\ Dedup \in BOOLEAN
    /\ WithSession \subseteq Runners \ Polling
    /\ RetryCount \in Nat
    /\ MaxEvent \in Nat
    /\ Page \in Nat \ {0}
    /\ NoRunner \notin Runners

VARIABLES
    \* Database rows.
    checkpoint,    \* checkpoints.checkpoint_value_json of the stream
    status,        \* streams.status
    routeEnabled,  \* routes.enabled
    registry,      \* dedup keys in committed dedup_registry log rows
    \* Process state.
    lock,          \* owner of the stream's run lock
    leaked,        \* processes that hold the thread lock and run nothing
    run,           \* the run each runner has in hand
    cachedRoutes,  \* routes in the scheduler's context cache, {} when cold
    touched,       \* routes whose row was written since the cache was filled
    \* The world outside.
    head,          \* length of the source log
    delivered,     \* [Routes -> events a destination of the route accepted]
    \* History.
    waived         \* [Routes -> events the cursor passed unsent, with leave]

dbVars == <<checkpoint, status, routeEnabled, registry>>

cacheVars == <<cachedRoutes, touched>>

lockVars == <<lock, leaked>>

vars == <<dbVars, lockVars, run, cacheVars, head, delivered, waived>>

\* What the fan-out remembers of a route once it is done with it.
Results == {"none", "delivered", "absorbed", "failed", "rate_limited",
            "withheld", "skipped"}

\* How a send fails.  An "outage" (connection, timeout, 5xx) may fail over;
\* a "rejected" batch (other 4xx) may not; a "quota" error (HTTP 429 or an AI
\* policy block) may neither fail over nor be kept for replay.
Errors == {"outage", "rejected", "quota"}

NoCheckpoint == -1

IdleRun ==
    [pc       |-> "idle",
     from     |-> 0,                          \* cursor in the loaded context
     routes   |-> {},                         \* routes in the loaded context
     batch    |-> {},                         \* events to deliver
     todo     |-> {},                         \* routes not yet visited
     result   |-> [r \in Routes |-> "none"],
     rows     |-> [r \in Routes |-> 0],       \* replay rows written
     excused  |-> {},                         \* routes whose row was refused
     failover |-> "none",                     \* none, skipped or failed
     keep     |-> FALSE,                      \* the error may be replayed
     tries    |-> 0,
     ckpt     |-> NoCheckpoint,               \* _pending_checkpoint
     status   |-> "none",                     \* _pending_stream_status
     disable  |-> {},                         \* _pending_disabled_routes
     keys     |-> {}]                         \* staged dedup_registry rows

EnabledRoutes == {r \in Routes : routeEnabled[r]}

Init ==
    /\ checkpoint = 0
    /\ status = "RUNNING"
    /\ routeEnabled = [r \in Routes |-> TRUE]
    /\ registry = {}
    /\ lock = NoRunner
    /\ leaked = {}
    /\ run = [p \in Runners |-> IdleRun]
    /\ cachedRoutes = {}
    /\ touched = {}
    /\ head = 0
    /\ delivered = [r \in Routes |-> {}]
    /\ waived = [r \in Routes |-> {}]

-----------------------------------------------------------------------------
(***************************************************************************)
(* Loading the context.  It happens before the run lock is taken, so the   *)
(* cursor may be out of date by the time it is used.                       *)
(***************************************************************************)

\* Mutant of CacheHit: the fingerprint leaves the routes out.
CacheHitWhateverRoutes ==
    /\ cachedRoutes # {}
    /\ EnabledRoutes # {}

\* The scheduler's context cache.  Its fingerprint holds the newest update
\* time among the routes that are enabled NOW: a route disabled since the
\* load leaves it as it was (unless it was the newest), a route written since
\* and enabled does not.
CacheHit ==
    /\ cachedRoutes # {}
    /\ EnabledRoutes # {}
    /\ EnabledRoutes \cap touched = {}

LoadContext(p) ==
    /\ run[p].pc = "idle"
    /\ p \in Polling => status = "RUNNING"
    /\ \E R \in SUBSET Routes :
         /\ \/ R = EnabledRoutes
            \/ p \in Polling /\ CacheHit /\ R = cachedRoutes
         /\ R # {}
         /\ run' = [run EXCEPT ![p] = [IdleRun EXCEPT !.pc = "loaded",
                                                      !.from = checkpoint,
                                                      !.routes = R]]
         /\ cachedRoutes' = IF p \in Polling THEN R ELSE cachedRoutes
         /\ touched' = IF p \in Polling /\ R = EnabledRoutes THEN {}
                                                             ELSE touched
    /\ UNCHANGED <<dbVars, lockVars, head, delivered, waived>>

\* Mutant of Acquire: the skipped run still goes through the release of the
\* finally block.
AcquireReleasesBusyLock(p) ==
    /\ run[p].pc = "loaded"
    /\ IF lock = NoRunner /\ p \notin leaked
         THEN /\ lock' = p
              /\ run' = [run EXCEPT ![p].pc = "started"]
         ELSE run' = [run EXCEPT ![p].pc = "release"] /\ UNCHANGED lock
    /\ UNCHANGED <<dbVars, leaked, cacheVars, head, delivered, waived>>

\* The thread lock of the process, then the file lock that processes share.
\* Non-blocking: where either is busy the run ends as skipped_lock.
Acquire(p) ==
    /\ run[p].pc = "loaded"
    /\ IF lock = NoRunner /\ p \notin leaked
         THEN /\ lock' = p
              /\ run' = [run EXCEPT ![p].pc = "started"]
         ELSE /\ run' = [run EXCEPT ![p] = IdleRun]
              /\ UNCHANGED lock
    /\ UNCHANGED <<dbVars, leaked, cacheVars, head, delivered, waived>>

\* The lock directory or the lock file cannot be made, opened or written: the
\* OSError leaves the run before its try block, so the thread lock, already
\* taken, is never given back.  The file lock goes with its handle.
AcquireFails(p) ==
    /\ run[p].pc = "loaded"
    /\ p \notin leaked
    /\ leaked' = leaked \cup {p}
    /\ run' = [run EXCEPT ![p] = IdleRun]
    /\ UNCHANGED <<dbVars, lock, cacheVars, head, delivered, waived>>

SourceRateLimited(p) ==
    /\ run[p].pc = "started"
    /\ run' = [run EXCEPT ![p].pc = "flush",
                          ![p].status = "RATE_LIMITED_SOURCE"]
    /\ UNCHANGED <<dbVars, lockVars, cacheVars, head, delivered, waived>>

\* The events a source returns for this run: those behind the cursor, or the
\* window a backfill job asks for.
FetchWindow(p, lo, hi) ==
    IF p \in Backfill
      THEN lo \in 1..head /\ hi \in lo..head
      ELSE /\ lo = run[p].from + 1
           /\ hi \in run[p].from..head
           /\ hi <= run[p].from + Page

\* Events whose key an earlier run put in the registry are dropped; without
\* a session (scheduler polls) there is no registry to read.
Deduplicated(p, S) ==
    IF Dedup /\ p \in WithSession THEN S \ registry ELSE S

Fetch(p) ==
    /\ run[p].pc = "started"
    /\ \E lo \in 1..(head + 1), hi \in 0..head :
         /\ FetchWindow(p, lo, hi)
         /\ LET batch == Deduplicated(p, lo..hi) IN
              run' = IF batch = {}
                       THEN [run EXCEPT ![p].pc = "flush"]
                       ELSE [run EXCEPT ![p].pc = "route",
                                        ![p].batch = batch,
                                        ![p].todo = run[p].routes]
    /\ UNCHANGED <<dbVars, lockVars, cacheVars, head, delivered, waived>>

\* A dry-run backfill stops here; nothing is sent.
DryRun(p) ==
    /\ run[p].pc = "route"
    /\ p \in Backfill
    /\ run[p].todo = run[p].routes
    /\ run' = [run EXCEPT ![p].pc = "flush"]
    /\ UNCHANGED <<dbVars, lockVars, cacheVars, head, delivered, waived>>

-----------------------------------------------------------------------------
(***************************************************************************)
(* The route pipeline: one route after the other.                          *)
(***************************************************************************)

AtRoute(p, r) == r \in run[p].todo /\ \A s \in run[p].todo : r <= s

Ack(p, r) ==
    delivered' = [delivered EXCEPT ![r] = @ \cup run[p].batch]

\* The run S with its dedup keys staged, after a send of its batch.
WithKeys(S) == [S EXCEPT !.keys = IF Dedup THEN S.batch ELSE {}]

\* Leave route r with the given result; S holds the run's other changes.
Settle(p, r, res, S) ==
    run' = [run EXCEPT ![p] = [S EXCEPT !.pc = "route",
                                        !.todo = S.todo \ {r},
                                        !.result[r] = res,
                                        !.failover = "none",
                                        !.keep = FALSE,
                                        !.tries = 0]]

\* Policy decision block, require_review or quarantine: nothing is sent.
RouteWithheld(p, r) ==
    /\ run[p].pc = "route"
    /\ AtRoute(p, r)
    /\ Settle(p, r, "withheld", run[p])
    /\ UNCHANGED <<dbVars, lockVars, cacheVars, head, delivered, waived>>

\* The route's destination is disabled.
RouteSkipped(p, r) ==
    /\ run[p].pc = "route"
    /\ AtRoute(p, r)
    /\ Settle(p, r, "skipped", run[p])
    /\ UNCHANGED <<dbVars, lockVars, cacheVars, head, delivered, waived>>

RouteRateLimited(p, r) ==
    /\ run[p].pc = "route"
    /\ AtRoute(p, r)
    /\ Settle(p, r, "rate_limited",
              [run[p] EXCEPT !.status = "RATE_LIMITED_DESTINATION"])
    /\ UNCHANGED <<dbVars, lockVars, cacheVars, head, delivered, waived>>

SendOk(p, r) ==
    /\ run[p].pc = "route"
    /\ AtRoute(p, r)
    /\ Ack(p, r)
    /\ Settle(p, r, "delivered", WithKeys(run[p]))
    /\ UNCHANGED <<dbVars, lockVars, cacheVars, head, waived>>

\* Whether a batch that failed with e may be kept for replay at all.
Keepable(p, e) == e # "quota" /\ p \notin Backfill

\* Mutant of SendFails: the keys are registered whether or not the send
\* succeeds.
SendFailsKeepsKeys(p, r, e) ==
    /\ run[p].pc = "route"
    /\ AtRoute(p, r)
    /\ run' = [run EXCEPT ![p] = [WithKeys(run[p]) EXCEPT
                                    !.pc = "policy",
                                    !.keep = Keepable(p, e)]]
    /\ UNCHANGED <<dbVars, lockVars, cacheVars, head, delivered, waived>>

\* The failover bindings are read here; a failed read counts as no binding.
SendFails(p, r, e) ==
    /\ run[p].pc = "route"
    /\ AtRoute(p, r)
    /\ \E next \in {"policy"} \cup (IF r \in Standby /\ e = "outage"
                                      THEN {"failover"} ELSE {}) :
         run' = [run EXCEPT ![p].pc = next, ![p].keep = Keepable(p, e)]
    /\ UNCHANGED <<dbVars, lockVars, cacheVars, head, delivered, waived>>

\* The standby destination is disabled or over its rate limit.
FailoverSkipped(p) ==
    /\ run[p].pc = "failover"
    /\ run' = [run EXCEPT ![p].pc = "policy", ![p].failover = "skipped"]
    /\ UNCHANGED <<dbVars, lockVars, cacheVars, head, delivered, waived>>

\* Mutant of FailoverOk: the primary's failure is kept for replay.
FailoverOkKeepsRow(p, r) ==
    /\ run[p].pc = "failover"
    /\ AtRoute(p, r)
    /\ Ack(p, r)
    /\ Settle(p, r, "delivered", [run[p] EXCEPT !.rows[r] = @ + 1])
    /\ UNCHANGED <<dbVars, lockVars, cacheVars, head, waived>>

\* The standby took the batch; its keys do not enter the registry.
FailoverOk(p, r) ==
    /\ run[p].pc = "failover"
    /\ AtRoute(p, r)
    /\ Ack(p, r)
    /\ Settle(p, r, "delivered", run[p])
    /\ UNCHANGED <<dbVars, lockVars, cacheVars, head, waived>>

FailoverFails(p, e) ==
    /\ run[p].pc = "failover"
    /\ run' = [run EXCEPT ![p].pc = "policy", ![p].failover = "failed",
                          ![p].keep = Keepable(p, e)]
    /\ UNCHANGED <<dbVars, lockVars, cacheVars, head, delivered, waived>>

\* The replay row of a failure is written in a transaction of its own, which
\* may itself fail: the exception is logged and swallowed.
RowLands(keep) == IF keep THEN BOOLEAN ELSE {FALSE}

\* The run S after it tried to keep the batch of route r for replay.
WithRow(S, r, lands) ==
    IF lands THEN [S EXCEPT !.rows[r] = @ + 1]
             ELSE [S EXCEPT !.excused = @ \cup {r}]

\* An attempted failover that did not deliver overrides the failure policy.
Recovered(p) == run[p].failover = "none"

\* Mutant of LogAndContinue: an absorbed failure is not kept for replay.
LogAndContinueDropsBatch(p, r) ==
    /\ run[p].pc = "policy"
    /\ AtRoute(p, r)
    /\ Policy[r] = "LOG_AND_CONTINUE"
    /\ Settle(p, r, IF Recovered(p) THEN "absorbed" ELSE "failed", run[p])
    /\ UNCHANGED <<dbVars, lockVars, cacheVars, head, delivered, waived>>

LogAndContinue(p, r) ==
    /\ run[p].pc = "policy"
    /\ AtRoute(p, r)
    /\ Policy[r] = "LOG_AND_CONTINUE"
    /\ \E lands \in RowLands(run[p].keep) :
         Settle(p, r, IF Recovered(p) THEN "absorbed" ELSE "failed",
                WithRow(run[p], r, lands))
    /\ UNCHANGED <<dbVars, lockVars, cacheVars, head, delivered, waived>>

PauseStream(p, r) ==
    /\ run[p].pc = "policy"
    /\ AtRoute(p, r)
    /\ Policy[r] = "PAUSE_STREAM_ON_FAILURE"
    /\ \E lands \in RowLands(run[p].keep) :
         Settle(p, r, "failed",
                WithRow([run[p] EXCEPT !.status = "PAUSED"], r, lands))
    /\ UNCHANGED <<dbVars, lockVars, cacheVars, head, delivered, waived>>

DisableRoute(p, r) ==
    /\ run[p].pc = "policy"
    /\ AtRoute(p, r)
    /\ Policy[r] = "DISABLE_ROUTE_ON_FAILURE"
    /\ \E lands \in RowLands(run[p].keep) :
         Settle(p, r, "failed",
                WithRow([run[p] EXCEPT !.disable = @ \cup {r}], r, lands))
    /\ UNCHANGED <<dbVars, lockVars, cacheVars, head, delivered, waived>>

UnknownPolicy(p, r) ==
    /\ run[p].pc = "policy"
    /\ AtRoute(p, r)
    /\ Policy[r] = "UNKNOWN"
    /\ \E lands \in RowLands(run[p].keep) :
         Settle(p, r, "failed", WithRow(run[p], r, lands))
    /\ UNCHANGED <<dbVars, lockVars, cacheVars, head, delivered, waived>>

StartRetries(p, r) ==
    /\ run[p].pc = "policy"
    /\ AtRoute(p, r)
    /\ Policy[r] = "RETRY_AND_BACKOFF"
    /\ run' = [run EXCEPT ![p].pc = "retry"]
    /\ UNCHANGED <<dbVars, lockVars, cacheVars, head, delivered, waived>>

\* A retry delivered the batch.  The code then still records the replay row
\* of the first failure, and still reports failure after a failed failover.
RetryOk(p, r) ==
    /\ run[p].pc = "retry"
    /\ AtRoute(p, r)
    /\ run[p].tries < RetryCount
    /\ Ack(p, r)
    /\ \E lands \in RowLands(run[p].keep) :
         Settle(p, r, IF Recovered(p) THEN "delivered" ELSE "failed",
                WithRow(WithKeys(run[p]), r, lands))
    /\ UNCHANGED <<dbVars, lockVars, cacheVars, head, waived>>

\* Mutant of RetryFails: a failed retry is handed to the failure policy again.
RetryFailsIntoPolicy(p) ==
    /\ run[p].pc = "retry"
    /\ run[p].tries < RetryCount
    /\ run' = [run EXCEPT ![p].pc = "policy"]
    /\ UNCHANGED <<dbVars, lockVars, cacheVars, head, delivered, waived>>

RetryFails(p) ==
    /\ run[p].pc = "retry"
    /\ run[p].tries < RetryCount
    /\ run' = [run EXCEPT ![p].tries = @ + 1]
    /\ UNCHANGED <<dbVars, lockVars, cacheVars, head, delivered, waived>>

\* Two rows: _apply_failure_policy keeps the batch for the last retry's
\* error e, and _send_route_events for the first send's (or the standby's).
RetryExhausted(p, r, e) ==
    /\ run[p].pc = "retry"
    /\ AtRoute(p, r)
    /\ run[p].tries = RetryCount
    /\ \E last \in RowLands(Keepable(p, e)), first \in RowLands(run[p].keep) :
         Settle(p, r, "failed", WithRow(WithRow(run[p], r, last), r, first))
    /\ UNCHANGED <<dbVars, lockVars, cacheVars, head, delivered, waived>>

-----------------------------------------------------------------------------
(***************************************************************************)
(* The end of a run.                                                       *)
(***************************************************************************)

\* Mutant of AllRequiredSucceeded: a rate-limited route is not required.
AllButRateLimitedSucceeded(result) ==
    /\ \E r \in Routes : result[r] = "delivered"
    /\ \A r \in Routes : result[r] # "failed"

\* Every visited route that had to deliver did, and at least one delivered.
AllRequiredSucceeded(result) ==
    /\ \E r \in Routes : result[r] = "delivered"
    /\ \A r \in Routes : result[r] \notin {"failed", "rate_limited"}

\* Mutant of FanOutDone: the cursor is advanced by the size of the batch from
\* where it is now, not from where the batch began.
FanOutDoneAdvancesByCount(p) ==
    /\ run[p].pc = "route"
    /\ run[p].todo = {}
    /\ run' = [run EXCEPT
                 ![p].pc = "flush",
                 ![p].ckpt = IF AllRequiredSucceeded(run[p].result)
                                /\ p \notin Backfill
                               THEN checkpoint + Cardinality(run[p].batch)
                               ELSE NoCheckpoint]
    /\ UNCHANGED <<dbVars, lockVars, cacheVars, head, delivered, waived>>

\* Stage the cursor on the last event of the batch.
FanOutDone(p) ==
    /\ run[p].pc = "route"
    /\ run[p].todo = {}
    /\ \E last \in run[p].batch :
         /\ \A e \in run[p].batch : e <= last
         /\ run' = [run EXCEPT
                      ![p].pc = "flush",
                      ![p].ckpt = IF AllRequiredSucceeded(run[p].result)
                                     /\ p \notin Backfill
                                    THEN last ELSE NoCheckpoint]
    /\ UNCHANGED <<dbVars, lockVars, cacheVars, head, delivered, waived>>

\* Routes that let the cursor pass a batch they did not get: not enabled when
\* the context was loaded, withheld, skipped, or absorbed by their policy.
Lenient(S) ==
    {r \in Routes : \/ r \notin S.routes
                    \/ S.result[r] \in {"absorbed", "withheld", "skipped"}}

\* Mutant of Flush: the checkpoint is written whether or not one is pending.
FlushUnconditionally(p) ==
    /\ run[p].pc = "flush"
    /\ checkpoint' = run[p].ckpt
    /\ run' = [run EXCEPT ![p] = [IdleRun EXCEPT !.pc = "release"]]
    /\ UNCHANGED <<status, routeEnabled, registry, lockVars, cacheVars, head,
                   delivered, waived>>

\* Mutant of Flush: a run without a pending checkpoint stores an empty one.
FlushResetsCursor(p) ==
    /\ run[p].pc = "flush"
    /\ checkpoint' = IF run[p].ckpt = NoCheckpoint THEN 0 ELSE run[p].ckpt
    /\ run' = [run EXCEPT ![p] = [IdleRun EXCEPT !.pc = "release"]]
    /\ UNCHANGED <<status, routeEnabled, registry, lockVars, cacheVars, head,
                   delivered, waived>>

\* _flush_pending_writes: everything staged, in one transaction.  A status
\* write changes the stream row's update time, and so the cache fingerprint.
Flush(p) ==
    /\ run[p].pc = "flush"
    /\ checkpoint' = IF run[p].ckpt = NoCheckpoint THEN checkpoint
                                                   ELSE run[p].ckpt
    /\ waived' = IF run[p].ckpt = NoCheckpoint THEN waived
                 ELSE [r \in Routes |->
                         IF r \in Lenient(run[p])
                           THEN waived[r] \cup run[p].batch ELSE waived[r]]
    /\ status' = IF run[p].status = "none" THEN status ELSE run[p].status
    /\ routeEnabled' = [r \in Routes |-> routeEnabled[r]
                                         /\ r \notin run[p].disable]
    /\ registry' = registry \cup run[p].keys
    /\ cachedRoutes' = IF status' = status THEN cachedRoutes ELSE {}
    /\ touched' = IF cachedRoutes' = {} THEN {}
                  ELSE touched \cup (run[p].disable \cap EnabledRoutes)
    /\ run' = [run EXCEPT ![p] = [IdleRun EXCEPT !.pc = "release"]]
    /\ UNCHANGED <<lockVars, head, delivered>>

\* The transaction is rolled back: everything staged is lost.
FlushFails(p) ==
    /\ run[p].pc = "flush"
    /\ run' = [run EXCEPT ![p] = [IdleRun EXCEPT !.pc = "release"]]
    /\ UNCHANGED <<dbVars, lockVars, cacheVars, head, delivered, waived>>

\* A fetch, parse, mapping, protection or quarantine error: every staged
\* write is dropped and the run ends.
RunException(p) ==
    /\ run[p].pc \in {"started", "route"}
    /\ run' = [run EXCEPT ![p] = [IdleRun EXCEPT !.pc = "release"]]
    /\ UNCHANGED <<dbVars, lockVars, cacheVars, head, delivered, waived>>

Release(p) ==
    /\ run[p].pc = "release"
    /\ run' = [run EXCEPT ![p] = IdleRun]
    /\ lock' = NoRunner
    /\ UNCHANGED <<dbVars, leaked, cacheVars, head, delivered, waived>>

\* The process dies: its memory is gone and the kernel drops its file lock.
Crash(p) ==
    /\ run' = [run EXCEPT ![p] = IdleRun]
    /\ lock' = IF lock = p THEN NoRunner ELSE lock
    /\ leaked' = leaked \ {p}
    /\ cachedRoutes' = IF p \in Polling THEN {} ELSE cachedRoutes
    /\ touched' = IF p \in Polling THEN {} ELSE touched
    /\ UNCHANGED <<dbVars, head, delivered, waived>>

-----------------------------------------------------------------------------
(***************************************************************************)
(* The environment: the source grows, operators switch routes on and off   *)
(* and press Start.                                                        *)
(***************************************************************************)

Produce ==
    /\ head < MaxEvent
    /\ head' = head + 1
    /\ UNCHANGED <<dbVars, lockVars, run, cacheVars, delivered, waived>>

StartStream ==
    /\ status # "RUNNING"
    /\ status' = "RUNNING"
    /\ cachedRoutes' = {}
    /\ touched' = {}
    /\ UNCHANGED <<checkpoint, routeEnabled, registry, lockVars, run, head,
                   delivered, waived>>

SetRouteEnabled(r) ==
    /\ routeEnabled' = [routeEnabled EXCEPT ![r] = ~@]
    /\ touched' = IF cachedRoutes = {} THEN {} ELSE touched \cup {r}
    /\ UNCHANGED <<checkpoint, status, registry, lockVars, run, cachedRoutes,
                   head, delivered, waived>>

RouteStep(p, r) ==
    \/ RouteWithheld(p, r)
    \/ RouteSkipped(p, r)
    \/ RouteRateLimited(p, r)
    \/ SendOk(p, r)
    \/ \E e \in Errors : SendFails(p, r, e)
    \/ FailoverOk(p, r)
    \/ LogAndContinue(p, r)
    \/ PauseStream(p, r)
    \/ DisableRoute(p, r)
    \/ UnknownPolicy(p, r)
    \/ StartRetries(p, r)
    \/ RetryOk(p, r)
    \/ \E e \in Errors : RetryExhausted(p, r, e)

RunStep(p) ==
    \/ Acquire(p)
    \/ AcquireFails(p)
    \/ SourceRateLimited(p)
    \/ Fetch(p)
    \/ DryRun(p)
    \/ \E r \in Routes : RouteStep(p, r)
    \/ FailoverSkipped(p)
    \/ \E e \in Errors : FailoverFails(p, e)
    \/ RetryFails(p)
    \/ FanOutDone(p)
    \/ Flush(p)
    \/ FlushFails(p)
    \/ RunException(p)
    \/ Release(p)

Next ==
    \/ \E p \in Runners : LoadContext(p) \/ RunStep(p) \/ Crash(p)
    \/ Produce
    \/ StartStream
    \/ \E r \in Routes : SetRouteEnabled(r)

Spec == Init /\ [][Next]_vars

\* A runner that has started a run keeps executing it (sends and fetches time
\* out), and the scheduler's worker keeps polling.  Nothing is assumed of
\* operators, of the source, or of the outcome of a send.
Fairness ==
    /\ \A p \in Runners : WF_vars(RunStep(p))
    /\ \A p \in Polling : WF_vars(LoadContext(p))

FairSpec == Spec /\ Fairness

-----------------------------------------------------------------------------
(***************************************************************************)
(* Properties.                                                             *)
(***************************************************************************)

PCs == {"idle", "loaded", "started", "route", "failover", "policy", "retry",
        "flush", "release"}

InRun == PCs \ {"idle", "loaded"}

Statuses == {"RUNNING", "PAUSED", "RATE_LIMITED_SOURCE",
             "RATE_LIMITED_DESTINATION"}

RunType ==
    [pc : PCs, from : Nat, routes : SUBSET Routes, batch : SUBSET Nat,
     todo : SUBSET Routes, result : [Routes -> Results],
     rows : [Routes -> Nat], excused : SUBSET Routes,
     failover : {"none", "skipped", "failed"}, keep : BOOLEAN, tries : Nat,
     ckpt : Nat \cup {NoCheckpoint}, status : Statuses \cup {"none"},
     disable : SUBSET Routes, keys : SUBSET Nat]

\* Every variable keeps its type (the columns and run-scoped fields of
\* StreamRunner).
TypeOK ==
    /\ checkpoint \in Nat
    /\ status \in Statuses
    /\ routeEnabled \in [Routes -> BOOLEAN]
    /\ registry \in SUBSET Nat
    /\ lock \in Runners \cup {NoRunner}
    /\ leaked \in SUBSET Runners
    /\ run \in [Runners -> RunType]
    /\ cachedRoutes \in SUBSET Routes
    /\ touched \in SUBSET Routes
    /\ head \in Nat
    /\ delivered \in [Routes -> SUBSET Nat]
    /\ waived \in [Routes -> SUBSET Nat]

\* No event behind the cursor was lost on its way to a route: the route's
\* destination (or its standby) accepted it, or a run that passed it had leave
\* not to send it (route or destination disabled, withheld by policy, failure
\* absorbed by LOG_AND_CONTINUE).  Crashes, exceptions, failed flushes, stale
\* cursors and concurrent runners included.  The readiness checklist:
\* "Checkpoint advances only after all required routes succeed."
CheckpointCovered ==
    \A r \in Routes : 1..checkpoint \subseteq delivered[r] \cup waived[r]

\* The cursor never passes an event that no destination at all accepted:
\* absorbing, withholding or skipping everywhere does not advance it
\* (_route_delivery_fan_out_outcome), with the dedup registry in play too.
CheckpointNeedsDelivery ==
    \A e \in 1..checkpoint : \E r \in Routes : e \in delivered[r]

\* The run lock serialises runs: whoever is past the acquisition owns it.
RunsAreSerialised ==
    \A p \in Runners : run[p].pc \in InRun => lock = p

\* A batch a route failed to deliver is kept for replay, unless the row was
\* refused (429, AI policy block, backfill) or its write failed: neither
\* failover, nor a skipped standby, nor any failure policy loses it.
FailureLeavesReplayRow ==
    \A p \in Runners, r \in Routes :
      run[p].result[r] \in {"failed", "absorbed"} =>
        run[p].rows[r] > 0 \/ r \in run[p].excused

\* A batch that a route delivered is also waiting to be replayed, and so sent
\* twice, only where a retry delivered it: not after a standby took it, not
\* after a later route of the same run failed.
DeliveredKeptOnlyByRetry ==
    \A p \in Runners, r \in Routes :
      run[p].result[r] = "delivered" /\ run[p].rows[r] > 0 =>
        Policy[r] = "RETRY_AND_BACKOFF"

\* The cursor moves back only because a run loaded it before another run
\* moved it: the context is read before the lock is taken.  A backfill run,
\* whose window lies behind the cursor, does not count as such a run.
CursorRewoundOnlyByStaleContext ==
    [][checkpoint' < checkpoint =>
         \E p \in Runners \ Backfill :
           lock = p /\ run[p].from < checkpoint]_vars

\* A stream as its users see it.
Contract ==
    INSTANCE Relay WITH log <- head, cursor <- checkpoint, got <- delivered

\* The runs of a stream keep the contract of Relay: a flush moves the cursor
\* only over events that somebody accepted in an earlier step, and only
\* events of the source reach a destination, with retries, standbys, backfill
\* windows, crashes and the dedup registry in play.
ImplementsRelay == Contract!Spec

\* A run that starts has every route that is enabled: the scheduler's cached
\* context may hold a route too many, never one too few, or the cursor would
\* pass events that route never sees.
EnabledRouteIsLoaded ==
    [][\A p \in Runners :
         run[p].pc = "idle" /\ run'[p].pc = "loaded" =>
           EnabledRoutes \subseteq run'[p].routes]_vars

\* A run that took both locks gives them back: retries are bounded, a failed
\* flush and every exception from the try block on go through the finally
\* block, a dead owner's lock drops.  (A run that fails between the two locks
\* keeps the first: AcquireFails, and HeldLockHasARun below.)
RunsEnd == \A p \in Runners : lock = p ~> lock # p

-----------------------------------------------------------------------------
(***************************************************************************)
(* Promises the documents make and the code does not keep.                 *)
(***************************************************************************)

\* specs/068: a replay row is recorded for the FINAL failure of a base route.
\* A batch a retry delivered is not waiting to be replayed.
DeliveredBatchNotKept ==
    \A p \in Runners, r \in Routes :
      run[p].result[r] = "delivered" => run[p].rows[r] = 0

\* is_lock_held: "Return whether any process currently owns the stream run
\* lock."  Stop waits for it to say no, and every later run of the process is
\* skipped while the thread lock is held: where it is held, a run is under way.
HeldLockHasARun == leaked = {}

\* specs/096, 5.4: a route that is disabled is not processed; a run that
\* starts now does not take it up.
DisabledRouteNotLoaded ==
    [][\A p \in Runners :
         run[p].pc = "idle" /\ run'[p].pc = "loaded" =>
           run'[p].routes \subseteq EnabledRoutes]_vars
=============================================================================
