# datarelay-control in TLA+

datarelay-control polls log sources, transforms each batch per route and
delivers it to destinations (syslog, webhook, AI endpoints), keeping one
checkpoint per stream.  This directory models the part of it that decides
whether data is lost, duplicated or delivered by a stream that should be
stopped: the run of one stream, the starting and stopping of it, and the four
places that keep or move data beside the runs: the replay of failed batches,
backfill jobs, quarantine, and the outbox of governance notifications.

## 1. Inventory

Paths are relative to `src/app`.

| Component | State it keeps | Operations | Interacts with | What is hard | What makes it correct |
|---|---|---|---|---|---|
| Stream run, `runners/stream_runner.py`, `runners/route_stage.py`, `route_delivery/` | run-scoped pending checkpoint, status, disabled routes, log rows; the run lock | `run`, `_send_route_events`, `_apply_failure_policy`, `_attempt_failover_send`, `_flush_pending_writes` | called by scheduler, run-once, backfill, webhook ingest; writes the stream, route, checkpoint and log rows | sends cannot be undone, everything else is one late transaction; routes fail independently; crash or rollback in between | no event is passed by the cursor unless each route got it or had leave not to |
| Checkpoints, `checkpoints/` | one cursor per stream | read, upsert, operator edit and reset | run, quarantine release, API | the cursor is read before the run lock and overwritten blindly | never skips; moves back only by a stale read |
| Dedup, `runners/stream_dedup.py` | registry rows in the delivery log | seed, drop, register | run | registry decides about later runs and other routes | hides no event nobody has |
| Failover, `failover_routing/` | binding primary → standby | eligibility, standby attempt | run | interacts with the failure policy | a delivery is a delivery, a failure a failure |
| Replay recording and engine, `replay/` | rows pending, failed, replaying, replayed, discarded | record, claim, send, finalize, discard | run, API | claims time out while a send is under way | one row per final failure; no two live claims |
| Scheduler, `scheduler/scheduler.py` | worker threads, stop events | supervise, loop, wait, stop | enabled-state snapshot, context cache, run, file locks | lists and snapshots are old when used; a thread leaves in several steps | one worker per stream; a disabled stream loses it, a started one gets it |
| Enabled-state snapshot, `scheduler/enabled_state.py` | gates with a TTL | read, refresh, invalidate | scheduler threads | staleness, single-flight refresh | never older than its TTL |
| Context cache, `scheduler/context_cache.py` | context, fingerprint, TTL | load | scheduler, run | fingerprint must see every change | never returns configuration that is gone |
| Stream control, `runtime/control_service.py`, `streams/` | `enabled`, `status` | create, start, stop, reconcile, delete, saves of the configuration | scheduler (stop event), file locks, row | two commits with a wait in between, concurrent Start; saves write `enabled` alone | a confirmed stop is quiet; `enabled` and `status` agree unless a save parted them |
| File locks, `runners/stream_runtime_lock.py` | `flock`ed run and worker files | acquire, release, probe, clean up | all of the above | probes take the lock; unlink races; directory not shared between containers | mutual exclusion; released at process death |
| Backfill jobs, `backfill/` | job rows PENDING … FAILED; per process: cancel flags, owners | create, start, cancel, finalize, reconcile at start-up | run | the row is read before the lock that protects it; the worker writes without the lock; processes know nothing of each other | one running job per stream; COMPLETED means it ran; every job ends unless its request raised |
| Quarantine, `quarantine/`, `governance_quarantine/` | rows quarantined, released, discarded | record, release, discard, in bulk | run, checkpoint, destinations | the row and the cursor are written in different transactions; a release writes the cursor outside the run lock | the cursor passes no undelivered event; nothing quarantined is forgotten; decisions are final |
| Notification outbox, `governance_notifications/` | event, one job per channel with lease, token and attempts | record, claim, send, settle, reconcile | workers of all processes | leases expire under a busy worker; two channels settle concurrently | a job settles once, SENT only if sent; the event is the verdict over its jobs; it settles |
| Webhook ingest, `ingest/` | none | receive | run (no checkpoint) | enabled check before the lock | no delivery after a stop |
| Rate limiters, `rate_limit/` | token windows | allow | run | window boundaries | never above the limit |
| Route transform, classification, protection, policy | rules | pure evaluation | run | — | decision precedence |
| Sources, parsers, mappers, formatters, delivery adapters | connections | fetch, convert, send | run | outside world | — |
| Governance, AI gateway, auth, audit, admin, retention, observability, frontend | configuration and views | CRUD | — | approval workflow | — |

`PROJECT.json` repeats the list with a status per component, and lists the
hazards at their lines.

## 2. Modules

| Module | Models |
|---|---|
| `Relay`, `RelayProofs` | what a stream promises: a log, a cursor, deliveries |
| `StreamRun` | one stream's runs, by any number of runners |
| `MCStreamRun` | policies and runners of the runs below |
| `StreamRunProofs` | theorems about `StreamRun`, which implements `Relay` |
| `StreamLifecycle` | starting, polling and stopping one stream across processes |
| `MCStreamLifecycle` | the lock directories of the runs below |
| `StreamLifecycleProofs` | theorems about `StreamLifecycle` |
| `ReplayEngine`, `MCReplayEngine`, `ReplayEngineProofs` | replaying and discarding one stored batch, by any number of requests |
| `BackfillJobs`, `MCBackfillJobs`, `BackfillJobsProofs` | the backfill jobs of one stream, over several API processes |
| `Quarantine`, `MCQuarantine`, `QuarantineProofs` | quarantine rows, the operators' requests, and the runs of the stream beside them; implements `Relay` |
| `NotificationDelivery` | what the outbox promises about one event |
| `NotificationOutbox`, `MCNotificationOutbox`, `NotificationOutboxProofs` | the outbox, shown to implement `NotificationDelivery` |

Operators whose comment begins "Mutant of" are not part of a specification:
they are plausible bugs, each of which one of the properties must catch.

### Relay

The contract of a stream with its users, whoever moves the cursor.  The source
appends to `log`; the destination of one route accepts events that the source
has; in another step the cursor moves, forward or back, to a place behind
which every event was accepted by somebody.  `StreamRun` implements it with
`log` as `head` and `Quarantine` with the log of fixed length `MaxEvent`; in
both `got` is `delivered` and `cursor` is `checkpoint`.  It asks for some
route, not for every route: that is what dedup and releases leave
(`CheckpointCovered` is the stronger property, where it holds).

### StreamRun

The source is a log `1..head`; a cursor is a position in it.  Database rows
are `checkpoint`, `status`, `routeEnabled` and `registry` (dedup keys in
committed log rows).  `run[p]` is what a `StreamRunner` object holds between
its steps, its `_pending_*` fields included; `lock` is the pair of thread lock
and file lock that `run` takes together.  `delivered` is what destinations
accepted, `waived` a history variable: what the cursor passed unsent because
the route or its destination was disabled, the policy withheld the batch, or
LOG_AND_CONTINUE absorbed the failure.

An action is one step of `StreamRunner.run` between two points where another
process, a failure or the network can intervene: `LoadContext` (before the
lock), `Acquire`, `Fetch`, one action per outcome of a send and per failure
policy, `FanOutDone` (stage the cursor), `Flush` (the one transaction),
`Release`.  `RunException`, `FlushFails` and `Crash` are the ways a run ends
early.  A batch is a set of events; formatting, mapping, masking and the rules
engines are free choices (`RouteWithheld` or not).  A rate limiter may say no
at any time.

`CacheHit` states when the context cache may return its old routes: the
fingerprint holds the newest update time of the routes enabled now.

The thread lock (`stream_runner.py:202`) is taken before the `try` whose
`finally` releases it, and the file lock (`:206`) may raise in between, when
the lock directory or file cannot be written.  `AcquireFails` is that path: the
process goes into `leaked` and keeps the thread lock until it dies; its later
runs skip.  `RunsEnd` is about runs that got past this point.

### StreamLifecycle

`enabled` and `status` are the stream's row.  `worker[p]` is the position of
process p's thread in `Scheduler._loop_stream`; `leaving` are threads that
have left `_workers` and not yet released the ownership.  `listed`, `gate`
and `fresh` are the supervisor's last answer and the enabled-state snapshot
with its TTL.  A worker whose wait for another thread's refresh was in vain
goes by the expired snapshot (`PollUnrefreshed`, `WaitUnrefreshed`).  `owner`
and `runLock` are the two file locks, per lock directory; `leaked` are the
processes whose thread lock was lost as in `StreamRun` (`AcquireRunFails`,
`RunNowAcquireFails`), and `OwnershipError` is the same failure at the
ownership file, which kills the worker thread before its `try`.  `api[p]` is
the control request a process serves: the handlers are `async def` functions
that call blocking code, so a process serves one at a time.  What a run does is
reduced to holding the lock and perhaps changing the status; `StreamRun` has
the rest.

`SaveConfig` stands for the writers of `enabled` that leave `status` alone: PUT
of a stream (`streams/router.py:177`), the settings page
(`control_service.py:731`) and the restore of an earlier configuration
(`config_entity_snapshots.py:120`).  A stream may also be created enabled, and
is STOPPED then (`streams/router.py:88`), hence the two values in `Init`.

Two history variables: `quiet`, a stop was confirmed (or the row reconciled)
and nobody enabled the stream since; `parted`, a save or the creation left the
two columns apart and no Start or Stop has written them since.

Stop's wait is two outcomes, the stream is seen terminal or it is not; the
three reads of `_stream_runtime_is_terminal` are one step.

### ReplayEngine

`row` is the committed row of `stream_replay_events`, `lock` the transaction
that holds it.  `req[p]` is a request at its place in `execute_replay_event`
or `discard_replay_event`: `LockRow` (NOWAIT), the claim and its commit
(`ClaimNew`, `ClaimStale`), `Send` without the lock, `Relock`, `Finish`.
Attempt identities (uuid4) are numbers, the idempotency key goes with them.
`keys` and `again` are what the destination has seen; `lapses` is a history
variable of what has gone wrong: a send was reported as failed, a claim timed
out under a live sender, a request decided on a view from before the lock.
The properties say what holds while a given lapse has not happened.

Sessions matter here.  SQLAlchemy does not refresh an object the session
already holds when a locking SELECT returns it again.
`execute_governance_replay` and the quarantine's "Replay" load the row first,
so what they check after the lock is their `view` from before it.

### BackfillJobs

`status` and `kind` are the job rows.  `req[p]` is the one backfill request a
process serves (the handlers are coroutines that never await), from the probe
through the advisory lock to the end of the worker it runs.  As above the
SELECT … FOR UPDATE after the lock returns the probe's object, so `view` is
what the probe read, until a commit or `refresh` (`Fresh`).  `cancelReq` is the
coordinator's set, one per process.  A crash empties it, and the start-up of a
process lists the active jobs and settles them one by one (`Restart`,
`Reconcile`, `ReconcileNext`), whoever runs them.

`Raise` is an exception that nobody on the way catches: the comparison of a
naive and an aware time in the window (`worker.py:93`), any error but
ValueError of the context load (`:110`), a failing event or save, a failing
query at start-up, which goes on without the reconciliation
(`main.py:160`).  The request ends and the rows stay as they are.  `abandoned`
is a history variable, the active jobs that such a request was to save
(`Charge`); `ran` is another.  A "lingering" job is one of the dry life cycle without
`dry_run_complete`: it stays RUNNING until it is cancelled, by design.

### Quarantine

Runs are those of `StreamRun` at the grain a quarantine row can tell apart:
per route sent, unsent with or without blocking the cursor, or quarantined.
A run with a session (`Session`) keeps its rows "staged" until its flush; any
other run commits each row at once.  `tx[o]` is one operator's transaction
over one row or, in bulk, several: row locks (NOWAIT), the statuses it wrote,
the cursor it read and wrote.  Writing the cursor locks the checkpoint row,
which a flush and other releases wait for.  A busy row aborts the whole
transaction (`Busy`), as PostgreSQL does; `bulk_release_quarantine_events`
catches the exception without a rollback.  A bulk request names any
list of ids, in any order, with repetitions and with ids no row has; so `Request`
fixes only how many there are (`Sizes`), and each id is chosen when its turn
comes (`Take`, `NotFound`).  After a send that
succeeded the update of the checkpoint may raise (`ReleaseUnsaved`): the row
stays quarantined and the request goes on.  The update's None results
(`quarantine/service.py:228-233`) cannot occur there: the events a row yields
are non-empty objects and the send has just loaded the stream.

### NotificationOutbox and NotificationDelivery

The abstract module knows an event, the outcome of its jobs and what channels
received: jobs settle once, SENT only after the channel took the message, and
the event's status is the verdict over the outcomes at every moment.  The
detailed one has rows and row locks, leases, tokens, attempts and workers.
The refinement maps PENDING and LEASED to "OPEN" and leaves the event alone:
the transaction of `complete_delivery_job` is several steps (token, event
lock, read, commit), of which only the commit is a step of the abstract
module.  A claim's attempt number stands for its random token.

## 3. Runs

Passing:

| Run | Instance | States | Shows |
|---|---|---|---|
| `StreamRunRetry` | one worker, fair, routes RETRY and LOG, both with a standby, 2 events, 2 retries | 113 k | cursor covered by deliveries or leave; no failed batch lost to replay, no delivered one kept for it except by a retry; a cached context has every enabled route; every run that took the lock gives it back |
| `StreamRunConcurrent` | worker, run-once and backfill, one route with DISABLE, 3 events, pages of 2 | 1.5 M | the cursor property with stale cursors; lock discipline; why a cursor moves back, and that a backfill never moves it |
| `StreamRunRegistry` | run-once and backfill, routes PAUSE and UNKNOWN, dedup registry on | 3.2 M | the refinement of `Relay`: the registry hides no event nobody has, and the cursor passes none |
| `LifecycleEmbedded` | an API process with a scheduler of its own, a second API process, one lock directory, one crash or run-lock error | 2.8 M | a confirmed stop is quiet; one polling worker; `enabled` and `status` part only by a save or in a race; only a Start makes a stream pollable that is not RUNNING |
| `LifecycleLiveness` | scheduler, API, one crash or run-lock error, fair | 49 k | types; with one API process `enabled` and `status` disagree only as a save or the creation left them; a disabled stream loses its worker, a started one is polled |
| `ReplayRequests` | three requests of any kind, two attempt identities | 1.5 M | a replayed row was delivered; what keeps senders apart, what keeps one key per batch, when a duplicate is flagged, what undoes a settled row |
| `BackfillJobs` | two jobs, two processes, one crash or exception, fair | 645 k | one running job; COMPLETED means it ran; a settled job changes only by an old view; every unfinished job ends, unless the request in charge of it raised |
| `QuarantineRelease` | one runner, two routes, two events, batches of two, rows of one, two operators, one with bulk requests of two ids | 3.0 M | the refinement of `Relay`: no undelivered event is passed; what a run withheld is on record as far as a row reaches; released means delivered; decisions are final |
| `OutboxDelivery` | two channels, two workers, two attempts, any number of crashes, fair | 151 k | the refinement of `NotificationDelivery`; stale workers write nothing; the event settles |

Bounds.  Two routes let one succeed while the other fails, in either order of
the fan-out; every failure policy occurs in some run.  Three events and pages
of two give cursors that lag by one or two behind another run's.  Two retries
distinguish first, middle and last.  Three runners of different kinds meet at
one lock, where the number of routes does not matter; two routes with two
runners meet at the registry, where the number of runners does not.
Lifecycle needs one crash for the loss of an owner, and two API processes for
a Start between the two writes of a Stop.  Two schedulers beside each other
are in `LifecycleTwoSchedulers.cfg` (two faults, 2.2 M states), a scheduler with
two API processes in `LifecycleTwoApis.cfg` (3.9 M states); both pass and are kept beside the runs.  `LifecycleEmbedded` has one scheduler
and one lock directory: what two schedulers do to each other is in
`LifecycleTwoSchedulers.cfg` and the theorem `OneWorker`, separate directories
in `LifecycleContainers.cfg`.  The theorems have any number of processes.

Three replay requests let the late result of an overdue sender meet a takeover
and a third request; two identities are one more than a recovery may use.  Two
backfill jobs and two processes let a request act on an old view while another
process settles one job and starts the other.  One quarantine row per event
and route would be four; two rows and a bulk of two are enough for a release
to overtake a run, a release to overtake a release, and a bulk to be aborted
after its first row.  In the outbox two attempts distinguish the last from the
others, and two channels with two workers let the two settlements of an event
overlap.  `QuarantineRelease` has batches larger than a row
(`Page > KeepMax`), the 500-event limit below; its runner has no session, and
the rows of one that has are left to the theorem `HeldOnRecord`.

`MaxEvent`, `MaxFault`, `MaxAttempts` (of replay), `Rows` and `MaxBulk` are the
only bounds on what the code leaves open.  `MaxFault` counts crashes together
with run locks that raise (`StreamLifecycle`) or with exceptions nobody catches
(`BackfillJobs`): one fault per run is enough to lose an owner, leak a lock or
abandon a job.  The theorems of section 5 remove the
bounds for the safety properties they state.

Violated, each a disagreement between code and documentation quoted in
`PROJECT.json`:

| Run | What TLC finds |
|---|---|
| `StreamRunDedupLoss` | route 1 takes a batch, route 2 fails; the next run-once drops the batch as a duplicate and the cursor passes it: route 2 never gets it |
| `ReplayStaleView` | a discard commits between the load and the lock of a governance replay: the discarded batch is sent and the row ends as replayed |
| `QuarantineBackfill` | a backfill of a window ahead of the cursor records a quarantine row; its release moves the production cursor to the end of the window, over events nobody delivered |

Ten more configurations are kept beside these.  `LifecycleTwoApis.cfg` and
`LifecycleTwoSchedulers.cfg` pass; eight are violated, each a disagreement
found while modelling:

| Configuration, module | Property | What TLC finds |
|---|---|---|
| `StreamRunRetryRow`, `MCStreamRun` | `DeliveredBatchNotKept` | a batch delivered by a retry is stored for replay (`stream_runner.py:1115`; specs/068-replay-engine/spec.md:20 "Base route final send failure (after failover not recovered)") |
| `StreamRunStaleCache`, `MCStreamRun` | `DisabledRouteNotLoaded` | a disabled route is still in a cached context (`scheduler/context_cache.py:135`; specs/096-route-runtime-delivery/spec.md:326 "Route `enabled=false` \| Not processed") |
| `StreamRunLockLeak`, `MCStreamRun` | `HeldLockHasARun` | the file lock raises after the thread lock is taken, outside the `try`: the lock stays taken and no process runs the stream (`stream_runner.py:202-206`; the docstring at :2743 speaks of a process that "currently owns the stream run lock") |
| `LifecycleStopping`, `MCStreamLifecycle` | `LeavingWorkerConfirmsStop` | the leaving worker's confirmation is an UPDATE in a READ ONLY transaction; the row stays STOPPING (`scheduler/scheduler.py:549`, against the docstring at :536) |
| `LifecycleStartRace`, `MCStreamLifecycle` | `StoppedMeansDisabled` | a Start that meets a reconcile, or the two writes of a Stop: enabled and STOPPED, although no save parted them (`runtime/control_service.py:138`, `:227`; `streams/runtime_eligibility.py:6-9`) |
| `LifecycleContainers`, `MCStreamLifecycle` | `ConfirmedStopIsQuiet` | scheduler and API in containers without a shared lock directory: STOPPED is confirmed while the worker runs (`runners/stream_runtime_lock.py:23`, against :3-6) |
| `BackfillTwoActive`, `MCBackfillJobs` | `OneActiveJob` | a cancel probes job 1 as RUNNING, the worker settles it, job 2 starts, the cancel writes CANCELLING by its old view: two active jobs (`backfill/service.py:330`; specs/033-data-backfill-runtime/spec.md:130) |
| `BackfillRaise`, `MCBackfillJobs` | `RaisedJobSettles` | the worker raises what nobody catches: the job stays RUNNING in a live process and blocks the stream's other jobs (`backfill/worker.py:93`, `:110`; specs/033-data-backfill-runtime/spec.md:56 "`FAILED` \| Terminal error (`error_summary`)") |

Disagreements visible in single actions, without a configuration of their own:

- `RetryExhausted` stores the batch for replay twice (`stream_runner.py:1857`
  and `:1120`).
- `RetryOk` after an attempted failover is reported as a failure although the
  batch was delivered (`stream_runner.py:1085`; specs/067 says the route
  failure policy applies).
- `RouteRateLimited` leaves a status the scheduler does not poll, so the stream
  waits for an operator's Start (`stream_runner.py:960`; docs/master-design.md
  15.2 speaks of throttling).
- `RunNow` asks for no enabled stream (`runtime/router.py:3692`;
  docs/v1-readiness-checklist.md:215: "Stop pauses scheduling and rejects Run
  Now").
- `SaveConfig` parts `enabled` from `status` in one step, and so does a creation
  with `enabled=true` (`streams/router.py:177`, `:88`;
  `streams/runtime_eligibility.py:6-9`).  A save that disables a RUNNING stream
  is undone by a save that enables it, with no Start in between.
- `Finish` does not look whose claim it ends: the late failure of an overdue
  sender marks the row failed while the request that took over is sending
  (`replay/service.py:527`).  After a reported failure the next replay draws a
  new idempotency key although the batch may have arrived (`:424`).
- `Reconcile` fails jobs that run in another, live process
  (`backfill/service.py:84`; the docstring at :59 says "without a live owner"),
  and two starts of one job by old views run it twice.
- `Busy` in bulk: when the last row of a bulk release is busy, the answer says
  "released" for the earlier ones, whose transaction COMMIT rolls back
  (`governance_quarantine/service.py:566`).
- `SnapshotEnd`: a quarantine row keeps 500 events, the cursor passes the whole
  batch (`quarantine/recording.py:27`).  `QuarantinedOnRecord` is about the
  events a row keeps; `WholeBatchOnRecord` says when that is all of them.
- A release writes the cursor whatever the other routes got: the stronger
  `CheckpointCovered` of `StreamRun` does not survive a release, which
  specs/069 allows ("checkpoint may advance").

## 4. Fairness

`StreamRun`: a runner that has started a run keeps executing it (fetches and
sends have time-outs), and the worker keeps polling.  Nothing is assumed of
operators, of the source, of the outcome of a send or of the lock files: after
a failed acquire the process's later runs skip, for ever.

`StreamLifecycle`: threads keep running, the supervisor keeps its interval, a
TTL runs out, a request in hand is served.  Strong fairness is assumed of
taking the ownership, of the poll with a refreshed snapshot and of the context
load: a probe holds a lock for an instant and a failing cycle or refresh is
tried again, so a worker that keeps coming back is not refused for ever by
transient errors, those of the ownership file included.  It is assumed that the
stream has an enabled route.  Nothing is assumed of clients or crashes, nor of
the run lock: `StartedStreamIsPolled` promises a poll, and a poll that meets a
leaked lock runs nothing.

`BackfillJobs`: a request once begun, and the start-up of a process, run to
their end, which may be an exception (`Raise` is possible and not fair).
Nothing is assumed of clients; crashes and exceptions come to at most
`MaxFault`, and a process that died is started again.

`NotificationOutbox`: each worker's loop keeps polling, its sends end, clocks
advance.  Workers may die (or have a tick fail) any number of times.  The outbox
and its worker are both switched off by default; the model is of a deployment
that has switched them on.

## 5. Proofs

TLAPS proves, for every value of the constants that satisfies the named
assumptions `ConstantsAssumption`, `LifecycleAssumption`, `ReplayAssumption`,
`BackfillAssumption`, `QuarantineAssumption` and `OutboxAssumption`:

| Theorem | Statement |
|---|---|
| `TypeCorrect` | `Spec => []TypeOK` |
| `Serialised` | `Spec => []RunsAreSerialised` |
| `FailureKept` | `Spec => []FailureLeavesReplayRow` |
| `Covered` | `Spec => []CheckpointCovered`, assuming `RegistryUnread`: dedup is off, or only backfills have the session it needs (else it fails, see `StreamRunDedupLoss`) |
| `NeedsDelivery` | `Spec => []CheckpointNeedsDelivery`, dedup included; what `ImplementsRelay` means for the cursor |
| `RewoundOnlyByStaleContext` | the action property `CursorRewoundOnlyByStaleContext`: the cursor moves back only by a run with an old context, never by a backfill |
| `CachedContextComplete` | the action property `EnabledRouteIsLoaded` |
| `DisabledOnlyFromCache` | the action property `DisabledRouteNotLoaded`, assuming `Polling = {}` (with the cache it fails, see `StreamRunStaleCache`) |
| `KeptOnlyByRetry` | `Spec => []DeliveredKeptOnlyByRetry` (without the exception it fails, see `StreamRunRetryRow`) |
| `RunsImplementRelay` | `Spec => ImplementsRelay`, dedup and backfills included |
| `LifecycleTypeCorrect` | `Spec => []LifecycleTypeOK` |
| `OneWorker` | `Spec => []OneWorkerPolls`, any lock directories |
| `StopIsQuiet` | `Spec => []ConfirmedStopIsQuiet`, assuming one lock directory (with two it fails, see `LifecycleContainers`) |
| `RaceNeeded` | the action property `DisagreementNeedsRace`: the columns part only by a save, or by a Start or Stop that was overtaken |
| `StartResumes` | the action property `OnlyStartResumes`: a stream that is not RUNNING becomes pollable only by a Start |
| `ColumnsAgree` | `Spec => []EnabledAgreesWithStatus`, assuming one API process: the columns disagree only as a save or the creation left them (with two they part by a race, see `LifecycleStartRace`) |
| `ReplayTypeCorrect` | `Spec => []ReplayTypeOK` |
| `ReplayedDelivered` | `Spec => []ReplayedWasDelivered` |
| `SendersSeparated` | `Spec => []ClaimSeparatesSenders` |
| `KeyReused` | `Spec => []RecoveryReusesKey` |
| `RecoveryFlagged` | `Spec => []RecoveryIsFlagged` |
| `SettledUndone` | the action property `SettledUndoneOnlyByStaleView` |
| `SettledFinalWithoutPreload` | the action property `SettledIsFinal`, of behaviours in which no request loads the row before it locks it (otherwise it fails, see `ReplayStaleView`) |
| `BackfillTypeCorrect` | `Spec => []BackfillTypeOK` |
| `OneRunning` | `Spec => []OneRunningJob` |
| `CompletedRan` | `Spec => []CompletedJobRan` |
| `SettledStays` | the action property `SettledUndoneOnlyByOldView` |
| `QuarantineTypeCorrect` | `Spec => []QuarantineTypeOK` |
| `ReleasedDelivered` | `Spec => []ReleasedWasDelivered`, backfills included |
| `DecidedFinal` | the action property `DecidedRowsFinal` |
| `CursorDelivered` | `Spec => []CursorNeedsDelivery`, the same for runs and releases, assuming `Backfill = {}` (with a backfill it fails, see `QuarantineBackfill`) |
| `HeldOnRecord` | the action property `QuarantinedOnRecord`, any batch size |
| `WholeBatchOnRecord` | the same for whole batches, assuming `Page <= KeepMax` (a batch fits in a row) |
| `ReleasesImplementRelay` | `Spec => ImplementsRelay`, assuming `Backfill = {}` |
| `OutboxTypeCorrect` | `Spec => []OutboxTypeOK` |
| `EventAgrees` | `Spec => []EventAgreesWithJobs` |
| `DeadWhenSpent` | `Spec => []DeadOnlyWhenSpent` |
| `StaleWorkersHarmless` | the action property `StaleWorkersCannotUpdate` |
| `OutboxImplementsDelivery` | `Spec => ImplementsDelivery`, the refinement |
| `RelayedBehindCursor`, `DeliveriesAccumulate` | of `Relay`: every event behind the cursor was accepted; deliveries are never retracted and never ahead of the source |

The argument for `Covered`: the property speaks of committed rows, but the
decision is taken by a run that has yet to flush.  `CoverInv` adds, per run
in flight, that a result "delivered" means the batch is in `delivered`
(`RunOK`), that everything up to the run's own cursor is covered although the
checkpoint may have moved, that the batch is the stretch right behind that
cursor, and that a staged checkpoint has every route delivered or lenient
(`CoverOK`).  A stale
cursor is harmless because coverage, once reached, is never lost.
`NeedsDelivery` uses `SentInv`, the same with "some route took it", plus: every
registered key was accepted by somebody, so what dedup drops is safe to pass.
The registry endangers `Covered` only through a run that both reads it and
stages a cursor; a backfill reads it and stages none, hence `RegistryUnread`.

The argument for `RunsImplementRelay`: a send (`Ack`) is an `Accept` of one
route, `Flush` is a `Move` or a stutter, `Produce` is `Grow`, every other step
is a stutter.  `SentInv` gives the events behind a staged cursor; `LogInv` adds
that batches and staged cursors stay within the source log.

`CachedContextComplete` rests on `CacheInv`: while the cache is warm, an
enabled route is in it unless its row was written since the cache was filled,
and then the fingerprint differs.  The converse fails, because the
fingerprint does not see a route that went.  `KeptOnlyByRetry` rests on
`KeptInv`: a route with a replay row has failed, was absorbed or has the retry
policy, and routes still to do have neither row nor result, so a failover that
succeeds finds no row of its own.

The argument for `StopIsQuiet`: `OwnerInv` says that whoever is past the
ownership check, or leaving, owns its directory's lock.  `QuietInv` adds that
a quiet stream is disabled, so a worker can reach "gated" by an old snapshot
but cannot load a context, and that a stop about to confirm and not overtaken
by a Start or a save has seen no owner and will not see a worker with a
context.

The columns of the row: `RowSteps` lists the actions that write it.
`StopHolds` says that a stop nobody has overtaken has the stream disabled,
so its confirmation agrees with `enabled`; a Start whose row did not change
since its read writes both columns or finds them right.  What is left are saves
and the two races that `DisagreementNeedsRace` names.  With one API process the
races cannot happen (`AloneInv`: only a run's flush changes the row under a
Start), and `parted` records the saves.  `OnlyStartResumes` holds because a save
leaves the status and nothing but a Start writes RUNNING.

Replay: `ReplayInv` says that identities are drawn before they are used
(`AttemptInv`), that a send without an error has arrived (`ArrivalInv`), and
that, under the lock, a request which did not load the row earlier has its
committed status (`ViewInv`).  While no claim timed out and no old view was
used, the request with a send in hand is alone and the row shows its fresh
claim or was discarded meanwhile (`FlightInv`).  While no failure was reported,
one identity serves, take-overs included (`OnceInv`).  While nothing but
crashes happened, a sender that is not marked uncertain is the first to reach
the destination (`FlagInv`).

Backfill: `Sound` says what a process knows at its place: its job exists, a
worker that acknowledges or writes does so over a job it saw active, and a
worker about to write a success has made the run.  With it `OneRunningJob` and
`CompletedJobRan` are inductive: the one step that sets RUNNING looks at the
other jobs under the stream's lock, however old its view of its own job is.
An exception (`Raise`) leaves the rows alone, so it costs liveness only.

Quarantine: `CoreInv` says that the rows a transaction has marked are locked
by it, still quarantined in the table, and delivered when the mark is
"released": so a commit never overwrites a decision.  `CoverInv` extends the
cursor property to everything that may become the cursor: a run's cursor, the
start of its batch, the start of every row, and the cursor a transaction has
yet to commit.  A row starts right behind a covered cursor, so its release,
early or late, only reaches covered events; a backfill's row does not, which is
why the theorem needs `Backfill = {}`.  `RecordInv` says that each route a run
holds back has a row that the run's transaction can see, with the run's batch
as far as a row reaches (`SnapshotEnd`); a release or discard of it keeps its
events.  `BatchesFit` adds that a batch is no longer than a page, hence
`WholeBatchOnRecord`.  For `ReleasesImplementRelay`, `ReleaseSent` and
`RouteSent` are an `Accept`, `Flush` and `Commit` a `Move`; `BoundInv` keeps
batches, rows and cursors within the source log.

Outbox: `OutboxInv` says that a worker inside `complete_delivery_job` holds
the lease and the rows it claims to hold, and that what it read of the other
jobs is, up to PENDING and LEASED, what is committed when it commits.  The
commit is therefore a step of `NotificationDelivery` under the mapping of
section 2, and every other step, crashes included, is a send or a stutter.

Each finding of section 3 that has a configuration is delimited this way
where a proof can do it: `Covered`, `DisabledOnlyFromCache`,
`KeptOnlyByRetry`, `StopIsQuiet`, `ColumnsAgree`, `CursorDelivered`,
`WholeBatchOnRecord` and `SettledFinalWithoutPreload` prove the promise where the
cause is absent, and TLC shows it broken where it is present.

Only model-checked: the liveness properties (`RunsEnd`,
`WorkerLeavesDisabledStream`, `StartedStreamIsPolled`, `ActiveJobSettles`,
`EventSettles`), which need fairness, and the violated promises.

## 6. Not modelled, and the plan

Abstracted away on purpose: payloads and everything that rewrites them,
wording of log rows, latencies and back-off times (a wait may end at any time),
the rate limiters' windows, dynamic routes (delivered after the fan-out, no
effect on the checkpoint), inodes and the clean-up of lock files (only the
tests call it), the time between load and store of a refresh of the snapshot,
the operator's edit of a checkpoint,
`Scheduler.stop` (a crash covers its effect).

Of the quarantine, rows without a route and more than one stream.  The AI
gateway records such rows (`ai_gateway/quarantine_integration.py:84`); a release
of one sends it to every enabled route of the stream and moves the stream's
checkpoint, although its events never were in the source log, so the cursor
properties of `Quarantine` say nothing about streams that have them.  Of the
outbox, the direct dispatch used when it is switched off and the expiry of a
lease by the second; of replay, the stored payload, its hash check and the
destination's own deduplication.  The dedup registry is not composed with
quarantine or replay.

Not modelled at all: payload rules engines (transform, classification,
protection, policy precedence), adapters and parsers, rate-limit windows, the
AI gateway, authentication, administration, retention, analytics and the
frontend.  They are pure functions, I/O or single-row updates without a
protocol of their own; the parts of `tools/` are third-party.

Next, in this order:

1. The UDP pacing of `DestinationRateLimiter` (a token bucket shared by the
   senders of a process), with its rate bound as a theorem.
2. Dedup composed with quarantine and replay.
