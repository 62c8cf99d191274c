----------------------------- MODULE BackfillJobs -----------------------------
(***************************************************************************)
(* The backfill jobs of one stream, served by several API processes.       *)
(*                                                                         *)
(* start and cancel read the job, take the stream's advisory lock, select  *)
(* the row FOR UPDATE and commit.  The select returns the instance that    *)
(* the session already holds, with the attributes of the first read, so    *)
(* the check after the lock is made on "view", the status read before it.  *)
(* Only a commit, a rollback or refresh() makes the session read again.    *)
(* The worker of a started job reads and saves the row without the lock.   *)
(*                                                                         *)
(* The handlers are coroutines that never await: a process serves one      *)
(* backfill request at a time, to its end.  Its coordinator therefore never*)
(* shows another request of the same process a live owner, and it knows    *)
(* nothing of other processes: the tests of is_job_owned are all false and *)
(* are left out.                                                           *)
(*                                                                         *)
(* A commit, a query or a comparison that raises where nobody catches it   *)
(* ends the request and leaves the row as it was last saved (Raise).       *)
(***************************************************************************)
EXTENDS Naturals, FiniteSets

CONSTANTS
    Jobs,       \* job ids of the stream
    Processes,  \* API processes
    MaxFault    \* bound: crashes and uncaught exceptions

ASSUME BackfillAssumption ==
    /\ Jobs \subseteq Nat \ {0}
    /\ MaxFault \in Nat

VARIABLES
    status,     \* [Jobs -> BackfillJob.status], "none" before creation
    kind,       \* [Jobs -> what runtime_options_json asks for]
    cancelReq,  \* [Processes -> coordinator._cancel_requested]
    req,        \* [Processes -> the request being served]
    ran,        \* history: jobs whose replay went through the stream runner
    abandoned,  \* history: active, and a request raised since the last save
    faults      \* history: crashes and uncaught exceptions so far

vars == <<status, kind, cancelReq, req, ran, abandoned, faults>>

Active == {"RUNNING", "CANCELLING"}
Settled == {"COMPLETED", "FAILED", "CANCELLED"}
Statuses == {"none", "PENDING"} \union Active \union Settled

\* A job with a time window is replayed; one without goes through the dry
\* life cycle, which completes it only if dry_run_complete is set.
Kinds == {"replay", "dry", "lingering"}

Outcomes == {"none", "done", "skipped_lock", "raised"}

Idle == [pc |-> "idle", job |-> 0, view |-> "none", outcome |-> "none",
         todo |-> {}]

Init ==
    /\ status = [j \in Jobs |-> "none"]
    /\ kind = [j \in Jobs |-> "replay"]
    /\ cancelReq = [p \in Processes |-> {}]
    /\ req = [p \in Processes |-> Idle]
    /\ ran = {}
    /\ abandoned = {}
    /\ faults = 0

-----------------------------------------------------------------------------
(***************************************************************************)
(* Requests.                                                               *)
(***************************************************************************)

\* The row is saved with status s and the request goes on as r.
Save(p, s, r) ==
    /\ status' = [status EXCEPT ![req[p].job] = s]
    /\ req' = [req EXCEPT ![p] = r]
    /\ abandoned' = abandoned \ {req[p].job}

\* The request goes on as r and writes nothing.
Become(p, r) ==
    /\ req' = [req EXCEPT ![p] = r]
    /\ UNCHANGED <<status, abandoned>>

\* The request after it has read the row again.
Fresh(p) == [req[p] EXCEPT !.view = status[req[p].job]]

\* clear_job_session.
ClearSession(p) ==
    cancelReq' = [cancelReq EXCEPT ![p] = @ \ {req[p].job}]

\* create_backfill_job; replay_stream_backfill goes on to start the job,
\* with the row it has just refreshed.
Create(p, j, k, start) ==
    /\ req[p].pc = "idle"
    /\ status[j] = "none"
    /\ start => k = "replay"
    /\ status' = [status EXCEPT ![j] = "PENDING"]
    /\ kind' = [kind EXCEPT ![j] = k]
    /\ req' = IF start
                THEN [req EXCEPT ![p].pc = "start", ![p].job = j,
                                 ![p].view = "PENDING"]
                ELSE req
    /\ UNCHANGED <<cancelReq, ran, abandoned, faults>>

\* Mutant of Probe: a missing job is not refused.
ProbeMissing(p, j, what) ==
    /\ req[p].pc = "idle"
    /\ Become(p, [Idle EXCEPT !.pc = what, !.job = j, !.view = status[j]])
    /\ UNCHANGED <<kind, cancelReq, ran, faults>>

\* get_backfill_job: the probe of start_backfill_job and cancel_backfill_job.
Probe(p, j, what) ==
    /\ req[p].pc = "idle"
    /\ status[j] # "none"
    /\ Become(p, [Idle EXCEPT !.pc = what, !.job = j, !.view = status[j]])
    /\ UNCHANGED <<kind, cancelReq, ran, faults>>

\* Mutant of NoOtherActive: only cancelling jobs are counted.
NoOtherCancelling(j) == \A k \in Jobs \ {j} : status[k] # "CANCELLING"

\* count_active_backfills_on_stream, a query of the current rows.
NoOtherActive(j) == \A k \in Jobs \ {j} : status[k] \notin Active

\* start_backfill_job under the stream's lock.
Start(p) ==
    LET r == req[p] IN
    /\ r.pc = "start"
    /\ IF r.view = "PENDING" /\ NoOtherActive(r.job)
         THEN Save(p, "RUNNING", [r EXCEPT !.pc = "begin"])
         ELSE Become(p, Idle)
    /\ UNCHANGED <<kind, cancelReq, ran, faults>>

\* cancel_backfill_job, one action per status of the probe.
CancelPending(p) ==
    /\ req[p].pc = "cancel"
    /\ req[p].view = "PENDING"
    /\ Save(p, "CANCELLED", Idle)
    /\ ClearSession(p)
    /\ UNCHANGED <<kind, ran, faults>>

CancelRunning(p) ==
    /\ req[p].pc = "cancel"
    /\ req[p].view = "RUNNING"
    /\ Save(p, "CANCELLING", [req[p] EXCEPT !.pc = "refresh"])
    /\ cancelReq' = [cancelReq EXCEPT ![p] = @ \union {req[p].job}]
    /\ UNCHANGED <<kind, ran, faults>>

\* db.refresh after the commit of CancelRunning.
Refresh(p) ==
    /\ req[p].pc = "refresh"
    /\ Become(p, [Fresh(p) EXCEPT !.pc = "finalize"])
    /\ UNCHANGED <<kind, cancelReq, ran, faults>>

CancelCancelling(p) ==
    /\ req[p].pc = "cancel"
    /\ req[p].view = "CANCELLING"
    /\ Become(p, [req[p] EXCEPT !.pc = "finalize"])
    /\ cancelReq' = [cancelReq EXCEPT ![p] = @ \union {req[p].job}]
    /\ UNCHANGED <<kind, ran, faults>>

\* Mutant of CancelRefused: a settled job is cancelled too.
CancelSettled(p) ==
    /\ req[p].pc = "cancel"
    /\ req[p].view \in Settled
    /\ Save(p, "CANCELLED", Idle)
    /\ UNCHANGED <<kind, cancelReq, ran, faults>>

CancelRefused(p) ==
    /\ req[p].pc = "cancel"
    /\ req[p].view \in Settled
    /\ Become(p, Idle)
    /\ UNCHANGED <<kind, cancelReq, ran, faults>>

\* _finalize_cancelling_without_owner.
Finalize(p) ==
    /\ req[p].pc = "finalize"
    /\ IF req[p].view = "CANCELLING"
         THEN Save(p, "CANCELLED", Idle) /\ ClearSession(p)
         ELSE Become(p, Idle) /\ UNCHANGED cancelReq
    /\ UNCHANGED <<kind, ran, faults>>

-----------------------------------------------------------------------------
(***************************************************************************)
(* The worker of a started job, in the request that started it.            *)
(***************************************************************************)

\* The refresh after the commit of Start, and the entry of run_replay_job and
\* run_dry_lifecycle on that view.  A window that does not parse, or is
\* empty, fails the job at once; the bounds of one that mixes naive and aware
\* times cannot be compared, which is a Raise.
Begin(p) ==
    /\ req[p].pc = "begin"
    /\ LET r == Fresh(p) IN
       \/ /\ r.view \notin Active
          /\ Become(p, Idle)
       \/ /\ r.view \in Active
          /\ r.view = "CANCELLING" \/ r.job \in cancelReq[p]
          /\ Become(p, [r EXCEPT !.pc = "ack"])
       \/ /\ r.view = "RUNNING"
          /\ r.job \notin cancelReq[p]
          /\ IF kind[r.job] = "replay"
               THEN \/ Become(p, [r EXCEPT !.pc = "run"])
                    \/ Become(p, [r EXCEPT !.pc = "write",
                                           !.outcome = "raised"])
               ELSE Become(p, [r EXCEPT !.pc = "check", !.outcome = "done"])
    /\ UNCHANGED <<kind, cancelReq, ran, faults>>

\* The replay_started event, load_stream_context and StreamRunner.run without
\* checkpoint.  "raised" is a ValueError of the context or any exception of the
\* runner; what else raises here is a Raise.
Run(p) ==
    /\ req[p].pc = "run"
    /\ \E o \in Outcomes \ {"none"} :
         /\ Become(p, [req[p] EXCEPT !.pc = "check", !.outcome = o])
         /\ ran' = IF o = "done" THEN ran \union {req[p].job} ELSE ran
    /\ UNCHANGED <<kind, cancelReq, faults>>

\* The row is read after the run: _fail_job after an exception, else the
\* cancellation check.
Check(p) ==
    /\ req[p].pc = "check"
    /\ LET r == Fresh(p)
           cancelled == r.view = "CANCELLING" \/ r.job \in cancelReq[p]
       IN
       \/ /\ r.view \notin Active
          /\ Become(p, Idle)
       \/ /\ r.view \in Active
          /\ r.outcome # "raised" /\ cancelled
          /\ Become(p, [r EXCEPT !.pc = "ack"])
       \/ /\ r.view \in Active
          /\ r.outcome = "raised" \/ ~cancelled
          /\ Become(p, [r EXCEPT !.pc = "write"])
    /\ UNCHANGED <<kind, cancelReq, ran, faults>>

\* _cancel_terminal saves the row it has read; the session is cleared after
\* the event, unless that raises.
Ack(p) ==
    /\ req[p].pc = "ack"
    /\ Save(p, "CANCELLED", Idle)
    /\ ClearSession(p) \/ UNCHANGED cancelReq
    /\ UNCHANGED <<kind, ran, faults>>

\* Mutant of Result: the outcome of the run is not looked at.
ResultCompleted(p) ==
    IF req[p].outcome = "raised" THEN "FAILED"
    ELSE IF kind[req[p].job] = "lingering" THEN "unchanged"
    ELSE "COMPLETED"

\* What the worker saves; the dry life cycle may leave the status alone.
Result(p) ==
    IF req[p].outcome \in {"raised", "skipped_lock"} THEN "FAILED"
    ELSE IF kind[req[p].job] = "lingering" THEN "unchanged"
    ELSE "COMPLETED"

Write(p) ==
    /\ req[p].pc = "write"
    /\ IF Result(p) = "unchanged" THEN Become(p, Idle)
                                  ELSE Save(p, Result(p), Idle)
    /\ UNCHANGED <<kind, cancelReq, ran, faults>>

-----------------------------------------------------------------------------
(***************************************************************************)
(* An exception nobody catches, a crash, and                               *)
(* reconcile_orphaned_backfill_jobs at start-up.                           *)
(***************************************************************************)

\* The active jobs the request of p was to save: its own and the rest of its
\* list, or all of them when start-up cannot even list them.
Charge(p) ==
    {j \in Jobs : /\ status[j] \in Active
                  /\ \/ req[p].pc = "down"
                     \/ j \in {req[p].job} \union req[p].todo}

\* The request, its worker or the start-up ends in an exception before its
\* next save: the client gets an error, start-up goes on without the
\* reconciliation, and the rows stay as they are.  request_cancel comes before
\* the commit of CancelRunning.
Raise(p) ==
    /\ req[p].pc # "idle"
    /\ faults < MaxFault
    /\ faults' = faults + 1
    /\ req' = [req EXCEPT ![p] = Idle]
    /\ abandoned' = abandoned \union Charge(p)
    /\ \/ UNCHANGED cancelReq
       \/ /\ req[p].pc = "cancel"
          /\ req[p].view = "RUNNING"
          /\ cancelReq' = [cancelReq EXCEPT ![p] = @ \union {req[p].job}]
    /\ UNCHANGED <<status, kind, ran>>

Crash(p) ==
    /\ req[p].pc # "down"
    /\ faults < MaxFault
    /\ faults' = faults + 1
    /\ Become(p, [Idle EXCEPT !.pc = "down"])
    /\ cancelReq' = [cancelReq EXCEPT ![p] = {}]
    /\ UNCHANGED <<kind, ran>>

\* The next job of S, by id, is read; without one start-up is over.
NextOrphan(p, S) ==
    IF S = {} THEN Become(p, Idle)
    ELSE \E j \in S :
           /\ \A k \in S : j <= k
           /\ Become(p, [Idle EXCEPT !.pc = "reconcile", !.job = j,
                                     !.view = status[j], !.todo = S \ {j}])

\* Mutant of Orphans: only RUNNING jobs are listed.
OrphansRunning == {j \in Jobs : status[j] = "RUNNING"}

\* list_active_backfill_jobs.
Orphans == {j \in Jobs : status[j] \in Active}

\* The process is started again and lists the active jobs.
Restart(p) ==
    /\ req[p].pc = "down"
    /\ NextOrphan(p, Orphans)
    /\ UNCHANGED <<kind, cancelReq, ran, faults>>

\* A job is settled under the stream's lock, by the view of it.
Reconcile(p) ==
    LET r == [req[p] EXCEPT !.pc = "orphans"] IN
    /\ req[p].pc = "reconcile"
    /\ \/ r.view = "RUNNING" /\ Save(p, "FAILED", r) /\ ClearSession(p)
       \/ r.view = "CANCELLING" /\ Save(p, "CANCELLED", r) /\ ClearSession(p)
       \/ r.view \notin Active /\ Become(p, r) /\ UNCHANGED cancelReq
    /\ UNCHANGED <<kind, ran, faults>>

\* The commit expired the rest of the list: the next row is read again.
ReconcileNext(p) ==
    /\ req[p].pc = "orphans"
    /\ NextOrphan(p, req[p].todo)
    /\ UNCHANGED <<kind, cancelReq, ran, faults>>

Request(p) ==
    \E j \in Jobs :
      \/ \E k \in Kinds, start \in BOOLEAN : Create(p, j, k, start)
      \/ \E what \in {"start", "cancel"} : Probe(p, j, what)

\* A request once begun runs to its end, and so does start-up, unless it
\* raises.
Step(p) ==
    \/ Start(p)
    \/ CancelPending(p) \/ CancelRunning(p) \/ CancelCancelling(p)
    \/ CancelRefused(p) \/ Refresh(p) \/ Finalize(p)
    \/ Begin(p) \/ Run(p) \/ Check(p) \/ Ack(p) \/ Write(p)
    \/ Restart(p) \/ Reconcile(p) \/ ReconcileNext(p)

Next == \E p \in Processes : Request(p) \/ Step(p) \/ Raise(p) \/ Crash(p)

Spec == Init /\ [][Next]_vars

FairSpec == Spec /\ \A p \in Processes : WF_vars(Step(p))

-----------------------------------------------------------------------------
(***************************************************************************)
(* Properties.                                                             *)
(***************************************************************************)

Pcs == {"idle", "start", "begin", "run", "check", "ack", "write", "cancel",
        "refresh", "finalize", "down", "reconcile", "orphans"}

Requests == [pc : Pcs, job : Jobs \union {0}, view : Statuses,
             outcome : Outcomes, todo : SUBSET Jobs]

\* The states of the rows and of the processes, and that a request acts on a
\* job that was created.
BackfillTypeOK ==
    /\ status \in [Jobs -> Statuses]
    /\ kind \in [Jobs -> Kinds]
    /\ cancelReq \in [Processes -> SUBSET Jobs]
    /\ req \in [Processes -> Requests]
    /\ ran \subseteq Jobs
    /\ abandoned \subseteq Jobs
    /\ faults \in 0..MaxFault
    /\ \A p \in Processes :
         req[p].pc \notin {"idle", "down"} =>
           req[p].job \in Jobs /\ status[req[p].job] # "none"

\* start_backfill_job counts the active jobs under the stream's lock: two
\* jobs of a stream are never RUNNING together, whatever the requests, the
\* workers, crashes and start-ups interleave.
OneRunningJob ==
    \A j, k \in Jobs : status[j] = "RUNNING" /\ status[k] = "RUNNING" => j = k

\* A replay job that reads COMPLETED has had a run through the stream runner
\* that was not turned away by the run lock, whoever else wrote the row.
CompletedJobRan ==
    \A j \in Jobs : status[j] = "COMPLETED" /\ kind[j] = "replay" => j \in ran

\* A job that was cancelled, failed or completed gets another status only
\* from a request that read the row before it was settled.
SettledUndoneOnlyByOldView ==
    [][\A j \in Jobs :
         status[j] \in Settled /\ status'[j] # status[j] =>
           \E p \in Processes :
             /\ req[p].job = j
             /\ req[p].pc \notin {"idle", "begin", "run", "check"}
             /\ req[p].view \notin Settled]_vars

\* The job is on its way to an end: it is cancelling, or running and of a
\* kind that ends by itself.
Unfinished(j) ==
    \/ status[j] = "CANCELLING"
    \/ status[j] = "RUNNING" /\ kind[j] # "lingering"

\* An unfinished job is finished, or a request that was to finish it ended in
\* an exception that nobody catches and its row has not been saved since: a
\* live process ends its request, and the start-up of one that died settles
\* what it left.  A later cancel puts an abandoned job back on its way.
ActiveJobSettles ==
    \A j \in Jobs : Unfinished(j) ~> ~Unfinished(j) \/ j \in abandoned

\* specs/033-data-backfill-runtime/spec.md: the stream lock "prevents two
\* jobs on the same stream from being RUNNING or CANCELLING concurrently".
OneActiveJob ==
    \A j, k \in Jobs : status[j] \in Active /\ status[k] \in Active => j = k

\* specs/033-data-backfill-runtime/spec.md: FAILED is "Terminal error
\* (error_summary)"; a comment of run_replay_job: "surfaced to job row".  An
\* error that nobody catches ends the job too.
RaisedJobSettles == \A j \in Jobs : Unfinished(j) ~> ~Unfinished(j)

=============================================================================
