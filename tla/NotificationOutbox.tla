-------------------------- MODULE NotificationOutbox --------------------------
(***************************************************************************)
(* The durable outbox of governance notifications, for one event.          *)
(*                                                                         *)
(* The event and one delivery job per configured channel are written in    *)
(* the caller's transaction.  Workers of several processes poll the jobs:  *)
(* a worker leases a batch, commits, and then, job by job, reads the       *)
(* configuration, sends, and settles the job in a second transaction that  *)
(* compares the lease token.  A lease may expire while its worker is still *)
(* busy with the batch, and a worker may die anywhere.                     *)
(*                                                                         *)
(* Time is abstracted to the two facts the queries ask for: a back-off has *)
(* passed, a lease has expired (both are "ripe").  Every claim of a job    *)
(* increases its attempt_count, so the attempt number stands for the       *)
(* random token of that claim.                                             *)
(***************************************************************************)
EXTENDS Naturals

CONSTANTS
    Channels,     \* email, webhook
    Workers,      \* the outbox workers, one per process
    MaxAttempts,  \* MAX_ATTEMPTS
    NoWorker      \* a row is not locked

ASSUME OutboxAssumption ==
    /\ MaxAttempts \in Nat \ {0}
    /\ NoWorker \notin Workers

VARIABLES
    \* Database rows and their locks.
    event,      \* status of the event, "none" before it is recorded
    job,        \* [Channels -> the delivery job]
    jobLock,    \* [Channels -> the worker whose transaction holds the row]
    eventLock,  \* the worker whose transaction holds the event's row
    current,    \* config.updated_at is still the revision of the jobs
    \* Process state.
    worker,     \* [Workers -> the batch in hand]
    \* The world outside.
    received    \* channels that took the message

lockVars == <<jobLock, eventLock>>

vars == <<event, job, lockVars, current, worker, received>>

Statuses == {"none", "PENDING", "LEASED", "SENT", "DEAD"}

NoJob == [status |-> "none", attempts |-> 0, ripe |-> FALSE]

IdleWorker ==
    [pc       |-> "idle",
     batch    |-> {},                             \* claims not yet taken up
     claim    |-> [channel |-> NoWorker, token |-> 0],
     accepted |-> FALSE,
     changed  |-> FALSE,                          \* CONFIG_CHANGED
     seen     |-> [c \in Channels |-> "none"]]    \* statuses read

Init ==
    /\ event = "none"
    /\ job = [c \in Channels |-> NoJob]
    /\ jobLock = [c \in Channels |-> NoWorker]
    /\ eventLock = NoWorker
    /\ current = TRUE
    /\ worker = [w \in Workers |-> IdleWorker]
    /\ received = {}

-----------------------------------------------------------------------------
(***************************************************************************)
(* Recording, and what changes under the workers' feet.                    *)
(***************************************************************************)

\* NotificationService.record_event and enqueue_delivery_jobs, in the
\* caller's transaction: S are the channels that are enabled and configured.
RecordEvent(S) ==
    /\ event = "none"
    /\ event' = IF S = {} THEN "FAILED" ELSE "PENDING"
    /\ job' = [c \in Channels |->
                 IF c \in S THEN [status |-> "PENDING", attempts |-> 0,
                                  ripe |-> TRUE]
                            ELSE NoJob]
    /\ UNCHANGED <<lockVars, current, worker, received>>

\* NotificationService.update_config gives the configuration a new revision.
UpdateConfig ==
    /\ event # "none"
    /\ current
    /\ current' = FALSE
    /\ UNCHANGED <<event, job, lockVars, worker, received>>

\* The back-off of a job passes, or its lease expires.
TimePasses(c) ==
    /\ job[c].status \in {"PENDING", "LEASED"}
    /\ ~job[c].ripe
    /\ job' = [job EXCEPT ![c].ripe = TRUE]
    /\ UNCHANGED <<event, lockVars, current, worker, received>>

-----------------------------------------------------------------------------
(***************************************************************************)
(* A worker.                                                               *)
(***************************************************************************)

\* _reconcile_event: the status an event takes from those of its jobs.
EventStatus(s) ==
    IF \A c \in Channels : s[c] \in {"none", "SENT"} THEN "SENT"
    ELSE IF \E c \in Channels : s[c] = "DEAD" THEN "FAILED"
    ELSE "PENDING"

Status(j) == [c \in Channels |-> j[c].status]

\* Mutant of Eligible: expired leases are not looked for.
EligiblePendingOnly(c) ==
    /\ job[c].status = "PENDING"
    /\ job[c].ripe
    /\ jobLock[c] = NoWorker

\* _eligible_query: due or with an expired lease, and (SKIP LOCKED) not held
\* by another transaction.
Eligible(c) ==
    /\ job[c].status \in {"PENDING", "LEASED"}
    /\ job[c].ripe
    /\ jobLock[c] = NoWorker

\* Mutant of Spent: the last attempt is never made.
SpentTooEarly(c) == job[c].attempts + 1 >= MaxAttempts

\* Mutant of Spent: one attempt too many.
SpentTooLate(c) == job[c].attempts > MaxAttempts

Spent(c) == job[c].attempts >= MaxAttempts

\* claim_delivery_jobs, committed.  The batch is any part of the eligible
\* jobs (other events' jobs may fill the limit).  A job without attempts left
\* dies here, and its event is reconciled under the event's lock.
Claim(w) ==
    /\ worker[w].pc = "idle"
    /\ \E S \in SUBSET {c \in Channels : Eligible(c)} :
         LET spent == {c \in S : Spent(c)} IN
         /\ S # {}
         /\ job' = [c \in Channels |->
                      IF c \in spent
                        THEN [job[c] EXCEPT !.status = "DEAD",
                                            !.ripe = FALSE]
                      ELSE IF c \in S
                        THEN [status |-> "LEASED", ripe |-> FALSE,
                              attempts |-> job[c].attempts + 1]
                      ELSE job[c]]
         /\ spent # {} => eventLock = NoWorker
         /\ event' = IF spent = {} THEN event ELSE EventStatus(Status(job'))
         /\ worker' = [worker EXCEPT
                         ![w].pc = IF S = spent THEN "idle" ELSE "next",
                         ![w].batch = {[channel |-> c,
                                        token |-> job[c].attempts + 1] :
                                          c \in S \ spent}]
    /\ UNCHANGED <<lockVars, current, received>>

\* The next claim of the batch: the configuration is read, the lease is not.
\* A revision other than the job's settles the job without a send.
Prepare(w) ==
    /\ worker[w].pc = "next"
    /\ \E k \in worker[w].batch :
         worker' = [worker EXCEPT
                      ![w].pc = IF current THEN "send" ELSE "complete",
                      ![w].batch = @ \ {k},
                      ![w].claim = k,
                      ![w].accepted = FALSE,
                      ![w].changed = ~current]
    /\ UNCHANGED <<event, job, lockVars, current, received>>

\* Mutant of Send: a request that was written counts as accepted.
SendAssumesSuccess(w) ==
    /\ worker[w].pc = "send"
    /\ \E arrives \in BOOLEAN :
         /\ received' = IF arrives
                          THEN received \cup {worker[w].claim.channel}
                          ELSE received
         /\ worker' = [worker EXCEPT ![w].pc = "complete",
                                     ![w].accepted = TRUE]
    /\ UNCHANGED <<event, job, lockVars, current>>

\* The message may arrive without the worker learning of it.
Send(w) ==
    /\ worker[w].pc = "send"
    /\ \E arrives \in BOOLEAN, accepted \in BOOLEAN :
         /\ accepted => arrives
         /\ received' = IF arrives
                          THEN received \cup {worker[w].claim.channel}
                          ELSE received
         /\ worker' = [worker EXCEPT ![w].pc = "complete",
                                     ![w].accepted = accepted]
    /\ UNCHANGED <<event, job, lockVars, current>>

\* The worker S when it is done with a claim.
AfterClaim(S) ==
    IF S.batch = {} THEN IdleWorker
                    ELSE [IdleWorker EXCEPT !.pc = "next", !.batch = S.batch]

\* Mutant of LeaseHeld: the token is not compared.
LeasedBySomeone(w) == job[worker[w].claim.channel].status = "LEASED"

\* The lease of worker w's claim is still the job's lease.
LeaseHeld(w) ==
    LET j == job[worker[w].claim.channel] IN
    /\ j.status = "LEASED"
    /\ j.attempts = worker[w].claim.token

\* complete_delivery_job takes the job's row (waiting for it); a worker that
\* lost its lease leaves without a trace.
CompareToken(w) ==
    LET c == worker[w].claim.channel IN
    /\ worker[w].pc = "complete"
    /\ jobLock[c] = NoWorker
    /\ IF LeaseHeld(w)
         THEN /\ jobLock' = [jobLock EXCEPT ![c] = w]
              /\ worker' = [worker EXCEPT ![w].pc = "reconcile"]
         ELSE /\ worker' = [worker EXCEPT ![w] = AfterClaim(worker[w])]
              /\ UNCHANGED jobLock
    /\ UNCHANGED <<event, job, eventLock, current, received>>

\* Mutant of LockEvent: _reconcile_event without FOR UPDATE.
LockEventNot(w) ==
    /\ worker[w].pc = "reconcile"
    /\ worker' = [worker EXCEPT ![w].pc = "reading"]
    /\ UNCHANGED <<event, job, lockVars, current, received>>

LockEvent(w) ==
    /\ worker[w].pc = "reconcile"
    /\ eventLock = NoWorker
    /\ eventLock' = w
    /\ worker' = [worker EXCEPT ![w].pc = "reading"]
    /\ UNCHANGED <<event, job, jobLock, current, received>>

\* What complete_delivery_job makes of the job.
NewStatus(w) ==
    IF worker[w].accepted THEN "SENT"
    ELSE IF worker[w].changed \/ Spent(worker[w].claim.channel) THEN "DEAD"
    ELSE "PENDING"

\* The statuses of the event's jobs: the committed ones, and this
\* transaction's own update.
ReadStatuses(w) ==
    /\ worker[w].pc = "reading"
    /\ worker' = [worker EXCEPT
                    ![w].pc = "commit",
                    ![w].seen = [Status(job) EXCEPT
                                   ![worker[w].claim.channel] = NewStatus(w)]]
    /\ UNCHANGED <<event, job, lockVars, current, received>>

Commit(w) ==
    LET c == worker[w].claim.channel IN
    /\ worker[w].pc = "commit"
    /\ job' = [job EXCEPT ![c].status = NewStatus(w), ![c].ripe = FALSE]
    /\ event' = EventStatus(worker[w].seen)
    /\ jobLock' = [jobLock EXCEPT ![c] = NoWorker]
    /\ eventLock' = IF eventLock = w THEN NoWorker ELSE eventLock
    /\ worker' = [worker EXCEPT ![w] = AfterClaim(worker[w])]
    /\ UNCHANGED <<current, received>>

\* The process dies, or drain_outbox_once raises and trigger_once swallows
\* it: the transaction in hand is rolled back, the batch is forgotten.
Abandon(w) ==
    /\ worker[w].pc # "idle"
    /\ worker' = [worker EXCEPT ![w] = IdleWorker]
    /\ jobLock' = [c \in Channels |->
                     IF jobLock[c] = w THEN NoWorker ELSE jobLock[c]]
    /\ eventLock' = IF eventLock = w THEN NoWorker ELSE eventLock
    /\ UNCHANGED <<event, job, current, received>>

WorkerStep(w) ==
    \/ Prepare(w)
    \/ Send(w)
    \/ CompareToken(w)
    \/ LockEvent(w)
    \/ ReadStatuses(w)
    \/ Commit(w)

Next ==
    \/ \E S \in SUBSET Channels : RecordEvent(S)
    \/ UpdateConfig
    \/ \E c \in Channels : TimePasses(c)
    \/ \E w \in Workers : Claim(w) \/ WorkerStep(w) \/ Abandon(w)

Spec == Init /\ [][Next]_vars

\* Each worker's loop polls for ever and its sends time out; clocks advance.
\* Workers may die at any time and any number of times.
Fairness ==
    /\ \A w \in Workers : WF_vars(Claim(w)) /\ WF_vars(WorkerStep(w))
    /\ \A c \in Channels : WF_vars(TimePasses(c))

FairSpec == Spec /\ Fairness

-----------------------------------------------------------------------------
(***************************************************************************)
(* Properties.                                                             *)
(***************************************************************************)

Claims == [channel : Channels, token : 1..MaxAttempts]

WorkerType ==
    [pc : {"idle", "next", "send", "complete", "reconcile", "reading",
           "commit"},
     batch : SUBSET Claims,
     claim : Claims \cup {IdleWorker.claim},
     accepted : BOOLEAN,
     changed : BOOLEAN,
     seen : [Channels -> Statuses]]

\* Every variable keeps its type; attempt_count never exceeds MAX_ATTEMPTS.
OutboxTypeOK ==
    /\ event \in {"none", "PENDING", "SENT", "FAILED"}
    /\ job \in [Channels -> [status : Statuses, attempts : 0..MaxAttempts,
                             ripe : BOOLEAN]]
    /\ jobLock \in [Channels -> Workers \cup {NoWorker}]
    /\ eventLock \in Workers \cup {NoWorker}
    /\ current \in BOOLEAN
    /\ worker \in [Workers -> WorkerType]
    /\ received \in SUBSET Channels

\* The event's status is the verdict over its jobs' committed statuses in
\* every state, although the jobs of two channels are settled by concurrent
\* transactions that cannot see each other's updates (_reconcile_event).
EventAgreesWithJobs ==
    event # "none" /\ (\E c \in Channels : job[c].status # "none")
      => event = EventStatus(Status(job))

\* A job is given up only when its configuration changed or all of its
\* MAX_ATTEMPTS claims were used.
DeadOnlyWhenSpent ==
    \A c \in Channels :
      job[c].status = "DEAD" => job[c].attempts = MaxAttempts \/ ~current

\* "Compare-and-swap the lease token; stale workers cannot update state"
\* (outbox.py): a lease ends by the worker that holds it, or by its expiry.
StaleWorkersCannotUpdate ==
    [][\A c \in Channels :
         job[c].status = "LEASED" /\ job'[c].status # "LEASED" =>
           \/ job[c].ripe /\ job[c].attempts = MaxAttempts
           \/ \E w \in Workers :
                /\ worker[w].pc = "commit"
                /\ worker[w].claim = [channel |-> c,
                                      token |-> job[c].attempts]]_vars

\* The job columns as the abstract specification sees them.
Outcome ==
    [c \in Channels |-> IF job[c].status \in {"PENDING", "LEASED"}
                          THEN "OPEN" ELSE job[c].status]

Delivery == INSTANCE NotificationDelivery
              WITH outcome <- Outcome, received <- received, verdict <- event

\* The outbox implements NotificationDelivery: jobs settle once and for good,
\* SENT only after the channel took the message, and the event's status moves
\* in the same step as the job it depends on.
ImplementsDelivery == Delivery!Spec

\* No event stays PENDING: crashes, lost leases and failing channels only
\* use up attempts.
EventSettles == event = "PENDING" ~> event \in {"SENT", "FAILED"}
=============================================================================
