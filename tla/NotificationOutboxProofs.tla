----------------------- MODULE NotificationOutboxProofs -----------------------
(***************************************************************************)
(* Proofs about NotificationOutbox, for any channels, workers and number   *)
(* of attempts.                                                            *)
(*                                                                         *)
(* OutboxInv ties a worker inside complete_delivery_job to the rows it has *)
(* locked: the lease of its claim is still the job's, and what it has read *)
(* of the other jobs is, up to PENDING and LEASED, what is committed.      *)
(***************************************************************************)
EXTENDS NotificationOutbox, TLAPS

Open == {"PENDING", "LEASED"}

\* Inside the transaction of complete_delivery_job, past the token.
Settling == {"reconcile", "reading", "commit"}

\* A worker that sends or settles has a claim in hand.
ClaimInv ==
    \A w \in Workers :
      worker[w].pc \in {"send", "complete"} \cup Settling =>
        worker[w].claim \in Claims

\* A settling worker has the job's row and lease, and from "reading" on the
\* event's row.
LockInv ==
    \A w \in Workers :
      /\ worker[w].pc \in Settling =>
           jobLock[worker[w].claim.channel] = w /\ LeaseHeld(w)
      /\ worker[w].pc \in {"reading", "commit"} => eventLock = w

\* What a worker believes is so.
BeliefInv ==
    \A w \in Workers :
      /\ worker[w].pc \in {"complete"} \cup Settling /\ worker[w].accepted =>
           worker[w].claim.channel \in received
      /\ worker[w].changed => ~current
      /\ worker[w].pc = "commit" =>
           \A c \in Channels :
             IF c = worker[w].claim.channel
               THEN worker[w].seen[c] = NewStatus(w)
               ELSE \/ worker[w].seen[c] = job[c].status
                    \/ worker[w].seen[c] \in Open /\ job[c].status \in Open

\* Before the event there is nothing; an event without jobs has failed.
EventInv ==
    /\ event = "none" => \A w \in Workers : worker[w].pc = "idle"
    /\ event = "none" => \A c \in Channels : job[c].status = "none"
    /\ event # "none" /\ (\A c \in Channels : job[c].status = "none") =>
         event = "FAILED"

OutboxInv ==
    /\ OutboxTypeOK
    /\ ClaimInv
    /\ LockInv
    /\ BeliefInv
    /\ EventInv
    /\ EventAgreesWithJobs
    /\ DeadOnlyWhenSpent

JobType == [status : Statuses, attempts : 0..MaxAttempts, ripe : BOOLEAN]

-----------------------------------------------------------------------------

WorkerPCs == {"idle", "next", "send", "complete"} \cup Settling

\* Updates of a worker's record.
LEMMA WorkerRecords ==
  ASSUME NEW r \in WorkerType, NEW x \in WorkerPCs
  PROVE  /\ [r EXCEPT !.pc = x] \in WorkerType
         /\ \A B \in SUBSET Claims : [r EXCEPT !.pc = x, !.batch = B] \in WorkerType
         /\ \A b \in BOOLEAN : [r EXCEPT !.pc = x, !.accepted = b] \in WorkerType
         /\ \A f \in [Channels -> Statuses] :
              [r EXCEPT !.pc = x, !.seen = f] \in WorkerType
         /\ \A B \in SUBSET Claims, k \in Claims, b \in BOOLEAN :
              [r EXCEPT !.pc = x, !.batch = B, !.claim = k, !.accepted = FALSE,
                        !.changed = b] \in WorkerType
BY DEF WorkerType, WorkerPCs, Settling

\* The worker that is done with a claim.
LEMMA DoneRecords ==
  ASSUME NEW r \in WorkerType
  PROVE  /\ IdleWorker \in WorkerType
         /\ AfterClaim(r) \in WorkerType
         /\ AfterClaim(r).pc \in {"idle", "next"}
         /\ AfterClaim(r).changed = FALSE
<1>1. IdleWorker \in WorkerType
  BY DEF IdleWorker, WorkerType, Claims, Statuses
<1>2. r.batch \in SUBSET Claims BY DEF WorkerType
<1>3. [IdleWorker EXCEPT !.pc = "next", !.batch = r.batch] \in WorkerType
  BY <1>1, <1>2, WorkerRecords DEF WorkerPCs
<1> QED BY <1>1, <1>3 DEF AfterClaim, IdleWorker

\* A verdict over statuses is a status of the event.
LEMMA EventStatuses ==
  ASSUME NEW s
  PROVE  EventStatus(s) \in {"SENT", "FAILED", "PENDING"}
BY DEF EventStatus

\* The initial state.
LEMMA OutboxInit == Init => OutboxInv
<1> SUFFICES ASSUME Init PROVE OutboxInv OBVIOUS
<1> USE DEF Init
<1>1. OutboxTypeOK
  <2>1. IdleWorker \in WorkerType
    BY DEF IdleWorker, WorkerType, Claims, Statuses
  <2>2. NoJob \in JobType
    BY OutboxAssumption DEF NoJob, JobType, Statuses
  <2> QED BY <2>1, <2>2 DEF OutboxTypeOK, JobType
<1>2. ClaimInv /\ LockInv /\ BeliefInv
  BY DEF ClaimInv, LockInv, BeliefInv, IdleWorker, Settling
<1>3. EventInv /\ EventAgreesWithJobs /\ DeadOnlyWhenSpent
  BY DEF EventInv, EventAgreesWithJobs, DeadOnlyWhenSpent, NoJob, IdleWorker
<1> QED BY <1>1, <1>2, <1>3 DEF OutboxInv

-----------------------------------------------------------------------------
(***************************************************************************)
(* Types.                                                                  *)
(***************************************************************************)

\* A claim keeps the types.
LEMMA ClaimType ==
  ASSUME OutboxTypeOK, NEW w \in Workers, Claim(w)
  PROVE  OutboxTypeOK'
<1> USE OutboxAssumption
<1>1. PICK S \in SUBSET {c \in Channels : Eligible(c)} :
        LET spent == {c \in S : Spent(c)} IN
         /\ job' = [c \in Channels |->
                      IF c \in spent
                        THEN [job[c] EXCEPT !.status = "DEAD",
                                            !.ripe = FALSE]
                      ELSE IF c \in S
                        THEN [status |-> "LEASED", ripe |-> FALSE,
                              attempts |-> job[c].attempts + 1]
                      ELSE job[c]]
         /\ event' = IF spent = {} THEN event ELSE EventStatus(Status(job'))
         /\ worker' = [worker EXCEPT
                         ![w].pc = IF S = spent THEN "idle" ELSE "next",
                         ![w].batch = {[channel |-> c,
                                        token |-> job[c].attempts + 1] :
                                          c \in S \ spent}]
  BY DEF Claim
<1>2. job \in [Channels -> JobType] BY DEF OutboxTypeOK, JobType
<1>3. \A c \in Channels \ {d \in Channels : Spent(d)} :
        job[c].attempts + 1 \in 1..MaxAttempts
  BY <1>2 DEF JobType, Spent
<1>4. job' \in [Channels -> JobType]
  <2>1. ASSUME NEW c \in Channels PROVE job'[c] \in JobType
    <3>1. CASE c \in {d \in S : Spent(d)}
      <4>1. job'[c] = [job[c] EXCEPT !.status = "DEAD", !.ripe = FALSE]
        BY <1>1, <3>1
      <4> QED BY <4>1, <1>2 DEF JobType, Statuses
    <3>2. CASE c \in S /\ ~Spent(c)
      <4>1. job'[c] = [status |-> "LEASED", ripe |-> FALSE,
                       attempts |-> job[c].attempts + 1]
        BY <1>1, <3>2
      <4> QED BY <4>1, <1>3, <3>2 DEF JobType, Statuses
    <3>3. CASE c \notin S
      BY <1>1, <1>2, <3>3
    <3> QED BY <3>1, <3>2, <3>3
  <2> QED BY <2>1, <1>1
<1>5. event' \in {"none", "PENDING", "SENT", "FAILED"}
  BY <1>1, EventStatuses DEF OutboxTypeOK
<1>6. worker' \in [Workers -> WorkerType]
  <2> DEFINE B == {[channel |-> c, token |-> job[c].attempts + 1] :
                     c \in S \ {d \in S : Spent(d)}}
  <2>1. B \in SUBSET Claims BY <1>3 DEF Claims
  <2>2. \E x \in {"idle", "next"} :
          worker' = [worker EXCEPT ![w].pc = x, ![w].batch = B]
    BY <1>1
  <2>3. worker \in [Workers -> WorkerType] BY DEF OutboxTypeOK
  <2> HIDE DEF B
  <2>4. PICK x \in WorkerPCs :
          worker' = [worker EXCEPT ![w] = [worker[w] EXCEPT !.pc = x, !.batch = B]]
    BY <2>2, <2>3 DEF WorkerPCs
  <2>5. [worker[w] EXCEPT !.pc = x, !.batch = B] \in WorkerType
    BY <2>1, <2>3, WorkerRecords
  <2> QED BY <2>3, <2>4, <2>5
<1> QED
  BY <1>4, <1>5, <1>6 DEF OutboxTypeOK, JobType, Claim, lockVars

\* A step of a worker keeps the types.
LEMMA WorkerStepType ==
  ASSUME OutboxTypeOK, ClaimInv, NEW w \in Workers, WorkerStep(w)
  PROVE  OutboxTypeOK'
<1> USE OutboxAssumption
<1>w. worker \in [Workers -> WorkerType] /\ worker[w] \in WorkerType
  BY DEF OutboxTypeOK
<1>p. {"send", "complete", "reconcile", "reading", "commit"} \subseteq WorkerPCs
  BY DEF WorkerPCs, Settling
<1>c. worker[w].pc \in {"send", "complete", "reconcile", "reading", "commit"} =>
        worker[w].claim.channel \in Channels
  BY DEF ClaimInv, Claims, Settling
<1>1. CASE Prepare(w)
  <2>1. PICK k \in worker[w].batch :
          worker' = [worker EXCEPT
                      ![w].pc = IF current THEN "send" ELSE "complete",
                      ![w].batch = @ \ {k},
                      ![w].claim = k,
                      ![w].accepted = FALSE,
                      ![w].changed = ~current]
    BY <1>1 DEF Prepare
  <2>2. k \in Claims /\ worker[w].batch \ {k} \in SUBSET Claims
    BY <1>w DEF WorkerType
  <2>3. PICK x \in {"send", "complete"}, b \in BOOLEAN :
          worker' = [worker EXCEPT ![w] =
                      [worker[w] EXCEPT !.pc = x,
                                        !.batch = worker[w].batch \ {k},
                                        !.claim = k,
                                        !.accepted = FALSE,
                                        !.changed = b]]
    BY <2>1, <1>w
  <2>4. worker' \in [Workers -> WorkerType]
    BY <1>w, <1>p, <2>2, <2>3, WorkerRecords
  <2> QED BY <1>1, <2>4 DEF OutboxTypeOK, Prepare, lockVars
<1>2. CASE Send(w)
  <2>1. PICK acc \in BOOLEAN :
          worker' = [worker EXCEPT ![w] = [worker[w] EXCEPT !.pc = "complete",
                                                            !.accepted = acc]]
    BY <1>2, <1>w DEF Send
  <2>2. worker' \in [Workers -> WorkerType]
    BY <1>w, <1>p, <2>1, WorkerRecords
  <2>3. received' \in SUBSET Channels
    BY <1>2, <1>c DEF Send, OutboxTypeOK
  <2> QED BY <1>2, <2>2, <2>3 DEF OutboxTypeOK, Send, lockVars
<1>3. CASE CompareToken(w)
  <2>1. \/ worker' = [worker EXCEPT ![w] = [worker[w] EXCEPT !.pc = "reconcile"]]
        \/ worker' = [worker EXCEPT ![w] = AfterClaim(worker[w])]
    BY <1>3, <1>w DEF CompareToken
  <2>2. worker' \in [Workers -> WorkerType]
    BY <1>w, <1>p, <2>1, WorkerRecords, DoneRecords
  <2>3. jobLock' \in [Channels -> Workers \cup {NoWorker}]
    BY <1>3 DEF CompareToken, OutboxTypeOK
  <2> QED BY <1>3, <2>2, <2>3 DEF OutboxTypeOK, CompareToken
<1>4. CASE LockEvent(w)
  <2>1. worker' = [worker EXCEPT ![w] = [worker[w] EXCEPT !.pc = "reading"]]
    BY <1>4, <1>w DEF LockEvent
  <2>2. worker' \in [Workers -> WorkerType]
    BY <1>w, <1>p, <2>1, WorkerRecords
  <2> QED BY <1>4, <2>2 DEF OutboxTypeOK, LockEvent
<1>5. CASE ReadStatuses(w)
  <2> DEFINE f == [Status(job) EXCEPT ![worker[w].claim.channel] = NewStatus(w)]
  <2>1. f \in [Channels -> Statuses]
    BY DEF Status, NewStatus, Statuses, OutboxTypeOK
  <2>2. worker' = [worker EXCEPT ![w] = [worker[w] EXCEPT !.pc = "commit",
                                                          !.seen = f]]
    BY <1>5, <1>w DEF ReadStatuses
  <2> HIDE DEF f
  <2>3. worker' \in [Workers -> WorkerType]
    BY <1>w, <1>p, <2>1, <2>2, WorkerRecords
  <2> QED BY <1>5, <2>3 DEF OutboxTypeOK, ReadStatuses, lockVars
<1>6. CASE Commit(w)
  <2> DEFINE c == worker[w].claim.channel
  <2>1. worker' \in [Workers -> WorkerType]
    BY <1>6, <1>w, DoneRecords DEF Commit
  <2>2. job' \in [Channels -> JobType]
    <3>1. job \in [Channels -> JobType] BY DEF OutboxTypeOK, JobType
    <3>2. job' = [job EXCEPT ![c] = [job[c] EXCEPT !.status = NewStatus(w),
                                                   !.ripe = FALSE]]
      BY <1>6, <3>1 DEF Commit
    <3>3. NewStatus(w) \in Statuses BY DEF NewStatus, Statuses
    <3>4. c \in Channels => [job[c] EXCEPT !.status = NewStatus(w),
                                            !.ripe = FALSE] \in JobType
      BY <3>1, <3>3 DEF JobType
    <3> QED BY <3>1, <3>2, <3>4
  <2>3. event' \in {"none", "PENDING", "SENT", "FAILED"}
    BY <1>6, EventStatuses DEF Commit
  <2>4. /\ jobLock' \in [Channels -> Workers \cup {NoWorker}]
        /\ eventLock' \in Workers \cup {NoWorker}
    BY <1>6 DEF Commit, OutboxTypeOK
  <2> QED BY <1>6, <2>1, <2>2, <2>3, <2>4 DEF OutboxTypeOK, Commit, JobType
<1> QED BY <1>1, <1>2, <1>3, <1>4, <1>5, <1>6 DEF WorkerStep

\* Every step keeps the types.
LEMMA OutboxTypeStep ==
  OutboxTypeOK /\ ClaimInv /\ [Next]_vars => OutboxTypeOK'
<1> SUFFICES ASSUME OutboxTypeOK, ClaimInv, [Next]_vars PROVE OutboxTypeOK'
  OBVIOUS
<1> USE OutboxAssumption
<1>1. ASSUME NEW S \in SUBSET Channels, RecordEvent(S) PROVE OutboxTypeOK'
  <2>1. job' \in [Channels -> JobType]
    BY <1>1 DEF RecordEvent, NoJob, JobType, Statuses
  <2> QED BY <1>1, <2>1 DEF OutboxTypeOK, RecordEvent, lockVars, JobType
<1>2. CASE UpdateConfig BY <1>2 DEF OutboxTypeOK, UpdateConfig, lockVars
<1>3. ASSUME NEW c \in Channels, TimePasses(c) PROVE OutboxTypeOK'
  BY <1>3 DEF OutboxTypeOK, TimePasses, lockVars
<1>4. ASSUME NEW w \in Workers, Claim(w) PROVE OutboxTypeOK'
  BY <1>4, ClaimType
<1>5. ASSUME NEW w \in Workers, WorkerStep(w) PROVE OutboxTypeOK'
  BY <1>5, WorkerStepType
<1>6. ASSUME NEW w \in Workers, Abandon(w) PROVE OutboxTypeOK'
  BY <1>6, DoneRecords DEF OutboxTypeOK, Abandon
<1>7. CASE UNCHANGED vars BY <1>7 DEF OutboxTypeOK, vars, lockVars
<1> QED BY <1>1, <1>2, <1>3, <1>4, <1>5, <1>6, <1>7 DEF Next

-----------------------------------------------------------------------------
(***************************************************************************)
(* The invariant is kept by every action.                                  *)
(***************************************************************************)

\* What OutboxInv says beyond the types.
Meaning ==
    /\ ClaimInv
    /\ LockInv
    /\ BeliefInv
    /\ EventInv
    /\ EventAgreesWithJobs
    /\ DeadOnlyWhenSpent

\* Statuses that differ only between PENDING and LEASED have one verdict.
LEMMA SameVerdict ==
  ASSUME NEW s, NEW t,
         \A c \in Channels : s[c] = t[c] \/ (s[c] \in Open /\ t[c] \in Open)
  PROVE  EventStatus(s) = EventStatus(t)
BY DEF EventStatus, Open

\* The event's row and jobs appear together.
LEMMA RecordEventInv ==
  ASSUME OutboxInv, NEW S \in SUBSET Channels, RecordEvent(S)
  PROVE  Meaning'
<1> USE DEF OutboxInv, RecordEvent, lockVars
<1>1. \A w \in Workers : worker'[w] = worker[w] /\ worker[w].pc = "idle"
  BY DEF EventInv
<1>2. \A c \in Channels : job'[c].status = IF c \in S THEN "PENDING" ELSE "none"
  BY DEF NoJob
<1>3. ClaimInv' /\ LockInv' /\ BeliefInv'
  BY <1>1 DEF ClaimInv, LockInv, BeliefInv, Settling
<1>4. EventInv' BY <1>2 DEF EventInv
<1>5. EventAgreesWithJobs' /\ DeadOnlyWhenSpent'
  BY <1>2 DEF EventAgreesWithJobs, DeadOnlyWhenSpent, EventStatus, Status
<1> QED BY <1>3, <1>4, <1>5 DEF Meaning

\* The clock and the configuration change nothing a worker relies on.
LEMMA EnvironmentInv ==
  ASSUME OutboxInv, UpdateConfig \/ \E c \in Channels : TimePasses(c)
  PROVE  Meaning'
<1>1. /\ UNCHANGED <<event, lockVars, worker, received>>
      /\ current' => current
  BY DEF UpdateConfig, TimePasses
<1>2. \A c \in Channels : job'[c].status = job[c].status
                       /\ job'[c].attempts = job[c].attempts
  BY DEF UpdateConfig, TimePasses, OutboxInv, OutboxTypeOK
<1>3. ClaimInv' BY <1>1 DEF OutboxInv, ClaimInv
<1>4. \A w \in Workers : worker[w].pc \in Settling => worker[w].claim.channel \in Channels
  BY DEF OutboxInv, ClaimInv, Claims
<1>5. LockInv'
  BY <1>1, <1>2, <1>4 DEF OutboxInv, LockInv, LeaseHeld, lockVars, Settling
<1>6. BeliefInv'
  BY <1>1, <1>2, <1>4 DEF OutboxInv, BeliefInv, NewStatus, Spent, Settling
<1>7. EventInv' /\ DeadOnlyWhenSpent'
  BY <1>1, <1>2 DEF OutboxInv, EventInv, DeadOnlyWhenSpent
<1>8. EventAgreesWithJobs'
  BY <1>1, <1>2 DEF OutboxInv, EventAgreesWithJobs, EventStatus, Status
<1> QED BY <1>3, <1>5, <1>6, <1>7, <1>8 DEF Meaning

\* A batch is claimed: the rows of settling workers are locked, so their
\* leases stay, and while one of them has read the others' statuses no job
\* can die.
LEMMA ClaimKeepsInv ==
  ASSUME OutboxInv, NEW w \in Workers, Claim(w)
  PROVE  Meaning'
<1>1. PICK S \in SUBSET {c \in Channels : Eligible(c)} :
        LET spent == {c \in S : Spent(c)} IN
         /\ S # {}
         /\ job' = [c \in Channels |->
                      IF c \in spent
                        THEN [job[c] EXCEPT !.status = "DEAD",
                                            !.ripe = FALSE]
                      ELSE IF c \in S
                        THEN [status |-> "LEASED", ripe |-> FALSE,
                              attempts |-> job[c].attempts + 1]
                      ELSE job[c]]
         /\ spent # {} => eventLock = NoWorker
         /\ event' = IF spent = {} THEN event ELSE EventStatus(Status(job'))
         /\ worker' = [worker EXCEPT
                         ![w].pc = IF S = spent THEN "idle" ELSE "next",
                         ![w].batch = {[channel |-> c,
                                        token |-> job[c].attempts + 1] :
                                          c \in S \ spent}]
  BY DEF Claim
<1>2. UNCHANGED <<jobLock, eventLock, current, received>>
  BY DEF Claim, lockVars
<1>3. worker \in [Workers -> WorkerType] BY DEF OutboxInv, OutboxTypeOK
<1>4. job \in [Channels -> JobType] BY DEF OutboxInv, OutboxTypeOK, JobType
<1>5. /\ \A v \in Workers \ {w} : worker'[v] = worker[v]
      /\ worker'[w].pc \in {"idle", "next"}
      /\ worker'[w].changed = worker[w].changed
  BY <1>1, <1>3 DEF WorkerType
<1>6. /\ \A c \in Channels \ S : job'[c] = job[c]
      /\ \A c \in S : c \in Channels /\ job[c].status \in Open
                       /\ jobLock[c] = NoWorker
      /\ \A c \in S : job'[c].status = IF Spent(c) THEN "DEAD" ELSE "LEASED"
      /\ \A c \in S : Spent(c) => job'[c].attempts = job[c].attempts
                                  /\ eventLock = NoWorker
  <2>1. ASSUME NEW c \in S, Spent(c)
        PROVE  job'[c] = [job[c] EXCEPT !.status = "DEAD", !.ripe = FALSE]
    BY <1>1, <2>1
  <2>2. \A c \in S : ~Spent(c) => job'[c].status = "LEASED"
    BY <1>1
  <2>3. \A c \in Channels \ S : job'[c] = job[c]
    BY <1>1
  <2>4. \A c \in S : c \in Channels /\ job[c].status \in Open
                     /\ jobLock[c] = NoWorker
    BY DEF Eligible, Open
  <2>5. ASSUME NEW c \in S, Spent(c)
        PROVE  /\ job'[c].status = "DEAD"
               /\ job'[c].attempts = job[c].attempts
               /\ eventLock = NoWorker
    <3>1. job[c] \in JobType BY <1>4, <2>4
    <3>2. eventLock = NoWorker BY <1>1, <2>5
    <3> QED BY <2>1, <2>5, <3>1, <3>2 DEF JobType
  <2> QED BY <2>2, <2>3, <2>4, <2>5
<1>7. ClaimInv'
  BY <1>5 DEF OutboxInv, ClaimInv, Settling
<1>8. LockInv'
  <2> SUFFICES ASSUME NEW v \in Workers
               PROVE /\ worker'[v].pc \in Settling =>
                          /\ jobLock'[worker'[v].claim.channel] = v
                          /\ LeaseHeld(v)'
                     /\ worker'[v].pc \in {"reading", "commit"} => eventLock' = v
    BY DEF LockInv
  <2>1. CASE v = w BY <1>5, <2>1 DEF Settling
  <2>2. CASE v # w
    <3>1. worker'[v] = worker[v] BY <1>5, <2>2
    <3>2. worker[v].pc \in Settling =>
            /\ worker[v].claim.channel \in Channels \ S
            /\ jobLock[worker[v].claim.channel] = v
            /\ LeaseHeld(v)
      BY <1>6, OutboxAssumption DEF OutboxInv, ClaimInv, LockInv, Claims
    <3>3. worker[v].pc \in {"reading", "commit"} => eventLock = v
      BY DEF OutboxInv, LockInv
    <3> QED BY <1>2, <1>6, <3>1, <3>2, <3>3 DEF LeaseHeld
  <2> QED BY <2>1, <2>2
<1>9. BeliefInv'
  <2> SUFFICES ASSUME NEW v \in Workers
               PROVE  /\ worker'[v].pc \in {"complete"} \cup Settling
                           /\ worker'[v].accepted =>
                             worker'[v].claim.channel \in received'
                      /\ worker'[v].changed => ~current'
                      /\ worker'[v].pc = "commit" =>
                           \A c \in Channels :
                             IF c = worker'[v].claim.channel
                               THEN worker'[v].seen[c] = NewStatus(v)'
                               ELSE \/ worker'[v].seen[c] = job'[c].status
                                    \/ worker'[v].seen[c] \in Open
                                         /\ job'[c].status \in Open
    BY DEF BeliefInv
  <2>1. CASE v = w BY <1>2, <1>5, <2>1 DEF OutboxInv, BeliefInv, Settling
  <2>2. CASE v # w
    <3>1. worker'[v] = worker[v] BY <1>5, <2>2
    <3>2. worker[v].pc = "commit" =>
            /\ worker[v].claim.channel \in Channels \ S
            /\ \A c \in S : ~Spent(c)
      BY <1>6, OutboxAssumption DEF OutboxInv, ClaimInv, LockInv, Claims, Settling
    <3>3. worker[v].pc = "commit" => NewStatus(v)' = NewStatus(v)
      BY <3>1, <3>2, <1>6 DEF NewStatus, Spent
    <3>4. worker[v].pc = "commit" =>
            \A c \in Channels : \/ job'[c].status = job[c].status
                                \/ job'[c].status \in Open /\ job[c].status \in Open
      BY <3>2, <1>6 DEF Open
    <3> QED BY <1>2, <3>1, <3>3, <3>4 DEF OutboxInv, BeliefInv
  <2> QED BY <2>1, <2>2
<1>10. event # "none" BY <1>1, <1>6 DEF OutboxInv, EventInv, Open
<1>11. event' # "none" BY <1>1, <1>10, EventStatuses
<1>12. event' = EventStatus(Status(job'))
  <2>1. CASE \E c \in S : Spent(c) BY <1>1, <2>1
  <2>2. CASE \A c \in S : ~Spent(c)
    <3>1. event' = EventStatus(Status(job))
      BY <1>1, <1>6, <1>10, <2>2 DEF OutboxInv, EventAgreesWithJobs, Open
    <3>2. \A c \in Channels : \/ Status(job)[c] = Status(job')[c]
                              \/ Status(job)[c] \in Open /\ Status(job')[c] \in Open
      BY <1>6, <2>2 DEF Status, Open
    <3>3. EventStatus(Status(job)) = EventStatus(Status(job'))
      BY <3>2, SameVerdict
    <3> QED BY <3>1, <3>3
  <2> QED BY <2>1, <2>2
<1>13. EventInv' /\ EventAgreesWithJobs'
  <2>1. \E c \in Channels : job'[c].status # "none"
    <3>1. PICK c \in S : TRUE BY <1>1
    <3> QED BY <1>6, <3>1
  <2> QED BY <1>11, <1>12, <2>1 DEF EventInv, EventAgreesWithJobs
<1>14. DeadOnlyWhenSpent'
  <2> SUFFICES ASSUME NEW c \in Channels, job'[c].status = "DEAD"
               PROVE  job'[c].attempts = MaxAttempts \/ ~current'
    BY DEF DeadOnlyWhenSpent
  <2>1. CASE c \in S
    <3>1. Spent(c) /\ job'[c].attempts = job[c].attempts BY <1>6, <2>1
    <3>2. job[c].attempts \in 0..MaxAttempts BY <1>4 DEF JobType
    <3> QED BY <3>1, <3>2, OutboxAssumption DEF Spent
  <2>2. CASE c \notin S
    BY <1>2, <1>6, <2>2 DEF OutboxInv, DeadOnlyWhenSpent
  <2> QED BY <2>1, <2>2
<1> QED BY <1>7, <1>8, <1>9, <1>13, <1>14 DEF Meaning

\* The workers after w has taken up claim k.
Prepared(w, k) ==
    [worker EXCEPT ![w].pc = IF current THEN "send" ELSE "complete",
                   ![w].batch = @ \ {k},
                   ![w].claim = k,
                   ![w].accepted = FALSE,
                   ![w].changed = ~current]

\* Taking up a claim, and sending.
LEMMA PrepareSendInv ==
  ASSUME OutboxInv, NEW w \in Workers, Prepare(w) \/ Send(w)
  PROVE  Meaning'
<1>1. UNCHANGED <<event, job, jobLock, eventLock, current>>
  BY DEF Prepare, Send, lockVars
<1>2. worker \in [Workers -> WorkerType] BY DEF OutboxInv, OutboxTypeOK
<1>3. /\ \A v \in Workers \ {w} : worker'[v] = worker[v]
      /\ worker'[w].pc \in {"send", "complete"}
  <2>1. ASSUME Prepare(w) PROVE <1>3!1 /\ <1>3!2
    <3>1. PICK k \in worker[w].batch : worker' = Prepared(w, k)
      BY <2>1 DEF Prepare, Prepared
    <3> QED BY <1>2, <3>1 DEF Prepared, WorkerType
  <2>2. ASSUME Send(w) PROVE <1>3!1 /\ <1>3!2
    BY <1>2, <2>2 DEF Send, WorkerType
  <2> QED BY <2>1, <2>2
<1>4. received \subseteq received' BY DEF Prepare, Send
<1>5. /\ worker'[w].claim \in Claims
      /\ worker'[w].changed => ~current
      /\ worker'[w].accepted /\ worker'[w].pc = "complete" =>
           worker'[w].claim.channel \in received'
  <2>1. CASE Prepare(w)
    <3>1. PICK k \in worker[w].batch : worker' = Prepared(w, k)
      BY <2>1 DEF Prepare, Prepared
    <3>2. /\ worker'[w].claim = k
          /\ worker'[w].changed = ~current
          /\ worker'[w].accepted = FALSE
      BY <1>2, <3>1 DEF Prepared, WorkerType
    <3>3. k \in Claims BY <1>2 DEF WorkerType
    <3> QED BY <3>2, <3>3
  <2>2. CASE Send(w)
    <3>1. PICK arrives \in BOOLEAN, acc \in BOOLEAN :
            /\ acc => arrives
            /\ received' = IF arrives
                             THEN received \cup {worker[w].claim.channel}
                             ELSE received
            /\ worker' = [worker EXCEPT ![w].pc = "complete",
                                        ![w].accepted = acc]
      BY <2>2 DEF Send
    <3>2. /\ worker'[w].claim = worker[w].claim
          /\ worker'[w].changed = worker[w].changed
          /\ worker'[w].accepted = acc
      BY <1>2, <3>1 DEF WorkerType
    <3>3. worker[w].claim \in Claims
      BY <2>2 DEF Send, OutboxInv, ClaimInv
    <3> QED BY <3>1, <3>2, <3>3 DEF OutboxInv, BeliefInv
  <2> QED BY <2>1, <2>2
<1>6. ClaimInv' BY <1>3, <1>5 DEF OutboxInv, ClaimInv
<1>7. LockInv'
  BY <1>1, <1>3 DEF OutboxInv, LockInv, LeaseHeld, Settling
<1>8. BeliefInv'
  BY <1>1, <1>3, <1>4, <1>5 DEF OutboxInv, BeliefInv, NewStatus, Spent, Settling
<1>9. event # "none"
  BY DEF Prepare, Send, OutboxInv, EventInv
<1>10. EventInv' /\ EventAgreesWithJobs' /\ DeadOnlyWhenSpent'
  BY <1>1, <1>9 DEF OutboxInv, EventInv, EventAgreesWithJobs, DeadOnlyWhenSpent
<1> QED BY <1>6, <1>7, <1>8, <1>10 DEF Meaning

\* The row of the job, or nothing at all.
LEMMA CompareTokenInv ==
  ASSUME OutboxInv, NEW w \in Workers, CompareToken(w)
  PROVE  Meaning'
<1> DEFINE c == worker[w].claim.channel
<1>1. UNCHANGED <<event, job, eventLock, current, received>>
  BY DEF CompareToken
<1>2. worker \in [Workers -> WorkerType] BY DEF OutboxInv, OutboxTypeOK
<1>3. worker[w].claim \in Claims /\ c \in Channels
  BY DEF CompareToken, OutboxInv, ClaimInv, Claims
<1>4. jobLock[c] = NoWorker BY DEF CompareToken
<1>5. \A v \in Workers \ {w} : worker'[v] = worker[v]
  BY <1>2 DEF CompareToken
<1>6. \A d \in Channels \ {c} : jobLock'[d] = jobLock[d]
  BY DEF CompareToken, OutboxInv, OutboxTypeOK
<1>7. \/ /\ LeaseHeld(w)
         /\ jobLock'[c] = w
         /\ worker'[w].pc = "reconcile"
         /\ worker'[w].claim = worker[w].claim
         /\ worker'[w].accepted = worker[w].accepted
         /\ worker'[w].changed = worker[w].changed
      \/ /\ jobLock' = jobLock
         /\ worker'[w].pc \in {"idle", "next"}
         /\ worker'[w].changed = FALSE
  <2>1. CASE LeaseHeld(w)
    BY <1>2, <1>3, <2>1 DEF CompareToken, WorkerType, OutboxInv, OutboxTypeOK
  <2>2. CASE ~LeaseHeld(w)
    BY <1>2, <2>2, DoneRecords DEF CompareToken
  <2> QED BY <2>1, <2>2
<1>8. \A v \in Workers \ {w} : worker[v].pc \in Settling =>
        worker[v].claim.channel \in Channels \ {c}
  BY <1>4, OutboxAssumption DEF OutboxInv, LockInv, ClaimInv, Claims
<1>9. ClaimInv' BY <1>3, <1>5, <1>7 DEF OutboxInv, ClaimInv, Settling
<1>10. LockInv'
  <2>1. ASSUME NEW v \in Workers \ {w}
        PROVE  /\ worker'[v].pc \in Settling =>
                    jobLock'[worker'[v].claim.channel] = v /\ LeaseHeld(v)'
               /\ worker'[v].pc \in {"reading", "commit"} => eventLock' = v
    BY <1>1, <1>5, <1>6, <1>8 DEF OutboxInv, LockInv, LeaseHeld
  <2>2. /\ worker'[w].pc \in Settling =>
             jobLock'[worker'[w].claim.channel] = w /\ LeaseHeld(w)'
        /\ worker'[w].pc \notin {"reading", "commit"}
    BY <1>1, <1>7 DEF LeaseHeld, Settling
  <2> QED BY <2>1, <2>2 DEF LockInv
<1>11. BeliefInv'
  <2>1. worker[w].pc = "complete" BY DEF CompareToken
  <2>2. /\ worker'[w].pc \in {"complete"} \cup Settling /\ worker'[w].accepted =>
             worker'[w].claim.channel \in received
        /\ worker'[w].changed => ~current
        /\ worker'[w].pc # "commit"
    BY <1>7, <2>1 DEF OutboxInv, BeliefInv, Settling
  <2> QED BY <1>1, <1>5, <2>2 DEF OutboxInv, BeliefInv, NewStatus, Spent
<1>12. event # "none"
  BY DEF CompareToken, OutboxInv, EventInv
<1>13. EventInv' /\ EventAgreesWithJobs' /\ DeadOnlyWhenSpent'
  BY <1>1, <1>12 DEF OutboxInv, EventInv, EventAgreesWithJobs, DeadOnlyWhenSpent
<1> QED BY <1>9, <1>10, <1>11, <1>13 DEF Meaning

\* The event's row, and the statuses of its jobs.
LEMMA ReconcileInv ==
  ASSUME OutboxInv, NEW w \in Workers, LockEvent(w) \/ ReadStatuses(w)
  PROVE  Meaning'
<1> DEFINE c == worker[w].claim.channel
<1>1. UNCHANGED <<event, job, jobLock, current, received>>
  BY DEF LockEvent, ReadStatuses, lockVars
<1>2. worker \in [Workers -> WorkerType] BY DEF OutboxInv, OutboxTypeOK
<1>3. worker[w].pc \in Settling BY DEF LockEvent, ReadStatuses, Settling
<1>4. /\ worker[w].claim \in Claims
      /\ jobLock[c] = w
      /\ LeaseHeld(w)
  BY <1>3 DEF OutboxInv, ClaimInv, LockInv
<1>5. /\ \A v \in Workers \ {w} : worker'[v] = worker[v]
      /\ worker'[w].pc \in {"reading", "commit"}
      /\ worker'[w].claim = worker[w].claim
      /\ worker'[w].accepted = worker[w].accepted
      /\ worker'[w].changed = worker[w].changed
      /\ worker'[w].pc = "commit" =>
           worker'[w].seen = [Status(job) EXCEPT ![c] = NewStatus(w)]
  BY <1>2 DEF LockEvent, ReadStatuses, WorkerType
<1>6. eventLock' = w /\ eventLock \in {w, NoWorker}
  BY DEF LockEvent, ReadStatuses, lockVars, OutboxInv, LockInv
<1>7. ClaimInv' BY <1>4, <1>5 DEF OutboxInv, ClaimInv
<1>8. LockInv'
  BY <1>1, <1>4, <1>5, <1>6, OutboxAssumption DEF OutboxInv, LockInv, LeaseHeld
<1>9. NewStatus(w)' = NewStatus(w) BY <1>1, <1>5 DEF NewStatus, Spent
<1>10. BeliefInv'
  <2>1. /\ worker'[w].accepted => worker'[w].claim.channel \in received
        /\ worker'[w].changed => ~current
    BY <1>3, <1>5 DEF OutboxInv, BeliefInv
  <2>2. ASSUME worker'[w].pc = "commit", NEW d \in Channels
        PROVE  worker'[w].seen[d] = IF d = c THEN NewStatus(w)
                                             ELSE job[d].status
    BY <1>5, <2>2 DEF Status
  <2> QED BY <1>1, <1>5, <1>9, <2>1, <2>2 DEF OutboxInv, BeliefInv, NewStatus, Spent
<1>11. event # "none"
  BY <1>3 DEF Settling, OutboxInv, EventInv
<1>12. EventInv' /\ EventAgreesWithJobs' /\ DeadOnlyWhenSpent'
  BY <1>1, <1>11 DEF OutboxInv, EventInv, EventAgreesWithJobs, DeadOnlyWhenSpent
<1> QED BY <1>7, <1>8, <1>10, <1>12 DEF Meaning

\* A job is settled, and its event with it: what the worker has read of the
\* other jobs still has the verdict of what is committed.
LEMMA CommitInv ==
  ASSUME OutboxInv, NEW w \in Workers, Commit(w)
  PROVE  /\ Meaning'
         /\ event' = EventStatus(Status(job'))
<1> DEFINE c == worker[w].claim.channel
<1>1. UNCHANGED <<current, received>> /\ worker[w].pc = "commit"
  BY DEF Commit
<1>2. worker \in [Workers -> WorkerType] BY DEF OutboxInv, OutboxTypeOK
<1>3. job \in [Channels -> JobType] BY DEF OutboxInv, OutboxTypeOK, JobType
<1>4. /\ c \in Channels
      /\ jobLock[c] = w
      /\ eventLock = w
      /\ job[c].status = "LEASED"
  BY <1>1 DEF OutboxInv, ClaimInv, LockInv, LeaseHeld, Claims, Settling
<1>5. /\ \A v \in Workers \ {w} : worker'[v] = worker[v]
      /\ worker'[w].pc \in {"idle", "next"}
      /\ worker'[w].changed = FALSE
  BY <1>2, DoneRecords DEF Commit
<1>6. /\ \A d \in Channels \ {c} : job'[d] = job[d] /\ jobLock'[d] = jobLock[d]
      /\ job'[c].status = NewStatus(w)
      /\ job'[c].attempts = job[c].attempts
  BY <1>3, <1>4 DEF Commit, JobType, OutboxInv, OutboxTypeOK
<1>7. \A v \in Workers \ {w} :
        /\ worker[v].pc \in Settling => worker[v].claim.channel \in Channels \ {c}
        /\ worker[v].pc \notin {"reading", "commit"}
  BY <1>4 DEF OutboxInv, LockInv, ClaimInv, Claims
<1>8. ClaimInv' BY <1>5 DEF OutboxInv, ClaimInv, Settling
<1>9. LockInv'
  <2>1. ASSUME NEW v \in Workers \ {w}
        PROVE  /\ worker'[v].pc \in Settling =>
                    jobLock'[worker'[v].claim.channel] = v /\ LeaseHeld(v)'
               /\ worker'[v].pc \notin {"reading", "commit"}
    BY <1>5, <1>6, <1>7 DEF OutboxInv, LockInv, LeaseHeld
  <2> QED BY <1>5, <2>1 DEF LockInv, Settling
<1>10. BeliefInv'
  BY <1>1, <1>5, <1>7 DEF OutboxInv, BeliefInv, Settling
<1>11. event' = EventStatus(Status(job'))
  <2>1. event' = EventStatus(worker[w].seen) BY DEF Commit
  <2>2. \A d \in Channels :
          \/ worker[w].seen[d] = Status(job')[d]
          \/ worker[w].seen[d] \in Open /\ Status(job')[d] \in Open
    BY <1>1, <1>6 DEF OutboxInv, BeliefInv, Status
  <2> QED BY <2>1, <2>2, SameVerdict
<1>12. event' # "none" BY <1>11, EventStatuses
<1>13. job'[c].status \in {"SENT", "DEAD", "PENDING"} BY <1>6 DEF NewStatus
<1>14. EventInv' /\ EventAgreesWithJobs'
  BY <1>4, <1>11, <1>12, <1>13 DEF EventInv, EventAgreesWithJobs
<1>15. DeadOnlyWhenSpent'
  <2>1. ASSUME NewStatus(w) = "DEAD"
        PROVE  job[c].attempts = MaxAttempts \/ ~current
    <3>1. worker[w].changed \/ Spent(c) BY <2>1 DEF NewStatus
    <3>2. worker[w].changed => ~current BY DEF OutboxInv, BeliefInv
    <3>3. job[c].attempts \in 0..MaxAttempts BY <1>3, <1>4 DEF JobType
    <3> QED BY <3>1, <3>2, <3>3, OutboxAssumption DEF Spent
  <2> QED BY <1>1, <1>6, <2>1 DEF OutboxInv, DeadOnlyWhenSpent
<1> QED BY <1>8, <1>9, <1>10, <1>11, <1>14, <1>15 DEF Meaning

\* A crash frees the rows of the worker and of nobody else.
LEMMA AbandonInv ==
  ASSUME OutboxInv, NEW w \in Workers, Abandon(w)
  PROVE  Meaning'
<1>1. UNCHANGED <<event, job, current, received>> /\ worker[w].pc # "idle"
  BY DEF Abandon
<1>2. /\ \A v \in Workers \ {w} : worker'[v] = worker[v]
      /\ worker'[w].pc = "idle"
      /\ worker'[w].changed = FALSE
  BY DEF Abandon, IdleWorker, OutboxInv, OutboxTypeOK
<1>3. \A v \in Workers \ {w} :
        /\ \A c \in Channels : jobLock[c] = v => jobLock'[c] = v
        /\ eventLock = v => eventLock' = v
  BY DEF Abandon
<1>4. \A v \in Workers : worker[v].pc \in Settling => worker[v].claim.channel \in Channels
  BY DEF OutboxInv, ClaimInv, Claims
<1>5. ClaimInv' BY <1>2 DEF OutboxInv, ClaimInv, Settling
<1>6. LockInv'
  BY <1>1, <1>2, <1>3, <1>4 DEF OutboxInv, LockInv, LeaseHeld, Settling
<1>7. BeliefInv'
  BY <1>1, <1>2 DEF OutboxInv, BeliefInv, NewStatus, Spent, Settling
<1>8. event # "none" BY <1>1 DEF OutboxInv, EventInv
<1>9. EventInv' /\ EventAgreesWithJobs' /\ DeadOnlyWhenSpent'
  BY <1>1, <1>8 DEF OutboxInv, EventInv, EventAgreesWithJobs, DeadOnlyWhenSpent
<1> QED BY <1>5, <1>6, <1>7, <1>9 DEF Meaning

\* OutboxInv is inductive.
LEMMA OutboxStep == OutboxInv /\ [Next]_vars => OutboxInv'
<1> SUFFICES ASSUME OutboxInv, [Next]_vars PROVE OutboxInv'
  OBVIOUS
<1>1. OutboxTypeOK' BY OutboxTypeStep DEF OutboxInv
<1> SUFFICES Meaning'
  BY <1>1 DEF Meaning, OutboxInv
<1>2. ASSUME NEW S \in SUBSET Channels, RecordEvent(S) PROVE Meaning'
  BY <1>2, RecordEventInv
<1>3. CASE UpdateConfig \/ \E c \in Channels : TimePasses(c)
  BY <1>3, EnvironmentInv
<1>4. ASSUME NEW w \in Workers, Claim(w) PROVE Meaning'
  BY <1>4, ClaimKeepsInv
<1>5. ASSUME NEW w \in Workers, WorkerStep(w) PROVE Meaning'
  BY <1>5, PrepareSendInv, CompareTokenInv, ReconcileInv, CommitInv DEF WorkerStep
<1>6. ASSUME NEW w \in Workers, Abandon(w) PROVE Meaning'
  BY <1>6, AbandonInv
<1>7. CASE UNCHANGED vars
  <2> USE <1>7 DEF vars, lockVars, OutboxInv
  <2>1. ClaimInv' BY DEF ClaimInv
  <2>2. LockInv' BY DEF LockInv, LeaseHeld
  <2>3. BeliefInv' BY DEF BeliefInv, NewStatus, Spent
  <2>4. EventInv' /\ EventAgreesWithJobs' /\ DeadOnlyWhenSpent'
    BY DEF EventInv, EventAgreesWithJobs, DeadOnlyWhenSpent
  <2> QED BY <2>1, <2>2, <2>3, <2>4 DEF Meaning
<1> QED BY <1>2, <1>3, <1>4, <1>5, <1>6, <1>7 DEF Next

-----------------------------------------------------------------------------
(***************************************************************************)
(* Theorems.                                                               *)
(***************************************************************************)

\* The inductive invariant holds in every reachable state of the outbox.
THEOREM OutboxInvariant == Spec => []OutboxInv
BY OutboxInit, OutboxStep, PTL DEF Spec

\* Every variable keeps its type, and attempt_count stays within MAX_ATTEMPTS
\* (claim_delivery_jobs).
THEOREM OutboxTypeCorrect == Spec => []OutboxTypeOK
<1>1. OutboxInv => OutboxTypeOK BY DEF OutboxInv
<1> QED BY <1>1, OutboxInvariant, PTL

\* The event's status is the verdict over its jobs' committed statuses in
\* every state, for any number of concurrent workers (_reconcile_event).
THEOREM EventAgrees == Spec => []EventAgreesWithJobs
<1>1. OutboxInv => EventAgreesWithJobs BY DEF OutboxInv
<1> QED BY <1>1, OutboxInvariant, PTL

\* A job is given up only after a change of the configuration or after
\* MAX_ATTEMPTS claims (complete_delivery_job, claim_delivery_jobs).
THEOREM DeadWhenSpent == Spec => []DeadOnlyWhenSpent
<1>1. OutboxInv => DeadOnlyWhenSpent BY DEF OutboxInv
<1> QED BY <1>1, OutboxInvariant, PTL

\* A lease ends only by the worker that holds it or by its expiry: the token
\* comparison keeps every worker whose lease is gone from settling the job.
THEOREM StaleWorkersHarmless == Spec => StaleWorkersCannotUpdate
<1> DEFINE Ends(c) ==
      job[c].status = "LEASED" /\ job'[c].status # "LEASED" =>
        \/ job[c].ripe /\ job[c].attempts = MaxAttempts
        \/ \E w \in Workers :
             /\ worker[w].pc = "commit"
             /\ worker[w].claim = [channel |-> c, token |-> job[c].attempts]
<1>1. OutboxInv /\ [Next]_vars => [\A c \in Channels : Ends(c)]_vars
  <2> SUFFICES ASSUME OutboxInv, Next, NEW c \in Channels,
                      job[c].status = "LEASED", job'[c].status # "LEASED"
               PROVE  Ends(c)
    OBVIOUS
  <2>1. ASSUME NEW w \in Workers, Claim(w) PROVE Ends(c)
    <3>1. PICK S \in SUBSET {d \in Channels : Eligible(d)} :
            job' = [d \in Channels |->
                      IF d \in {e \in S : Spent(e)}
                        THEN [job[d] EXCEPT !.status = "DEAD", !.ripe = FALSE]
                      ELSE IF d \in S
                        THEN [status |-> "LEASED", ripe |-> FALSE,
                              attempts |-> job[d].attempts + 1]
                      ELSE job[d]]
      BY <2>1 DEF Claim
    <3>2. c \in S /\ Spent(c) BY <3>1
    <3>3. job[c].attempts \in 0..MaxAttempts BY DEF OutboxInv, OutboxTypeOK
    <3> QED BY <3>2, <3>3, OutboxAssumption DEF Eligible, Spent
  <2>2. ASSUME NEW w \in Workers, Commit(w) PROVE Ends(c)
    <3>1. worker[w].pc = "commit" /\ worker[w].claim \in Claims /\ LeaseHeld(w)
      BY <2>2 DEF Commit, OutboxInv, ClaimInv, LockInv, Settling
    <3>2. c = worker[w].claim.channel
      BY <2>2 DEF Commit, OutboxInv, OutboxTypeOK
    <3>3. worker[w].claim = [channel |-> c, token |-> job[c].attempts]
      BY <3>1, <3>2 DEF LeaseHeld, Claims
    <3> QED BY <3>1, <3>3
  <2>3. ASSUME NEW S \in SUBSET Channels, RecordEvent(S) PROVE FALSE
    BY <2>3 DEF RecordEvent, OutboxInv, EventInv
  <2>4. ASSUME NEW d \in Channels, TimePasses(d) PROVE FALSE
    BY <2>4 DEF TimePasses, OutboxInv, OutboxTypeOK
  <2>5. job' # job OBVIOUS
  <2> QED BY <2>1, <2>2, <2>3, <2>4, <2>5
          DEF Next, WorkerStep, UpdateConfig, Prepare, Send, CompareToken,
              LockEvent, ReadStatuses, Abandon
<1> QED BY <1>1, OutboxInvariant, PTL DEF Spec, StaleWorkersCannotUpdate

-----------------------------------------------------------------------------
(***************************************************************************)
(* The outbox implements NotificationDelivery.                             *)
(***************************************************************************)

\* The outcomes of jobs j, and of the jobs in the table.
OutcomeOf(j) ==
    [c \in Channels |-> IF j[c].status \in Open THEN "OPEN" ELSE j[c].status]

\* The refinement mapping reads the jobs in the table.
LEMMA OutcomeIsOf == Outcome = OutcomeOf(job) /\ Outcome' = OutcomeOf(job')
BY DEF Outcome, OutcomeOf, Open

\* The outcomes of well-typed jobs.
LEMMA OutcomeTypes ==
  ASSUME NEW j \in [Channels -> JobType]
  PROVE  OutcomeOf(j) \in [Channels -> Delivery!Outcomes]
BY DEF OutcomeOf, JobType, Statuses, Open, Delivery!Outcomes

\* The event's status, as the code reconciles it, is the promised verdict.
LEMMA VerdictOfJobs ==
  ASSUME NEW j \in [Channels -> JobType], NEW e,
         (\E c \in Channels : j[c].status # "none") => e = EventStatus(Status(j)),
         (\A c \in Channels : j[c].status = "none") => e = "FAILED"
  PROVE  e = Delivery!Verdict(OutcomeOf(j))
<1>1. \A c \in Channels :
        /\ OutcomeOf(j)[c] = "none" <=> j[c].status = "none"
        /\ OutcomeOf(j)[c] = "SENT" <=> j[c].status = "SENT"
        /\ OutcomeOf(j)[c] = "DEAD" <=> j[c].status = "DEAD"
  BY DEF OutcomeOf, Open
<1>2. \A c \in Channels : Status(j)[c] = j[c].status BY DEF Status
<1>3. CASE \A c \in Channels : j[c].status = "none"
  BY <1>1, <1>3 DEF Delivery!Verdict
<1>4. CASE \E c \in Channels : j[c].status # "none"
  BY <1>1, <1>2, <1>4 DEF Delivery!Verdict, EventStatus
<1> QED BY <1>3, <1>4

\* A step that only settles open jobs, SENT after their receipt, is a Settle
\* step of the abstract specification.
LEMMA SettleStep ==
  ASSUME OutboxInv, OutboxInv', event # "none", event' # "none",
         received' = received,
         \A c \in Channels :
           \/ OutcomeOf(job')[c] = OutcomeOf(job)[c]
           \/ job[c].status \in Open /\ job'[c].status = "DEAD"
           \/ job[c].status \in Open /\ job'[c].status = "SENT" /\ c \in received
  PROVE  Delivery!Next
<1> DEFINE o == OutcomeOf(job')
<1>1. job' \in [Channels -> JobType] BY DEF OutboxInv, OutboxTypeOK, JobType
<1>2. o \in [Channels -> Delivery!Outcomes] BY <1>1, OutcomeTypes
<1>3. event' = Delivery!Verdict(o)
  BY <1>1, VerdictOfJobs DEF OutboxInv, EventInv, EventAgreesWithJobs
<1>4. \A c \in Channels :
        \/ o[c] = Outcome[c]
        \/ Outcome[c] = "OPEN" /\ o[c] = "DEAD"
        \/ Outcome[c] = "OPEN" /\ o[c] = "SENT" /\ c \in received
  BY OutcomeIsOf DEF OutcomeOf, Open
<1>5. Outcome' = o BY OutcomeIsOf
<1>6. Delivery!Settle(o)
  BY <1>3, <1>4, <1>5 DEF Delivery!Settle
<1> QED BY <1>2, <1>6 DEF Delivery!Next

\* Claiming a batch settles the jobs that had no attempt left.
LEMMA ClaimDelivers ==
  ASSUME OutboxInv, OutboxInv', NEW w \in Workers, Claim(w)
  PROVE  Delivery!Next
<1>1. PICK S \in SUBSET {c \in Channels : Eligible(c)} :
        /\ S # {}
        /\ job' = [c \in Channels |->
                     IF c \in {d \in S : Spent(d)}
                       THEN [job[c] EXCEPT !.status = "DEAD", !.ripe = FALSE]
                     ELSE IF c \in S
                       THEN [status |-> "LEASED", ripe |-> FALSE,
                             attempts |-> job[c].attempts + 1]
                     ELSE job[c]]
  BY DEF Claim
<1>2. job \in [Channels -> JobType] BY DEF OutboxInv, OutboxTypeOK, JobType
<1>3. \A c \in S : c \in Channels /\ job[c].status \in Open
  BY DEF Eligible, Open
<1>4. ASSUME NEW c \in Channels
      PROVE  \/ job'[c].status = job[c].status
             \/ job[c].status \in Open /\ job'[c].status \in {"LEASED", "DEAD"}
  <2>1. CASE c \in S /\ Spent(c)
    <3>1. job'[c] = [job[c] EXCEPT !.status = "DEAD", !.ripe = FALSE]
      BY <1>1, <2>1
    <3>2. job'[c].status = "DEAD" BY <1>2, <3>1 DEF JobType
    <3> QED BY <1>3, <2>1, <3>2
  <2>2. CASE c \in S /\ ~Spent(c) BY <1>1, <1>3, <2>2
  <2>3. CASE c \notin S BY <1>1, <2>3
  <2> QED BY <2>1, <2>2, <2>3
<1>5. event # "none" BY <1>1, <1>3 DEF OutboxInv, EventInv, Open
<1>6. event' # "none"
  BY <1>5, EventStatuses DEF Claim
<1>7. received' = received BY DEF Claim
<1>8. \A c \in Channels :
        \/ OutcomeOf(job')[c] = OutcomeOf(job)[c]
        \/ job[c].status \in Open /\ job'[c].status = "DEAD"
  BY <1>4 DEF OutcomeOf, Open
<1> QED BY <1>5, <1>6, <1>7, <1>8, SettleStep

\* Committing a claim settles its job, or leaves it open for a retry.
LEMMA CommitDelivers ==
  ASSUME OutboxInv, OutboxInv', NEW w \in Workers, Commit(w)
  PROVE  Delivery!Next
<1> DEFINE c == worker[w].claim.channel
<1>1. worker[w].pc = "commit" /\ received' = received BY DEF Commit
<1>2. /\ c \in Channels
      /\ job[c].status = "LEASED"
      /\ worker[w].accepted => c \in received
  BY <1>1 DEF OutboxInv, ClaimInv, LockInv, LeaseHeld, BeliefInv, Claims, Settling
<1>3. /\ \A d \in Channels \ {c} : job'[d] = job[d]
      /\ job'[c].status = NewStatus(w)
  BY <1>2 DEF Commit, OutboxInv, OutboxTypeOK
<1>4. \/ NewStatus(w) = "SENT" /\ c \in received
      \/ NewStatus(w) \in {"DEAD", "PENDING"}
  BY <1>2 DEF NewStatus
<1>5. \A d \in Channels :
        \/ OutcomeOf(job')[d] = OutcomeOf(job)[d]
        \/ job[d].status \in Open /\ job'[d].status = "DEAD"
        \/ job[d].status \in Open /\ job'[d].status = "SENT" /\ d \in received
  BY <1>2, <1>3, <1>4 DEF OutcomeOf, Open
<1>6. event # "none" BY <1>1 DEF OutboxInv, EventInv
<1>7. event' # "none" BY EventStatuses DEF Commit
<1> QED BY <1>1, <1>5, <1>6, <1>7, SettleStep

\* Every step of the outbox is a step of NotificationDelivery or leaves its
\* variables alone.
LEMMA DeliveryStep ==
  OutboxInv /\ OutboxInv' /\ [Next]_vars => [Delivery!Next]_(Delivery!vars)
<1> SUFFICES ASSUME OutboxInv, OutboxInv', [Next]_vars
             PROVE  Delivery!Next \/ UNCHANGED <<Outcome, received, event>>
  BY DEF Delivery!vars
<1>1. ASSUME NEW S \in SUBSET Channels, RecordEvent(S) PROVE Delivery!Next
  <2>1. job' \in [Channels -> JobType] BY DEF OutboxInv, OutboxTypeOK, JobType
  <2>2. event' # "none" BY <1>1 DEF RecordEvent
  <2>3. event' = Delivery!Verdict(OutcomeOf(job'))
    BY <2>1, <2>2, VerdictOfJobs DEF OutboxInv, EventInv, EventAgreesWithJobs
  <2>4. OutcomeOf(job') = [c \in Channels |-> IF c \in S THEN "OPEN" ELSE "none"]
    BY <1>1 DEF RecordEvent, OutcomeOf, Open, NoJob
  <2>5. Delivery!Record(S)
    BY <1>1, <2>3, <2>4, OutcomeIsOf DEF RecordEvent, Delivery!Record
  <2> QED BY <2>5 DEF Delivery!Next
<1>2. ASSUME job' = job, UNCHANGED <<event, received>>
      PROVE  UNCHANGED <<Outcome, received, event>>
  BY <1>2 DEF Outcome
<1>3. ASSUME NEW c \in Channels, TimePasses(c)
      PROVE  UNCHANGED <<Outcome, received, event>>
  <2>1. \A d \in Channels : job'[d].status = job[d].status
    BY <1>3 DEF TimePasses, OutboxInv, OutboxTypeOK
  <2> QED BY <1>3, <2>1 DEF TimePasses, Outcome
<1>4. ASSUME NEW w \in Workers, Send(w)
      PROVE  Delivery!Next \/ UNCHANGED <<Outcome, received, event>>
  <2>1. event # "none" /\ worker[w].claim.channel \in Channels
    BY <1>4 DEF Send, OutboxInv, EventInv, ClaimInv, Claims
  <2>2. Outcome' = Outcome /\ event' = event BY <1>4 DEF Send, Outcome
  <2>3. received' \in {received, received \cup {worker[w].claim.channel}}
    BY <1>4 DEF Send
  <2> QED BY <2>1, <2>2, <2>3 DEF Delivery!Next, Delivery!Receive
<1>5. ASSUME NEW w \in Workers, Claim(w) PROVE Delivery!Next
  BY <1>5, ClaimDelivers
<1>6. ASSUME NEW w \in Workers, Commit(w) PROVE Delivery!Next
  BY <1>6, CommitDelivers
<1> QED
  BY <1>1, <1>2, <1>3, <1>4, <1>5, <1>6
     DEF Next, WorkerStep, UpdateConfig, Prepare, CompareToken, LockEvent,
         ReadStatuses, Abandon, vars, lockVars

\* The outbox implements what it promises of an event: each job settles once,
\* SENT only after the channel took the message, and the event's status moves
\* in the same step (outbox.py as a whole).
THEOREM OutboxImplementsDelivery == Spec => ImplementsDelivery
<1>1. Init => Delivery!Init
  BY DEF Init, Delivery!Init, Outcome, NoJob
<1> QED BY <1>1, OutboxInvariant, DeliveryStep, PTL
        DEF Spec, ImplementsDelivery, Delivery!Spec
=============================================================================
