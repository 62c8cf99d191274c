-------------------------- MODULE BackfillJobsProofs --------------------------
(***************************************************************************)
(* Proofs about BackfillJobs, for any jobs, processes and crashes.         *)
(*                                                                         *)
(* BackfillInv adds to the checked properties what a request in flight may *)
(* rely on (Sound): the jobs it names exist, a worker about to save has    *)
(* read an active row, and one about to complete a replay has had its run. *)
(***************************************************************************)
EXTENDS BackfillJobs, TLAPS

Types ==
    /\ status \in [Jobs -> Statuses]
    /\ kind \in [Jobs -> Kinds]
    /\ cancelReq \in [Processes -> SUBSET Jobs]
    /\ req \in [Processes -> Requests]
    /\ ran \subseteq Jobs
    /\ abandoned \subseteq Jobs
    /\ faults \in 0..MaxFault

\* The run of r's job was made and not turned away.
Succeeded(r) == r.outcome \notin {"raised", "skipped_lock"}

Sound(p) ==
    /\ req[p].pc \notin {"idle", "down"} =>
         req[p].job \in Jobs /\ status[req[p].job] # "none"
    /\ \A j \in req[p].todo : status[j] # "none"
    /\ req[p].pc \in {"ack", "write"} => req[p].view \in Active
    /\ req[p].pc \in {"check", "write"} /\ kind[req[p].job] = "replay"
         /\ Succeeded(req[p]) => req[p].job \in ran

BackfillInv ==
    /\ Types
    /\ \A p \in Processes : Sound(p)
    /\ OneRunningJob
    /\ CompletedJobRan

\* The rows and the history only grow, and a job keeps its kind.
Grows ==
    /\ \A j \in Jobs : status[j] # "none" => status'[j] # "none"
                                             /\ kind'[j] = kind[j]
    /\ ran \subseteq ran'

-----------------------------------------------------------------------------

\* The initial state.
LEMMA BackfillInit == Init => BackfillInv
<1> SUFFICES ASSUME Init PROVE BackfillInv OBVIOUS
<1>1. Types
  BY BackfillAssumption
     DEF Init, Types, Idle, Requests, Pcs, Outcomes, Statuses, Kinds
<1>2. \A p \in Processes : Sound(p)
  BY DEF Init, Sound, Idle
<1>3. OneRunningJob /\ CompletedJobRan
  BY DEF Init, OneRunningJob, CompletedJobRan
<1> QED BY <1>1, <1>2, <1>3 DEF BackfillInv

\* A request that does not move keeps what it relies on.
LEMMA OthersSound ==
  ASSUME BackfillInv, Grows, NEW p \in Processes, req'[p] = req[p]
  PROVE  Sound(p)'
<1>1. req[p] \in Requests BY DEF BackfillInv, Types
<1>2. req[p].todo \subseteq Jobs BY <1>1 DEF Requests
<1>3. req[p].pc \in {"check", "write"} => req[p].job \in Jobs /\ status[req[p].job] # "none"
  BY DEF BackfillInv, Sound
<1> QED BY <1>2, <1>3 DEF BackfillInv, Sound, Grows, Succeeded

\* A request writes status s to its job and goes on as r.  RUNNING needs that
\* no other job is, COMPLETED that a replay was run.
LEMMA SaveStep ==
  ASSUME BackfillInv, NEW p \in Processes, NEW r \in Requests,
         NEW s \in Statuses \ {"none"},
         req[p].pc \notin {"idle", "down"},
         Save(p, s, r),
         cancelReq' \in [Processes -> SUBSET Jobs],
         UNCHANGED <<kind, ran, faults>>,
         s = "RUNNING" => NoOtherActive(req[p].job),
         s = "COMPLETED" /\ kind[req[p].job] = "replay" => req[p].job \in ran,
         r.pc \notin {"ack", "write", "check"},
         r.pc \notin {"idle", "down"} => r.job = req[p].job,
         r.todo \subseteq req[p].todo
  PROVE  BackfillInv'
<1> DEFINE j == req[p].job
<1>1. /\ j \in Jobs
      /\ status' = [status EXCEPT ![j] = s]
      /\ req' = [req EXCEPT ![p] = r]
      /\ abandoned' = abandoned \ {j}
  BY DEF Save, BackfillInv, Sound
<1>2. /\ status \in [Jobs -> Statuses]
      /\ req \in [Processes -> Requests]
  BY DEF BackfillInv, Types
<1>3. /\ status'[j] = s
      /\ \A k \in Jobs \ {j} : status'[k] = status[k]
      /\ req'[p] = r
      /\ \A q \in Processes \ {p} : req'[q] = req[q]
  BY <1>1, <1>2
<1>4. Types' BY <1>1, <1>2 DEF BackfillInv, Types
<1>5. Grows BY <1>3 DEF Grows
<1>6. \A q \in Processes \ {p} : Sound(q)' BY <1>3, <1>5, OthersSound
<1>7. Sound(p)'
  <2>1. \A k \in r.todo : k \in Jobs /\ status[k] # "none"
    BY <1>2 DEF BackfillInv, Sound, Requests
  <2> QED BY <1>1, <1>3, <2>1 DEF Sound
<1>8. OneRunningJob'
  <2>1. s = "RUNNING" => \A k \in Jobs \ {j} : status[k] # "RUNNING"
    BY DEF NoOtherActive, Active
  <2> QED BY <1>1, <1>3, <2>1 DEF BackfillInv, OneRunningJob
<1>9. CompletedJobRan'
  BY <1>1, <1>3 DEF BackfillInv, CompletedJobRan
<1> QED BY <1>4, <1>6, <1>7, <1>8, <1>9 DEF BackfillInv

\* A request that goes on as r and writes no row.
LEMMA MoveStep ==
  ASSUME BackfillInv, NEW p \in Processes, NEW r \in Requests,
         req' = [req EXCEPT ![p] = r], status' = status,
         abandoned' \in SUBSET Jobs,
         cancelReq' \in [Processes -> SUBSET Jobs],
         faults' \in 0..MaxFault,
         kind' = kind,
         ran' \in SUBSET Jobs,
         ran \subseteq ran',
         r.pc \notin {"idle", "down"} => r.job \in Jobs /\ status[r.job] # "none",
         \A j \in r.todo : status[j] # "none",
         r.pc \in {"ack", "write"} => r.view \in Active,
         r.pc \in {"check", "write"} /\ kind[r.job] = "replay"
           /\ Succeeded(r) => r.job \in ran'
  PROVE  BackfillInv'
<1>1. req \in [Processes -> Requests] BY DEF BackfillInv, Types
<1>2. req'[p] = r /\ \A q \in Processes \ {p} : req'[q] = req[q]
  BY <1>1
<1>3. Types' BY <1>1 DEF BackfillInv, Types
<1>4. Grows BY DEF Grows
<1>5. \A q \in Processes \ {p} : Sound(q)' BY <1>2, <1>4, OthersSound
<1>6. Sound(p)' BY <1>2 DEF Sound
<1>7. OneRunningJob' /\ CompletedJobRan'
  BY DEF BackfillInv, OneRunningJob, CompletedJobRan
<1> QED BY <1>3, <1>5, <1>6, <1>7 DEF BackfillInv

\* The same, of a request that does not raise.
LEMMA BecomeStep ==
  ASSUME BackfillInv, NEW p \in Processes, NEW r \in Requests,
         Become(p, r),
         cancelReq' \in [Processes -> SUBSET Jobs],
         faults' \in 0..MaxFault,
         kind' = kind,
         ran' \in SUBSET Jobs,
         ran \subseteq ran',
         r.pc \notin {"idle", "down"} => r.job \in Jobs /\ status[r.job] # "none",
         \A j \in r.todo : status[j] # "none",
         r.pc \in {"ack", "write"} => r.view \in Active,
         r.pc \in {"check", "write"} /\ kind[r.job] = "replay"
           /\ Succeeded(r) => r.job \in ran'
  PROVE  BackfillInv'
<1>1. status' = status /\ req' = [req EXCEPT ![p] = r] /\ abandoned' = abandoned
  BY DEF Become
<1>2. abandoned' \in SUBSET Jobs BY <1>1 DEF BackfillInv, Types
<1> QED BY <1>1, <1>2, MoveStep

-----------------------------------------------------------------------------
(***************************************************************************)
(* Actions.                                                                *)
(***************************************************************************)

\* Updates of a request's record.
LEMMA RequestRecords ==
  ASSUME NEW r \in Requests, NEW x \in Pcs, NEW v \in Statuses
  PROVE  /\ Idle \in Requests
         /\ [r EXCEPT !.pc = x] \in Requests
         /\ [r EXCEPT !.view = v] \in Requests
         /\ \A o \in Outcomes : [r EXCEPT !.pc = x, !.outcome = o] \in Requests
         /\ [Idle EXCEPT !.pc = x] \in Requests
         /\ \A j \in Jobs : [Idle EXCEPT !.pc = x, !.job = j, !.view = v] \in Requests
         /\ \A j \in Jobs, T \in SUBSET Jobs :
              [Idle EXCEPT !.pc = x, !.job = j, !.view = v, !.todo = T] \in Requests
<1>1. Idle \in Requests BY DEF Idle, Requests, Pcs, Statuses, Outcomes
<1>2. ASSUME NEW i \in Requests, NEW j \in Jobs, NEW T \in SUBSET Jobs
      PROVE  /\ [i EXCEPT !.pc = x] \in Requests
             /\ [i EXCEPT !.view = v] \in Requests
             /\ \A o \in Outcomes : [i EXCEPT !.pc = x, !.outcome = o] \in Requests
             /\ [i EXCEPT !.pc = x, !.job = j, !.view = v] \in Requests
             /\ [i EXCEPT !.pc = x, !.job = j, !.view = v, !.todo = T] \in Requests
  BY DEF Requests
<1>3. ASSUME NEW i \in Requests
      PROVE  /\ [i EXCEPT !.pc = x] \in Requests
             /\ [i EXCEPT !.view = v] \in Requests
             /\ \A o \in Outcomes : [i EXCEPT !.pc = x, !.outcome = o] \in Requests
  BY DEF Requests
<1> QED BY <1>1, <1>2, <1>3

\* A request in flight names a job that exists, and has read a status.
LEMMA InFlight ==
  ASSUME BackfillInv, NEW p \in Processes
  PROVE  /\ req[p] \in Requests
         /\ req[p].view \in Statuses
         /\ req[p].todo \subseteq Jobs
         /\ req[p].pc \notin {"idle", "down"} =>
              /\ req[p].job \in Jobs
              /\ status[req[p].job] \in Statuses \ {"none"}
         /\ cancelReq \in [Processes -> SUBSET Jobs]
         /\ faults \in 0..MaxFault
         /\ ran \subseteq Jobs
BY DEF BackfillInv, Types, Sound, Requests

\* create_backfill_job, with and without the start that follows it.
LEMMA CreateInv ==
  ASSUME BackfillInv, NEW p \in Processes, NEW j \in Jobs, NEW k \in Kinds,
         NEW start \in BOOLEAN, Create(p, j, k, start)
  PROVE  BackfillInv'
<1>1. /\ status \in [Jobs -> Statuses]
      /\ kind \in [Jobs -> Kinds]
      /\ req \in [Processes -> Requests]
  BY DEF BackfillInv, Types
<1>2. /\ status[j] = "none" /\ req[p].pc = "idle"
      /\ status' = [status EXCEPT ![j] = "PENDING"]
      /\ kind' = [kind EXCEPT ![j] = k]
      /\ UNCHANGED <<cancelReq, ran, abandoned, faults>>
  BY DEF Create
<1>3. PICK r \in Requests :
        /\ req' = [req EXCEPT ![p] = r]
        /\ r.pc \in {"idle", "start"}
        /\ r.pc = "start" => r.job = j
        /\ r.todo = req[p].todo
  <2>1. CASE start
    <3> DEFINE r == [req[p] EXCEPT !.pc = "start", !.job = j, !.view = "PENDING"]
    <3>1. req' = [req EXCEPT ![p] = r] BY <1>1, <2>1 DEF Create
    <3>2. r \in Requests BY <1>1 DEF Requests, Pcs, Statuses
    <3>3. r.pc = "start" /\ r.job = j /\ r.todo = req[p].todo
      BY <1>1 DEF Requests
    <3> QED BY <3>1, <3>2, <3>3
  <2>2. CASE ~start
    <3>1. req' = [req EXCEPT ![p] = req[p]] BY <1>1, <2>2 DEF Create
    <3> QED BY <1>1, <1>2, <3>1
  <2> QED BY <2>1, <2>2
<1>4. /\ status'[j] = "PENDING"
      /\ \A i \in Jobs \ {j} : status'[i] = status[i] /\ kind'[i] = kind[i]
      /\ req'[p] = r
      /\ \A q \in Processes \ {p} : req'[q] = req[q]
  BY <1>1, <1>2, <1>3
<1>5. Types' BY <1>1, <1>2, <1>3 DEF BackfillInv, Types, Statuses
<1>6. Grows BY <1>2, <1>4 DEF Grows
<1>7. \A q \in Processes \ {p} : Sound(q)' BY <1>4, <1>6, OthersSound
<1>8. Sound(p)'
  <2>1. \A i \in r.todo : i \in Jobs /\ status[i] # "none"
    BY <1>3, InFlight DEF BackfillInv, Sound
  <2> QED BY <1>3, <1>4, <2>1 DEF Sound
<1>9. OneRunningJob' BY <1>4 DEF BackfillInv, OneRunningJob
<1>10. CompletedJobRan' BY <1>2, <1>4 DEF BackfillInv, CompletedJobRan
<1> QED BY <1>5, <1>7, <1>8, <1>9, <1>10 DEF BackfillInv

\* The probe of start and cancel.
LEMMA ProbeInv ==
  ASSUME BackfillInv, NEW p \in Processes, NEW j \in Jobs,
         NEW what \in {"start", "cancel"}, Probe(p, j, what)
  PROVE  BackfillInv'
<1> DEFINE r == [Idle EXCEPT !.pc = what, !.job = j, !.view = status[j]]
<1>1. Become(p, r) /\ UNCHANGED <<kind, cancelReq, ran, faults>>
      /\ status[j] # "none"
  BY DEF Probe
<1>2. r \in Requests
  BY InFlight, RequestRecords DEF BackfillInv, Types, Pcs
<1>3. r.pc = what /\ r.job = j /\ r.todo = {} BY DEF Idle
<1> HIDE DEF r
<1> QED BY <1>1, <1>2, <1>3, InFlight, BecomeStep

\* start_backfill_job.
LEMMA StartInv ==
  ASSUME BackfillInv, NEW p \in Processes, Start(p)
  PROVE  BackfillInv'
<1> DEFINE r == [req[p] EXCEPT !.pc = "begin"]
<1>1. req[p].pc = "start" /\ UNCHANGED <<kind, cancelReq, ran, faults>>
  BY DEF Start
<1>2. r \in Requests /\ Idle \in Requests
  BY InFlight, RequestRecords DEF Pcs
<1>3. r.pc = "begin" /\ r.job = req[p].job /\ r.todo = req[p].todo
  BY InFlight DEF Requests
<1>4. Idle.pc = "idle" /\ Idle.todo = {} BY DEF Idle
<1>5. \/ Save(p, "RUNNING", r) /\ NoOtherActive(req[p].job)
      \/ Become(p, Idle)
  BY DEF Start
<1> HIDE DEF r
<1>6. CASE Save(p, "RUNNING", r) /\ NoOtherActive(req[p].job)
  <2>1. "RUNNING" \in Statuses \ {"none"} BY DEF Statuses, Active
  <2> QED BY <1>1, <1>2, <1>3, <1>6, <2>1, InFlight, SaveStep
<1>7. CASE Become(p, Idle)
  BY <1>1, <1>2, <1>4, <1>7, InFlight, BecomeStep
<1> QED BY <1>5, <1>6, <1>7

\* cancel_backfill_job up to its commit, and the refresh.
LEMMA CancelInv ==
  ASSUME BackfillInv, NEW p \in Processes,
         \/ CancelPending(p) \/ CancelRunning(p) \/ CancelCancelling(p)
         \/ CancelRefused(p) \/ Refresh(p) \/ Finalize(p)
  PROVE  BackfillInv'
<1>1. /\ req[p].pc \in {"cancel", "refresh", "finalize"}
      /\ UNCHANGED <<kind, ran, faults>>
  BY DEF CancelPending, CancelRunning, CancelCancelling, CancelRefused,
         Refresh, Finalize
<1>2. cancelReq' \in [Processes -> SUBSET Jobs]
  BY <1>1, InFlight
     DEF CancelPending, CancelRunning, CancelCancelling, CancelRefused,
         Refresh, Finalize, ClearSession
<1>3. Idle \in Requests /\ Idle.pc = "idle" /\ Idle.todo = {}
  BY InFlight, RequestRecords DEF Idle, Pcs
<1>4. ASSUME NEW s \in {"CANCELLED", "CANCELLING"}, NEW r \in Requests,
             Save(p, s, r),
             \/ r = Idle
             \/ r.pc = "refresh" /\ r.job = req[p].job /\ r.todo = req[p].todo
      PROVE  BackfillInv'
  <2>1. s \in Statuses \ {"none"} BY DEF Statuses, Active, Settled
  <2> QED BY <1>1, <1>2, <1>3, <1>4, <2>1, InFlight, SaveStep
<1>5. ASSUME NEW r \in Requests, Become(p, r),
             \/ r = Idle
             \/ r.pc = "finalize" /\ r.job = req[p].job /\ r.todo = req[p].todo
      PROVE  BackfillInv'
  <2>1. \A j \in req[p].todo : status[j] # "none" BY DEF BackfillInv, Sound
  <2> QED BY <1>1, <1>2, <1>3, <1>5, <2>1, InFlight, BecomeStep
<1>6. CASE CancelPending(p) BY <1>3, <1>4, <1>6 DEF CancelPending
<1>7. CASE CancelRunning(p)
  <2> DEFINE r == [req[p] EXCEPT !.pc = "refresh"]
  <2>1. r \in Requests BY InFlight, RequestRecords DEF Pcs
  <2>2. r.pc = "refresh" /\ r.job = req[p].job /\ r.todo = req[p].todo
    BY InFlight DEF Requests
  <2>3. Save(p, "CANCELLING", r) BY <1>7 DEF CancelRunning
  <2> QED BY <1>4, <2>1, <2>2, <2>3
<1>8. CASE CancelCancelling(p)
  <2> DEFINE r == [req[p] EXCEPT !.pc = "finalize"]
  <2>1. r \in Requests BY InFlight, RequestRecords DEF Pcs
  <2>2. r.pc = "finalize" /\ r.job = req[p].job /\ r.todo = req[p].todo
    BY InFlight DEF Requests
  <2>3. Become(p, r) BY <1>8 DEF CancelCancelling
  <2> QED BY <1>5, <2>1, <2>2, <2>3
<1>9. CASE CancelRefused(p) BY <1>3, <1>5, <1>9 DEF CancelRefused
<1>10. CASE Refresh(p)
  <2> DEFINE r == [Fresh(p) EXCEPT !.pc = "finalize"]
  <2>1. Fresh(p) \in Requests BY <1>1, InFlight, RequestRecords DEF Fresh, Pcs
  <2>2. r \in Requests BY <2>1, InFlight, RequestRecords DEF Pcs
  <2>3. r.pc = "finalize" /\ r.job = req[p].job /\ r.todo = req[p].todo
    BY InFlight DEF Fresh, Requests
  <2>4. Become(p, r) BY <1>10 DEF Refresh
  <2> QED BY <1>5, <2>2, <2>3, <2>4
<1>11. CASE Finalize(p) BY <1>3, <1>4, <1>5, <1>11 DEF Finalize
<1> QED BY <1>6, <1>7, <1>8, <1>9, <1>10, <1>11

\* The worker, up to the row it saves.
LEMMA WorkInv ==
  ASSUME BackfillInv, NEW p \in Processes, Begin(p) \/ Run(p) \/ Check(p)
  PROVE  BackfillInv'
<1>1. /\ req[p].pc \in {"begin", "run", "check"}
      /\ UNCHANGED <<kind, cancelReq, faults>>
  BY DEF Begin, Run, Check
<1>2. Idle \in Requests /\ Idle.pc = "idle" /\ Idle.todo = {}
  BY InFlight, RequestRecords DEF Idle, Pcs
<1>3. ASSUME NEW r \in Requests, Become(p, r),
             r.job = req[p].job, r.todo = req[p].todo,
             ran' \in SUBSET Jobs, ran \subseteq ran',
             r.pc \in {"ack", "write"} => r.view \in Active,
             r.pc \in {"check", "write"} /\ kind[r.job] = "replay"
               /\ Succeeded(r) => r.job \in ran'
      PROVE  BackfillInv'
  <2>1. \A j \in req[p].todo : status[j] # "none" BY DEF BackfillInv, Sound
  <2> QED BY <1>1, <1>3, <2>1, InFlight, BecomeStep
<1>4. ASSUME Become(p, Idle), ran' = ran PROVE BackfillInv'
  BY <1>1, <1>2, <1>4, InFlight, BecomeStep
<1>5. Fresh(p) \in Requests BY <1>1, InFlight, RequestRecords DEF Fresh, Pcs
<1>6. /\ Fresh(p).job = req[p].job
      /\ Fresh(p).todo = req[p].todo
      /\ Fresh(p).outcome = req[p].outcome
  BY InFlight DEF Fresh, Requests
<1>7. ASSUME NEW x \in Pcs
      PROVE  /\ [Fresh(p) EXCEPT !.pc = x] \in Requests
             /\ [Fresh(p) EXCEPT !.pc = x].pc = x
             /\ [Fresh(p) EXCEPT !.pc = x].job = req[p].job
             /\ [Fresh(p) EXCEPT !.pc = x].todo = req[p].todo
             /\ [Fresh(p) EXCEPT !.pc = x].view = Fresh(p).view
  BY <1>5, <1>6 DEF Requests
<1>8. {"ack", "run", "write", "check"} \subseteq Pcs BY DEF Pcs
<1>9. CASE Begin(p)
  <2>1. ran' = ran /\ ran \in SUBSET Jobs BY <1>9, InFlight DEF Begin
  <2>2. \/ Become(p, Idle)
        \/ Fresh(p).view \in Active /\ Become(p, [Fresh(p) EXCEPT !.pc = "ack"])
        \/ Become(p, [Fresh(p) EXCEPT !.pc = "run"])
        \/ /\ Fresh(p).view \in Active
           /\ Become(p, [Fresh(p) EXCEPT !.pc = "write", !.outcome = "raised"])
        \/ /\ kind[req[p].job] # "replay"
           /\ Become(p, [Fresh(p) EXCEPT !.pc = "check", !.outcome = "done"])
    BY <1>6, <1>9 DEF Begin, Active
  <2>3. {"raised", "done"} \subseteq Outcomes BY DEF Outcomes
  <2>4. CASE Become(p, Idle) BY <1>4, <2>1, <2>4
  <2>5. CASE Fresh(p).view \in Active /\ Become(p, [Fresh(p) EXCEPT !.pc = "ack"])
    BY <1>3, <1>7, <1>8, <2>1, <2>3, <2>5
  <2>6. CASE Become(p, [Fresh(p) EXCEPT !.pc = "run"])
    BY <1>3, <1>7, <1>8, <2>1, <2>3, <2>6
  <2>7. CASE /\ Fresh(p).view \in Active
             /\ Become(p, [Fresh(p) EXCEPT !.pc = "write", !.outcome = "raised"])
    <3> DEFINE r == [Fresh(p) EXCEPT !.pc = "write", !.outcome = "raised"]
    <3>1. /\ r \in Requests /\ r.job = req[p].job /\ r.todo = req[p].todo
          /\ r.view = Fresh(p).view /\ r.outcome = "raised"
      BY <1>5, <1>6, <1>8, <2>3 DEF Requests
    <3>2. Become(p, r) BY <2>7
    <3> HIDE DEF r
    <3> QED BY <1>3, <2>1, <2>7, <3>1, <3>2 DEF Succeeded
  <2>8. CASE /\ kind[req[p].job] # "replay"
             /\ Become(p, [Fresh(p) EXCEPT !.pc = "check", !.outcome = "done"])
    <3> DEFINE r == [Fresh(p) EXCEPT !.pc = "check", !.outcome = "done"]
    <3>1. /\ r \in Requests /\ r.job = req[p].job /\ r.todo = req[p].todo
          /\ r.pc = "check"
      BY <1>5, <1>6, <1>8, <2>3 DEF Requests
    <3>2. Become(p, r) BY <2>8
    <3> HIDE DEF r
    <3> QED BY <1>3, <2>1, <2>8, <3>1, <3>2
  <2> QED BY <2>2, <2>4, <2>5, <2>6, <2>7, <2>8
<1>10. CASE Run(p)
  <2>1. PICK o \in Outcomes \ {"none"} :
          /\ Become(p, [req[p] EXCEPT !.pc = "check", !.outcome = o])
          /\ ran' = IF o = "done" THEN ran \union {req[p].job} ELSE ran
    BY <1>10 DEF Run
  <2>2. o \in {"raised", "skipped_lock"} \/ req[p].job \in ran'
    BY <2>1 DEF Outcomes
  <2>3. ran' \in SUBSET Jobs /\ ran \subseteq ran' BY <1>1, <2>1, InFlight
  <2> DEFINE r == [req[p] EXCEPT !.pc = "check", !.outcome = o]
  <2>4. /\ r \in Requests /\ r.job = req[p].job /\ r.todo = req[p].todo
        /\ r.pc = "check" /\ r.outcome = o
    BY <1>8, InFlight DEF Requests
  <2>5. Become(p, r) BY <2>1
  <2> HIDE DEF r
  <2> QED BY <1>3, <2>2, <2>3, <2>4, <2>5 DEF Succeeded
<1>11. CASE Check(p)
  <2>1. ran' = ran /\ ran \in SUBSET Jobs BY <1>11, InFlight DEF Check
  <2>2. \/ Become(p, Idle)
        \/ /\ Fresh(p).view \in Active
           /\ \E x \in {"ack", "write"} : Become(p, [Fresh(p) EXCEPT !.pc = x])
    BY <1>11 DEF Check
  <2>3. CASE Become(p, Idle) BY <1>4, <2>1, <2>3
  <2>4. ASSUME Fresh(p).view \in Active, NEW x \in {"ack", "write"},
               Become(p, [Fresh(p) EXCEPT !.pc = x])
        PROVE  BackfillInv'
    <3> DEFINE r == [Fresh(p) EXCEPT !.pc = x]
    <3>1. /\ r \in Requests /\ r.job = req[p].job /\ r.todo = req[p].todo
          /\ r.view \in Active /\ r.outcome = req[p].outcome
      BY <1>5, <1>6, <1>8, <2>4 DEF Requests
    <3>2. kind[r.job] = "replay" /\ Succeeded(r) => r.job \in ran
      BY <1>11, <3>1 DEF Check, BackfillInv, Sound, Succeeded
    <3> HIDE DEF r
    <3>3. Become(p, r) BY <2>4 DEF r
    <3> QED BY <1>3, <2>1, <3>1, <3>2, <3>3
  <2> QED BY <2>2, <2>3, <2>4
<1> QED BY <1>9, <1>10, <1>11

\* What the worker saves at its end.
LEMMA SavesInv ==
  ASSUME BackfillInv, NEW p \in Processes, Ack(p) \/ Write(p)
  PROVE  BackfillInv'
<1>1. Idle \in Requests /\ Idle.pc = "idle" /\ Idle.todo = {}
  BY InFlight, RequestRecords DEF Idle, Pcs
<1>2. CASE Ack(p)
  <2>1. /\ req[p].pc = "ack" /\ Save(p, "CANCELLED", Idle)
        /\ UNCHANGED <<kind, ran, faults>>
    BY <1>2 DEF Ack
  <2>2. cancelReq' \in [Processes -> SUBSET Jobs]
    BY <1>2, InFlight DEF Ack, ClearSession
  <2>3. "CANCELLED" \in Statuses \ {"none"} BY DEF Statuses, Settled
  <2> QED BY <1>1, <2>1, <2>2, <2>3, SaveStep
<1>3. CASE Write(p)
  <2>1. req[p].pc = "write" /\ UNCHANGED <<kind, cancelReq, ran, faults>>
    BY <1>3 DEF Write
  <2>2. \/ Become(p, Idle)
        \/ Save(p, Result(p), Idle) /\ Result(p) # "unchanged"
    BY <1>3 DEF Write
  <2>3. CASE Become(p, Idle) BY <1>1, <2>1, <2>3, InFlight, BecomeStep
  <2>4. CASE Save(p, Result(p), Idle) /\ Result(p) # "unchanged"
    <3>1. Result(p) \in {"FAILED", "COMPLETED"} BY <2>4 DEF Result
    <3>2. Result(p) \in Statuses \ {"none"} BY <3>1 DEF Statuses, Settled
    <3>3. Result(p) = "COMPLETED" /\ kind[req[p].job] = "replay" =>
            req[p].job \in ran
      BY <2>1 DEF Result, BackfillInv, Sound, Succeeded
    <3> QED BY <1>1, <2>1, <2>4, <3>1, <3>2, <3>3, InFlight, SaveStep
  <2> QED BY <2>2, <2>3, <2>4
<1> QED BY <1>2, <1>3

\* Taking up the next orphan of a list of existing jobs.
LEMMA NextOrphanInv ==
  ASSUME BackfillInv, NEW p \in Processes, NEW S \in SUBSET Jobs,
         \A j \in S : status[j] # "none",
         NextOrphan(p, S), UNCHANGED <<kind, cancelReq, ran, faults>>
  PROVE  BackfillInv'
<1>1. Idle \in Requests /\ Idle.pc = "idle" /\ Idle.todo = {}
  BY InFlight, RequestRecords DEF Idle, Pcs
<1>2. CASE Become(p, Idle)
  BY <1>1, <1>2, InFlight, BecomeStep
<1>3. ASSUME NEW j \in S,
             Become(p, [Idle EXCEPT !.pc = "reconcile", !.job = j,
                                    !.view = status[j], !.todo = S \ {j}])
      PROVE  BackfillInv'
  <2> DEFINE r == [Idle EXCEPT !.pc = "reconcile", !.job = j,
                               !.view = status[j], !.todo = S \ {j}]
  <2>1. r \in Requests
    BY InFlight, RequestRecords DEF Pcs, BackfillInv, Types
  <2>2. r.pc = "reconcile" /\ r.job = j /\ r.todo = S \ {j} BY DEF Idle
  <2> HIDE DEF r
  <2>3. Become(p, r) BY <1>3 DEF r
  <2> QED BY <2>1, <2>2, <2>3, InFlight, BecomeStep
<1> QED BY <1>2, <1>3 DEF NextOrphan

\* An exception that nobody catches.
LEMMA RaiseInv ==
  ASSUME BackfillInv, NEW p \in Processes, Raise(p)
  PROVE  BackfillInv'
<1>1. /\ req' = [req EXCEPT ![p] = Idle]
      /\ UNCHANGED <<status, kind, ran>>
  BY DEF Raise
<1>2. Idle \in Requests /\ Idle.pc = "idle" /\ Idle.todo = {}
  BY InFlight, RequestRecords DEF Idle, Pcs
<1>3. abandoned' \in SUBSET Jobs BY DEF Raise, Charge, BackfillInv, Types
<1>4. cancelReq' \in [Processes -> SUBSET Jobs] BY InFlight DEF Raise
<1>5. faults' \in 0..MaxFault BY InFlight, BackfillAssumption DEF Raise
<1> QED BY <1>1, <1>2, <1>3, <1>4, <1>5, InFlight, MoveStep

\* Crash and start-up.
LEMMA RecoveryInv ==
  ASSUME BackfillInv, NEW p \in Processes,
         Crash(p) \/ Restart(p) \/ Reconcile(p) \/ ReconcileNext(p)
  PROVE  BackfillInv'
<1>1. CASE Crash(p)
  <2> DEFINE r == [Idle EXCEPT !.pc = "down"]
  <2>1. r \in Requests BY InFlight, RequestRecords DEF Pcs
  <2>2. r.pc = "down" /\ r.todo = {} BY DEF Idle
  <2>3. Become(p, r) /\ UNCHANGED <<kind, ran>> BY <1>1 DEF Crash
  <2>4. faults' \in 0..MaxFault
    BY <1>1, InFlight, BackfillAssumption DEF Crash
  <2>5. cancelReq' \in [Processes -> SUBSET Jobs]
    BY <1>1, InFlight DEF Crash
  <2> HIDE DEF r
  <2> QED BY <2>1, <2>2, <2>3, <2>4, <2>5, InFlight, BecomeStep
<1>2. CASE Restart(p)
  <2>1. Orphans \in SUBSET Jobs /\ \A j \in Orphans : status[j] # "none"
    BY DEF Orphans, Active
  <2> QED BY <1>2, <2>1, NextOrphanInv DEF Restart
<1>3. CASE ReconcileNext(p)
  <2>1. req[p].todo \in SUBSET Jobs /\ \A j \in req[p].todo : status[j] # "none"
    BY InFlight DEF BackfillInv, Sound
  <2> QED BY <1>3, <2>1, NextOrphanInv DEF ReconcileNext
<1>4. CASE Reconcile(p)
  <2> DEFINE r == [req[p] EXCEPT !.pc = "orphans"]
  <2>1. r \in Requests BY InFlight, RequestRecords DEF Pcs
  <2>2. r.pc = "orphans" /\ r.job = req[p].job /\ r.todo = req[p].todo
    BY InFlight DEF Requests
  <2>3. /\ req[p].pc = "reconcile" /\ UNCHANGED <<kind, ran, faults>>
        /\ \/ Save(p, "FAILED", r)
           \/ Save(p, "CANCELLED", r)
           \/ Become(p, r)
    BY <1>4 DEF Reconcile
  <2>4. cancelReq' \in [Processes -> SUBSET Jobs]
    BY <1>4, InFlight DEF Reconcile, ClearSession
  <2>5. {"FAILED", "CANCELLED"} \subseteq Statuses \ {"none"}
    BY DEF Statuses, Settled
  <2>6. \A j \in req[p].todo : status[j] # "none" BY DEF BackfillInv, Sound
  <2> HIDE DEF r
  <2>7. CASE Save(p, "FAILED", r)
    BY <2>1, <2>2, <2>3, <2>4, <2>5, <2>7, SaveStep
  <2>8. CASE Save(p, "CANCELLED", r)
    BY <2>1, <2>2, <2>3, <2>4, <2>5, <2>8, SaveStep
  <2>9. CASE Become(p, r)
    BY <2>1, <2>2, <2>3, <2>4, <2>6, <2>9, InFlight, BecomeStep
  <2> QED BY <2>3, <2>7, <2>8, <2>9
<1> QED BY <1>1, <1>2, <1>3, <1>4

\* BackfillInv is inductive.
LEMMA BackfillStep == BackfillInv /\ [Next]_vars => BackfillInv'
<1> SUFFICES ASSUME BackfillInv, [Next]_vars PROVE BackfillInv' OBVIOUS
<1>1. ASSUME NEW p \in Processes, Request(p) PROVE BackfillInv'
  BY <1>1, CreateInv, ProbeInv DEF Request
<1>2. ASSUME NEW p \in Processes, Step(p) PROVE BackfillInv'
  BY <1>2, StartInv, CancelInv, WorkInv, SavesInv, RecoveryInv DEF Step
<1>3. ASSUME NEW p \in Processes, Crash(p) PROVE BackfillInv'
  BY <1>3, RecoveryInv
<1>4. ASSUME NEW p \in Processes, Raise(p) PROVE BackfillInv'
  BY <1>4, RaiseInv
<1>5. CASE UNCHANGED vars
  BY <1>5 DEF vars, BackfillInv, Types, Sound, OneRunningJob, CompletedJobRan
<1> QED BY <1>1, <1>2, <1>3, <1>4, <1>5 DEF Next

-----------------------------------------------------------------------------
(***************************************************************************)
(* Theorems.                                                               *)
(***************************************************************************)

\* The inductive invariant holds in every reachable state.
THEOREM BackfillInvariant == Spec => []BackfillInv
BY BackfillInit, BackfillStep, PTL DEF Spec

\* Rows and requests keep their types, and a request acts on a job that was
\* created (get_backfill_job refuses others).
THEOREM BackfillTypeCorrect == Spec => []BackfillTypeOK
<1>1. BackfillInv => BackfillTypeOK
  BY DEF BackfillInv, Types, Sound, BackfillTypeOK
<1> QED BY <1>1, BackfillInvariant, PTL

\* Two jobs of a stream are never RUNNING together (start_backfill_job counts
\* them under the stream's lock), for any number of jobs and processes.
THEOREM OneRunning == Spec => []OneRunningJob
<1>1. BackfillInv => OneRunningJob BY DEF BackfillInv
<1> QED BY <1>1, BackfillInvariant, PTL

\* A COMPLETED replay job has had its run through the stream runner
\* (run_replay_job), whoever else wrote the row.
THEOREM CompletedRan == Spec => []CompletedJobRan
<1>1. BackfillInv => CompletedJobRan BY DEF BackfillInv
<1> QED BY <1>1, BackfillInvariant, PTL

\* A settled job gets another status only from a request that read the row
\* before it was settled.
THEOREM SettledStays == Spec => SettledUndoneOnlyByOldView
<1> DEFINE Undone(j) ==
      status[j] \in Settled /\ status'[j] # status[j] =>
        \E p \in Processes :
          /\ req[p].job = j
          /\ req[p].pc \notin {"idle", "begin", "run", "check"}
          /\ req[p].view \notin Settled
<1>1. BackfillInv /\ [Next]_vars => [\A j \in Jobs : Undone(j)]_vars
  <2> SUFFICES ASSUME BackfillInv, Next, NEW j \in Jobs,
                      status[j] \in Settled, status'[j] # status[j]
               PROVE  Undone(j)
    OBVIOUS
  <2>1. status \in [Jobs -> Statuses] BY DEF BackfillInv, Types
  <2>2. PICK p \in Processes : Request(p) \/ Step(p) \/ Raise(p) \/ Crash(p)
    BY DEF Next
  <2>3. ASSUME NEW s, NEW r, Save(p, s, r) PROVE req[p].job = j
    BY <2>1, <2>3 DEF Save
  <2>4. ~Request(p) /\ ~Raise(p) /\ ~Crash(p)
    BY <2>1 DEF Request, Create, Probe, Become, Raise, Crash, Settled
  <2>5. Step(p) BY <2>2, <2>4
  <2>6. req[p].pc \in {"ack", "write"} => req[p].view \notin Settled
    BY DEF BackfillInv, Sound, Active, Settled
  <2>7. CASE Start(p) BY <2>3, <2>7 DEF Start, Become, Settled
  <2>8. CASE CancelPending(p) \/ CancelRunning(p) \/ Finalize(p)
    BY <2>3, <2>8 DEF CancelPending, CancelRunning, Finalize, Become, Settled
  <2>9. CASE Ack(p) \/ Write(p) BY <2>3, <2>6, <2>9 DEF Ack, Write, Become
  <2>10. CASE Reconcile(p) BY <2>3, <2>10 DEF Reconcile, Become, Settled
  <2> QED
    BY <2>5, <2>7, <2>8, <2>9, <2>10
       DEF Step, Become, CancelCancelling, CancelRefused, Refresh, Begin, Run,
           Check, Restart, ReconcileNext, NextOrphan
<1> QED BY <1>1, BackfillInvariant, PTL DEF Spec, SettledUndoneOnlyByOldView
=============================================================================
