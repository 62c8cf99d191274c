--------------------------- MODULE StreamLifecycle ---------------------------
(***************************************************************************)
(* Starting and stopping one stream, across processes.                     *)
(*                                                                         *)
(* Scheduler processes keep a worker thread per stream that is enabled and *)
(* RUNNING.  API processes serve Start, Stop, Run Now and the reconcile    *)
(* that precedes a delete; their handlers block the event loop, so each    *)
(* process serves one of these requests at a time.  The two sides meet in  *)
(* the stream's row, in a process-local stop event and in two file locks:  *)
(* the worker ownership and the run lock.  Stop asks the worker to leave,  *)
(* waits a while, and confirms STOPPED when it sees no owner, no run and   *)
(* no worker.                                                              *)
(*                                                                         *)
(* What a run does between taking and releasing its lock is StreamRun's    *)
(* matter; here it may change the stream's status, or raise.               *)
(***************************************************************************)
EXTENDS Naturals

CONSTANTS
    Processes,   \* the processes on duty
    Schedulers,  \* those whose Scheduler was started
    Apis,        \* those that serve requests
    LockDir,     \* [Processes -> lock directories], GDC_STREAM_RUN_LOCK_DIR
    Nobody,      \* the worker ownership is free
    MaxFault     \* bound: crashes and run locks that raise

ASSUME LifecycleAssumption ==
    /\ Schedulers \subseteq Processes
    /\ Apis \subseteq Processes
    /\ Nobody \notin Processes
    /\ MaxFault \in Nat

VARIABLES
    enabled,    \* streams.enabled
    status,     \* streams.status
    worker,     \* [Processes -> WorkerPCs], the thread in Scheduler._workers
    leaving,    \* processes with a thread out of _workers, not yet disowned
    stopEvent,  \* processes whose _stream_stop_events entry is set
    listed,     \* supervisors whose last query returned the stream
    gate,       \* processes whose enabled-state snapshot says "runnable"
    fresh,      \* processes whose snapshot is younger than its TTL
    owner,      \* [directories -> process holding worker-<id>.lock]
    runLock,    \* directories whose run-<id>.lock is held
    leaked,     \* processes that hold the thread lock and run nothing
    api,        \* [Processes -> the request in hand]
    faults,     \* history: crashes and run locks that raised so far
    quiet,      \* history: a stop was confirmed; nobody enabled since
    parted      \* history: the creation or a save parted enabled from status

rowVars == <<enabled, status>>

schedVars == <<worker, leaving, stopEvent, listed>>

snapVars == <<gate, fresh>>

runVars == <<runLock, leaked>>

histVars == <<quiet, parted>>

vars == <<rowVars, schedVars, snapVars, owner, runVars, api, faults,
          histVars>>

Dirs == {LockDir[p] : p \in Processes}

WorkerPCs == {"none", "spawned", "poll", "gated", "loaded", "running",
              "waiting", "exiting", "confirmed"}

\* Statuses a run leaves behind (PAUSED, RATE_LIMITED_*) are alike here.
Statuses == {"RUNNING", "STOPPING", "STOPPED", "STOP_FAILED", "PAUSED"}

ApiPCs == {"idle", "starting", "signal", "stopping", "confirming",
           "run_loaded", "run"}

\* overtaken: the stream was enabled after this stop was requested.
NoRequest == [pc |-> "idle", sawEnabled |-> FALSE, sawStatus |-> "STOPPED",
              overtaken |-> FALSE]

InStop == {"signal", "stopping", "confirming"}

\* is_stream_scheduler_runnable
Runnable == enabled /\ status = "RUNNING"

\* START leaves enabled=true, status=RUNNING; STOP leaves enabled=false,
\* status=STOPPED; a run may pause an enabled stream.
Agree ==
    IF enabled THEN status \in {"RUNNING", "PAUSED"} ELSE status # "RUNNING"

\* A stream is created STOPPED, and disabled unless the request says otherwise.
Init ==
    /\ enabled \in BOOLEAN
    /\ status = "STOPPED"
    /\ worker = [p \in Processes |-> "none"]
    /\ leaving = {}
    /\ stopEvent = {}
    /\ listed = {}
    /\ gate = {}
    /\ fresh = {}
    /\ owner = [d \in Dirs |-> Nobody]
    /\ runLock = {}
    /\ leaked = {}
    /\ api = [p \in Processes |-> NoRequest]
    /\ faults = 0
    /\ quiet = FALSE
    /\ parted = enabled

-----------------------------------------------------------------------------
(***************************************************************************)
(* The supervisor and the enabled-state snapshot.                          *)
(***************************************************************************)

\* Mutant of ListStreams: a Scheduler that was never started supervises too.
ListStreamsAnywhere(p) ==
    /\ listed' = IF Runnable THEN listed \cup {p} ELSE listed \ {p}
    /\ UNCHANGED <<rowVars, worker, leaving, stopEvent, snapVars, owner,
                   runVars, api, faults, histVars>>

ListStreams(p) ==
    /\ p \in Schedulers
    /\ listed' = IF Runnable THEN listed \cup {p} ELSE listed \ {p}
    /\ UNCHANGED <<rowVars, worker, leaving, stopEvent, snapVars, owner,
                   runVars, api, faults, histVars>>

\* A registered thread is left alone; otherwise one is started with its stop
\* event cleared.
EnsureWorker(p) ==
    /\ p \in listed
    /\ listed' = listed \ {p}
    /\ IF worker[p] = "none"
         THEN /\ worker' = [worker EXCEPT ![p] = "spawned"]
              /\ stopEvent' = stopEvent \ {p}
         ELSE UNCHANGED <<worker, stopEvent>>
    /\ UNCHANGED <<rowVars, leaving, snapVars, owner, runVars, api, faults,
                   histVars>>

\* What a read of the process's snapshot returns, and the refresh it makes
\* when the snapshot is older than its TTL.
GateSays(p) == IF p \in fresh THEN p \in gate ELSE Runnable

ReadGate(p) ==
    /\ gate' = IF GateSays(p) THEN gate \cup {p} ELSE gate \ {p}
    /\ fresh' = fresh \cup {p}

\* The TTL runs out.
Expire(p) ==
    /\ p \in fresh
    /\ fresh' = fresh \ {p}
    /\ UNCHANGED <<rowVars, schedVars, gate, owner, runVars, api, faults,
                   histVars>>

\* The worker of another stream refreshes the snapshot they share.
SharedRefresh(p) ==
    /\ p \in Schedulers \ fresh
    /\ ReadGate(p)
    /\ UNCHANGED <<rowVars, schedVars, owner, runVars, api, faults, histVars>>

-----------------------------------------------------------------------------
(***************************************************************************)
(* The worker thread, Scheduler._loop_stream.                              *)
(***************************************************************************)

\* A worker that is past this point holds the ownership lock.
Own(p) ==
    /\ worker[p] = "spawned"
    /\ owner[LockDir[p]] = Nobody
    /\ owner' = [owner EXCEPT ![LockDir[p]] = p]
    /\ worker' = [worker EXCEPT ![p] = "poll"]
    /\ UNCHANGED <<rowVars, leaving, stopEvent, listed, snapVars, runVars,
                   api, faults, histVars>>

\* Mutant of OwnershipBusy: the thread that was refused also releases.
OwnershipBusyReleases(p) ==
    /\ worker[p] = "spawned"
    /\ worker' = [worker EXCEPT ![p] = "none"]
    /\ stopEvent' = stopEvent \ {p}
    /\ owner' = [owner EXCEPT ![LockDir[p]] = Nobody]
    /\ UNCHANGED <<rowVars, leaving, listed, snapVars, runVars, api, faults,
                   histVars>>

\* The lock is taken: by another worker, or for an instant by a caller of
\* is_held, which probes it by locking it.
OwnershipBusy(p) ==
    /\ worker[p] = "spawned"
    /\ worker' = [worker EXCEPT ![p] = "none"]
    /\ stopEvent' = stopEvent \ {p}
    /\ UNCHANGED <<rowVars, leaving, listed, snapVars, owner, runVars, api,
                   faults, histVars>>

\* The lock file cannot be opened or written.  The thread dies before its try
\* block; it stays in _workers, dead, until the supervisor replaces it.
OwnershipError(p) ==
    /\ worker[p] = "spawned"
    /\ worker' = [worker EXCEPT ![p] = "none"]
    /\ UNCHANGED <<rowVars, leaving, stopEvent, listed, snapVars, owner,
                   runVars, api, faults, histVars>>

\* Top of the loop: the stop event, then the snapshot.
Poll(p) ==
    /\ worker[p] = "poll"
    /\ IF p \in stopEvent
         THEN worker' = [worker EXCEPT ![p] = "exiting"] /\ UNCHANGED snapVars
         ELSE /\ worker' = [worker EXCEPT ![p] = IF GateSays(p)
                                                   THEN "gated" ELSE "exiting"]
              /\ ReadGate(p)
    /\ UNCHANGED <<rowVars, leaving, stopEvent, listed, owner, runVars, api,
                   faults, histVars>>

\* The worker waits for the refresh that the worker of another stream makes,
\* which fails or takes too long, and goes by the snapshot that has expired.
PollUnrefreshed(p) ==
    /\ worker[p] = "poll"
    /\ p \notin stopEvent \cup fresh
    /\ worker' = [worker EXCEPT ![p] = IF p \in gate THEN "gated" ELSE "exiting"]
    /\ UNCHANGED <<rowVars, leaving, stopEvent, listed, snapVars, owner,
                   runVars, api, faults, histVars>>

\* Mutant of LoadContext: the snapshot is trusted, the row not read again.
LoadContextUnchecked(p) ==
    /\ worker[p] = "gated"
    /\ worker' = [worker EXCEPT ![p] = "loaded"]
    /\ UNCHANGED <<rowVars, leaving, stopEvent, listed, snapVars, owner,
                   runVars, api, faults, histVars>>

\* load_scheduler_stream_context looks at the row itself: disabling a stream
\* changes the cache fingerprint, and a disabled stream is refused.
LoadContext(p) ==
    /\ worker[p] = "gated"
    /\ enabled
    /\ worker' = [worker EXCEPT ![p] = "loaded"]
    /\ UNCHANGED <<rowVars, leaving, stopEvent, listed, snapVars, owner,
                   runVars, api, faults, histVars>>

\* The stream is disabled, or has no enabled route, or lacks a destination.
ContextRefused(p) ==
    /\ worker[p] = "gated"
    /\ worker' = [worker EXCEPT ![p] = "exiting"]
    /\ UNCHANGED <<rowVars, leaving, stopEvent, listed, snapVars, owner,
                   runVars, api, faults, histVars>>

\* Any other error in the cycle is followed by the wait.
CycleError(p) ==
    /\ worker[p] \in {"poll", "gated"}
    /\ p \notin stopEvent
    /\ worker' = [worker EXCEPT ![p] = "waiting"]
    /\ UNCHANGED <<rowVars, leaving, stopEvent, listed, snapVars, owner,
                   runVars, api, faults, histVars>>

\* StreamRunner._locks, the run lock's first half, is free in process p.
ThreadLockFree(p) ==
    p \notin leaked /\ worker[p] # "running" /\ api[p].pc # "run"

AcquireRun(p) ==
    /\ worker[p] = "loaded"
    /\ ThreadLockFree(p)
    /\ LockDir[p] \notin runLock
    /\ runLock' = runLock \cup {LockDir[p]}
    /\ worker' = [worker EXCEPT ![p] = "running"]
    /\ UNCHANGED <<rowVars, leaving, stopEvent, listed, snapVars, owner,
                   leaked, api, faults, histVars>>

\* The file lock raises after the thread lock is taken, and before the try
\* block that would release it (StreamRun!AcquireFails).
AcquireRunFails(p) ==
    /\ worker[p] = "loaded"
    /\ ThreadLockFree(p)
    /\ faults < MaxFault
    /\ faults' = faults + 1
    /\ leaked' = leaked \cup {p}
    /\ worker' = [worker EXCEPT ![p] = "waiting"]
    /\ UNCHANGED <<rowVars, leaving, stopEvent, listed, snapVars, owner,
                   runLock, api, histVars>>

\* skipped_lock: another run, a probe or a leak holds the lock.
SkipRun(p) ==
    /\ worker[p] = "loaded"
    /\ worker' = [worker EXCEPT ![p] = "waiting"]
    /\ UNCHANGED <<rowVars, leaving, stopEvent, listed, snapVars, owner,
                   runVars, api, faults, histVars>>

\* Mutant of RunEnds: a run that succeeds marks the stream RUNNING.
RunEndsResumes(p, s) ==
    /\ worker[p] = "running"
    /\ s \in {status, "PAUSED"}
    /\ status' = IF s = "PAUSED" THEN s ELSE "RUNNING"
    /\ runLock' = runLock \ {LockDir[p]}
    /\ worker' = [worker EXCEPT ![p] = "waiting"]
    /\ UNCHANGED <<enabled, leaving, stopEvent, listed, snapVars, owner,
                   leaked, api, faults, histVars>>

\* The run flushes (it may write the status, whatever it is by now) or
\* raises, and releases the run lock.
RunEnds(p, s) ==
    /\ worker[p] = "running"
    /\ s \in {status, "PAUSED"}
    /\ status' = s
    /\ runLock' = runLock \ {LockDir[p]}
    /\ worker' = [worker EXCEPT ![p] = "waiting"]
    /\ UNCHANGED <<enabled, leaving, stopEvent, listed, snapVars, owner,
                   leaked, api, faults, histVars>>

\* A run that raises one of the errors ContextRefused is about ends the loop.
RunRefused(p) ==
    /\ worker[p] = "running"
    /\ runLock' = runLock \ {LockDir[p]}
    /\ worker' = [worker EXCEPT ![p] = "exiting"]
    /\ UNCHANGED <<rowVars, leaving, stopEvent, listed, snapVars, owner,
                   leaked, api, faults, histVars>>

\* One slice of _interruptible_wait.
WaitSlice(p) ==
    /\ worker[p] = "waiting"
    /\ IF p \in stopEvent
         THEN worker' = [worker EXCEPT ![p] = "exiting"] /\ UNCHANGED snapVars
         ELSE /\ worker' = IF GateSays(p) THEN worker
                           ELSE [worker EXCEPT ![p] = "exiting"]
              /\ ReadGate(p)
    /\ UNCHANGED <<rowVars, leaving, stopEvent, listed, owner, runVars, api,
                   faults, histVars>>

\* A slice in which the refresh is another worker's, and in vain.
WaitUnrefreshed(p) ==
    /\ worker[p] = "waiting"
    /\ p \notin stopEvent \cup fresh \cup gate
    /\ worker' = [worker EXCEPT ![p] = "exiting"]
    /\ UNCHANGED <<rowVars, leaving, stopEvent, listed, snapVars, owner,
                   runVars, api, faults, histVars>>

WaitElapses(p) ==
    /\ worker[p] = "waiting"
    /\ p \notin stopEvent
    /\ worker' = [worker EXCEPT ![p] = "poll"]
    /\ UNCHANGED <<rowVars, leaving, stopEvent, listed, snapVars, owner,
                   runVars, api, faults, histVars>>

\* _confirm_stopped_if_disabled runs in a transaction that run_with_db opens
\* READ ONLY, so its update of the status is refused and swallowed.
ConfirmStopped(p) ==
    /\ worker[p] = "exiting"
    /\ worker' = [worker EXCEPT ![p] = "confirmed"]
    /\ UNCHANGED <<rowVars, leaving, stopEvent, listed, snapVars, owner,
                   runVars, api, faults, histVars>>

\* Mutant of Unregister: the thread ends without giving the ownership back.
UnregisterKeepsOwnership(p) ==
    /\ worker[p] = "confirmed"
    /\ worker' = [worker EXCEPT ![p] = "none"]
    /\ stopEvent' = stopEvent \ {p}
    /\ UNCHANGED <<rowVars, leaving, listed, snapVars, owner, runVars, api,
                   faults, histVars>>

\* The thread forgets itself; from here on the supervisor may start another.
Unregister(p) ==
    /\ worker[p] = "confirmed"
    /\ worker' = [worker EXCEPT ![p] = "none"]
    /\ stopEvent' = stopEvent \ {p}
    /\ leaving' = leaving \cup {p}
    /\ UNCHANGED <<rowVars, listed, snapVars, owner, runVars, api, faults,
                   histVars>>

Disown(p) ==
    /\ p \in leaving
    /\ leaving' = leaving \ {p}
    /\ owner' = [owner EXCEPT ![LockDir[p]] = Nobody]
    /\ UNCHANGED <<rowVars, worker, stopEvent, listed, snapVars, runVars, api,
                   faults, histVars>>

-----------------------------------------------------------------------------
(***************************************************************************)
(* Requests.                                                               *)
(***************************************************************************)

Idle(p) == p \in Apis /\ api[p].pc = "idle"

\* start_stream reads the row without a lock and writes, at commit, the
\* columns whose value it changed.
StartRead(p) ==
    /\ Idle(p)
    /\ api' = [api EXCEPT ![p] = [pc |-> "starting", sawEnabled |-> enabled,
                                  sawStatus |-> status, overtaken |-> FALSE]]
    /\ UNCHANGED <<rowVars, schedVars, snapVars, owner, runVars, faults,
                   histVars>>

\* The requests in hand once somebody has enabled the stream, or not.
Overtaken(wrote) ==
    [q \in Processes |->
       IF wrote /\ api[q].pc \in InStop
         THEN [api[q] EXCEPT !.overtaken = TRUE] ELSE api[q]]

StartWrite(p) ==
    /\ api[p].pc = "starting"
    /\ LET wrote == ~api[p].sawEnabled IN
         /\ enabled' = (enabled \/ wrote)
         /\ status' = IF api[p].sawStatus = "RUNNING" THEN status
                                                      ELSE "RUNNING"
         /\ quiet' = (quiet /\ ~wrote)
         /\ parted' = FALSE
         /\ api' = [Overtaken(wrote) EXCEPT ![p] = NoRequest]
    /\ UNCHANGED <<schedVars, snapVars, owner, runVars, faults>>

\* Mutant of Terminal: the ownership of a worker elsewhere is not looked at.
TerminalLocally(p) ==
    /\ p \notin leaked
    /\ LockDir[p] \notin runLock
    /\ worker[p] = "none"

\* _stream_runtime_is_terminal as process p sees it.
Terminal(p) ==
    /\ p \notin leaked
    /\ LockDir[p] \notin runLock
    /\ owner[LockDir[p]] = Nobody
    /\ worker[p] = "none"

\* A stop that is already confirmed returns at once.
StopRequest(p) ==
    /\ Idle(p)
    /\ ~(~enabled /\ status = "STOPPED" /\ Terminal(p))
    /\ enabled' = FALSE
    /\ status' = "STOPPING"
    /\ parted' = FALSE
    /\ api' = [api EXCEPT ![p] = [NoRequest EXCEPT !.pc = "signal"]]
    /\ UNCHANGED <<schedVars, snapVars, owner, runVars, faults, quiet>>

\* request_stream_stop reaches the worker of this process only.
StopSignal(p) ==
    /\ api[p].pc = "signal"
    /\ stopEvent' = stopEvent \cup {p}
    /\ api' = [api EXCEPT ![p].pc = "stopping"]
    /\ UNCHANGED <<rowVars, worker, leaving, listed, snapVars, owner, runVars,
                   faults, histVars>>

StopSeesTerminal(p) ==
    /\ api[p].pc = "stopping"
    /\ Terminal(p)
    /\ api' = [api EXCEPT ![p].pc = "confirming"]
    /\ UNCHANGED <<rowVars, schedVars, snapVars, owner, runVars, faults,
                   histVars>>

\* The wait is over and somebody is still there: 202, STOPPING.
StopTimesOut(p) ==
    /\ api[p].pc = "stopping"
    /\ ~Terminal(p)
    /\ api' = [api EXCEPT ![p] = NoRequest]
    /\ UNCHANGED <<rowVars, schedVars, snapVars, owner, runVars, faults,
                   histVars>>

\* 200, STOPPED.  The row is locked again, but not looked at.
StopConfirm(p) ==
    /\ api[p].pc = "confirming"
    /\ status' = "STOPPED"
    /\ quiet' = (quiet \/ ~api[p].overtaken)
    /\ api' = [api EXCEPT ![p] = NoRequest]
    /\ UNCHANGED <<enabled, schedVars, snapVars, owner, runVars, faults,
                   parted>>

\* Mutant of StopFails: the handler marks the status and leaves the gate.
StopFailsEnabled(p) ==
    /\ Idle(p) \/ api[p].pc \in InStop
    /\ \/ status' = "STOP_FAILED" /\ parted' = FALSE /\ UNCHANGED enabled
       \/ api[p].pc # "idle" /\ UNCHANGED <<rowVars, parted>>
    /\ api' = [api EXCEPT ![p] = NoRequest]
    /\ UNCHANGED <<schedVars, snapVars, owner, runVars, faults, quiet>>

\* An exception, from the first commit to the last: 409.  The handler marks
\* the row, unless that fails too.
StopFails(p) ==
    /\ Idle(p) \/ api[p].pc \in InStop
    /\ \/ enabled' = FALSE /\ status' = "STOP_FAILED" /\ parted' = FALSE
       \/ api[p].pc # "idle" /\ UNCHANGED <<rowVars, parted>>
    /\ api' = [api EXCEPT ![p] = NoRequest]
    /\ UNCHANGED <<schedVars, snapVars, owner, runVars, faults, quiet>>

\* reconcile_stale_stream_runtime, before a delete.
Reconcile(p) ==
    /\ Idle(p)
    /\ ~enabled
    /\ status \in {"RUNNING", "STOPPING"}
    /\ Terminal(p)
    /\ status' = "STOPPED"
    /\ quiet' = TRUE
    /\ UNCHANGED <<enabled, schedVars, snapVars, owner, runVars, api, faults,
                   parted>>

\* The other writers of the row: a PUT of the stream, a save of its settings
\* and a restore of an earlier configuration write enabled and leave status.
SaveConfig(p) ==
    /\ Idle(p)
    /\ enabled' \in BOOLEAN
    /\ UNCHANGED status
    /\ parted' = ~Agree'
    /\ quiet' = (quiet /\ ~enabled')
    /\ api' = Overtaken(enabled')
    /\ UNCHANGED <<schedVars, snapVars, owner, runVars, faults>>

\* Run Now asks for no enabled stream.
RunNow(p) ==
    /\ Idle(p)
    /\ api' = [api EXCEPT ![p] = [NoRequest EXCEPT !.pc = "run_loaded"]]
    /\ UNCHANGED <<rowVars, schedVars, snapVars, owner, runVars, faults,
                   histVars>>

RunNowAcquires(p) ==
    /\ api[p].pc = "run_loaded"
    /\ ThreadLockFree(p)
    /\ LockDir[p] \notin runLock
    /\ runLock' = runLock \cup {LockDir[p]}
    /\ api' = [api EXCEPT ![p].pc = "run"]
    /\ UNCHANGED <<rowVars, schedVars, snapVars, owner, leaked, faults,
                   histVars>>

RunNowAcquireFails(p) ==
    /\ api[p].pc = "run_loaded"
    /\ ThreadLockFree(p)
    /\ faults < MaxFault
    /\ faults' = faults + 1
    /\ leaked' = leaked \cup {p}
    /\ api' = [api EXCEPT ![p] = NoRequest]
    /\ UNCHANGED <<rowVars, schedVars, snapVars, owner, runLock, histVars>>

RunNowSkips(p) ==
    /\ api[p].pc = "run_loaded"
    /\ api' = [api EXCEPT ![p] = NoRequest]
    /\ UNCHANGED <<rowVars, schedVars, snapVars, owner, runVars, faults,
                   histVars>>

\* Mutant of RunNowEnds: Run Now puts an enabled stream back to work.
RunNowResumes(p, s) ==
    /\ api[p].pc = "run"
    /\ s \in {status, "PAUSED"}
    /\ status' = IF enabled THEN "RUNNING" ELSE s
    /\ runLock' = runLock \ {LockDir[p]}
    /\ api' = [api EXCEPT ![p] = NoRequest]
    /\ UNCHANGED <<enabled, schedVars, snapVars, owner, leaked, faults,
                   histVars>>

RunNowEnds(p, s) ==
    /\ api[p].pc = "run"
    /\ s \in {status, "PAUSED"}
    /\ status' = s
    /\ runLock' = runLock \ {LockDir[p]}
    /\ api' = [api EXCEPT ![p] = NoRequest]
    /\ UNCHANGED <<enabled, schedVars, snapVars, owner, leaked, faults,
                   histVars>>

\* Mutant of Crash: the ownership is a file, not a lock, and survives.
CrashKeepsOwnership(p) ==
    /\ faults < MaxFault
    /\ faults' = faults + 1
    /\ worker' = [worker EXCEPT ![p] = "none"]
    /\ leaving' = leaving \ {p}
    /\ api' = [api EXCEPT ![p] = NoRequest]
    /\ UNCHANGED <<rowVars, stopEvent, listed, snapVars, owner, runVars,
                   histVars>>

\* Process p dies and starts again; the kernel drops its file locks.
Crash(p) ==
    /\ faults < MaxFault
    /\ faults' = faults + 1
    /\ worker' = [worker EXCEPT ![p] = "none"]
    /\ leaving' = leaving \ {p}
    /\ stopEvent' = stopEvent \ {p}
    /\ listed' = listed \ {p}
    /\ gate' = gate \ {p}
    /\ fresh' = fresh \ {p}
    /\ owner' = [owner EXCEPT ![LockDir[p]] = IF @ = p THEN Nobody ELSE @]
    /\ runLock' = IF worker[p] = "running" \/ api[p].pc = "run"
                    THEN runLock \ {LockDir[p]} ELSE runLock
    /\ leaked' = leaked \ {p}
    /\ api' = [api EXCEPT ![p] = NoRequest]
    /\ UNCHANGED <<rowVars, histVars>>

-----------------------------------------------------------------------------

WorkerStep(p) ==
    \/ OwnershipBusy(p)
    \/ OwnershipError(p)
    \/ Own(p)
    \/ Poll(p)
    \/ PollUnrefreshed(p)
    \/ LoadContext(p)
    \/ ContextRefused(p)
    \/ CycleError(p)
    \/ AcquireRun(p)
    \/ AcquireRunFails(p)
    \/ SkipRun(p)
    \/ \E s \in Statuses : RunEnds(p, s)
    \/ RunRefused(p)
    \/ WaitSlice(p)
    \/ WaitUnrefreshed(p)
    \/ WaitElapses(p)
    \/ ConfirmStopped(p)
    \/ Unregister(p)

\* A request in hand runs to its response.
RequestStep(p) ==
    \/ StartWrite(p)
    \/ StopSignal(p)
    \/ StopSeesTerminal(p)
    \/ StopTimesOut(p)
    \/ StopConfirm(p)
    \/ RunNowAcquires(p)
    \/ RunNowAcquireFails(p)
    \/ RunNowSkips(p)
    \/ \E s \in Statuses : RunNowEnds(p, s)

NewRequest(p) ==
    \/ StartRead(p)
    \/ StopRequest(p)
    \/ Reconcile(p)
    \/ SaveConfig(p)
    \/ RunNow(p)

Next ==
    \E p \in Processes :
      \/ ListStreams(p)
      \/ EnsureWorker(p)
      \/ Expire(p)
      \/ SharedRefresh(p)
      \/ WorkerStep(p)
      \/ Disown(p)
      \/ NewRequest(p)
      \/ RequestStep(p)
      \/ StopFails(p)
      \/ Crash(p)

Spec == Init /\ [][Next]_vars

\* Threads keep running, the supervisor keeps its interval, a TTL runs out,
\* and a request in hand is served.  A probe holds a lock for an instant, a
\* failing cycle or refresh is tried again and the stream has an enabled route,
\* so a worker that keeps coming back gets its lock, a fresh snapshot and its
\* context.  Nothing is
\* assumed of clients.
Fairness ==
    \A p \in Processes :
      /\ WF_vars(ListStreams(p))
      /\ WF_vars(EnsureWorker(p))
      /\ WF_vars(Expire(p))
      /\ WF_vars(WorkerStep(p))
      /\ WF_vars(WaitElapses(p))
      /\ WF_vars(Disown(p))
      /\ SF_vars(Own(p))
      /\ SF_vars(Poll(p))
      /\ SF_vars(LoadContext(p))
      /\ WF_vars(RequestStep(p))

FairSpec == Spec /\ Fairness

-----------------------------------------------------------------------------
(***************************************************************************)
(* Properties.                                                             *)
(***************************************************************************)

\* Every variable keeps its type.
LifecycleTypeOK ==
    /\ enabled \in BOOLEAN
    /\ status \in Statuses
    /\ worker \in [Processes -> WorkerPCs]
    /\ leaving \subseteq Processes
    /\ stopEvent \subseteq Processes
    /\ listed \subseteq Schedulers
    /\ gate \subseteq Processes
    /\ fresh \subseteq Processes
    /\ owner \in [Dirs -> Processes \cup {Nobody}]
    /\ runLock \subseteq Dirs
    /\ leaked \subseteq Processes
    /\ api \in [Processes -> [pc : ApiPCs, sawEnabled : BOOLEAN,
                              sawStatus : Statuses, overtaken : BOOLEAN]]
    /\ faults \in Nat
    /\ quiet \in BOOLEAN
    /\ parted \in BOOLEAN

\* The worker holds what it needs to run the stream, or is running it.
WithContext == {"loaded", "running"}

\* The stop endpoint answers 200, "no local worker or run lock remains", and
\* a reconciled stream may be deleted: from then on, until it is enabled, no
\* scheduler worker has a context to run.  A supervisor with an old list, an
\* old snapshot, a context loaded just before the stop, a worker on its way
\* out and crashes included.
ConfirmedStopIsQuiet ==
    quiet => \A p \in Processes : worker[p] \notin WithContext

\* Worker threads past the ownership check, in any two processes that share
\* a lock directory, are one: between leaving Scheduler._workers and giving
\* the ownership back, a successor may be spawned but not poll.
OneWorkerPolls ==
    \A p, q \in Processes :
      /\ worker[p] \notin {"none", "spawned"}
      /\ worker[q] \notin {"none", "spawned"} \/ q \in leaving
      /\ LockDir[p] = LockDir[q]
      => p = q /\ p \notin leaving

\* When one process serves the requests, enabled and status disagree only as
\* a save of the configuration, or the creation, left them: whatever a run's
\* flush, a crashed request, a timed-out or a failing stop left in the row
\* agrees, and a Start or a Stop puts a parted row right.
EnabledAgreesWithStatus == parted \/ Agree

\* A Start whose row was changed between its read and its write.
StaleStart(p) ==
    /\ api[p].pc = "starting"
    /\ api[p].sawEnabled # enabled \/ api[p].sawStatus # status

\* A Stop about to confirm that a Start, or a save that enabled the stream,
\* overtook.
OvertakenStop(p) == api[p].pc = "confirming" /\ api[p].overtaken

\* With several API processes the columns come to disagree only by a save of
\* the configuration, which leaves the status as it is, or when a Start meets
\* another request: the Start read the row before the other wrote it, or wrote
\* it between the two commits of a Stop.
DisagreementNeedsRace ==
    [][Agree /\ ~Agree' =>
         \E p \in Processes :
           StaleStart(p) \/ OvertakenStop(p) \/ SaveConfig(p)]_vars

\* A stream that was stopped, or that a run paused or found rate limited, is
\* polled again only after a Start: no run, Run Now, reconcile, failed stop,
\* save of its configuration or restart of a process brings it back.  (A save
\* brings back only a stream that a save took away, whose status still says
\* RUNNING.)
OnlyStartResumes ==
    [][status # "RUNNING" /\ Runnable' =>
         \E p \in Processes :
           api[p].pc = "starting" /\ api'[p].pc = "idle"]_vars

\* A disabled stream loses its worker, whether or not the stop event of the
\* worker's process was set: the ownership is given back, or the stream is
\* enabled again.
WorkerLeavesDisabledStream ==
    \A d \in Dirs : ~enabled ~> (enabled \/ owner[d] = Nobody)

\* A started stream is polled by some worker, unless it is stopped or one of
\* its runs changes its status: old snapshots, probed locks, lost workers and
\* busy owners delay the poll and do not prevent it.
StartedStreamIsPolled ==
    Runnable ~> (~Runnable \/ \E p \in Processes : worker[p] \in WithContext)

-----------------------------------------------------------------------------
(***************************************************************************)
(* Promises the documents make and the code does not keep.                 *)
(***************************************************************************)

\* _confirm_stopped_if_disabled: "When stop left the row STOPPING, confirm
\* STOPPED after ownership ends."  A worker on its way out of a stream that
\* is being stopped sees to it.
LeavingWorkerConfirmsStop ==
    (/\ ~enabled /\ status = "STOPPING"
     /\ \E p \in Processes : worker[p] = "exiting")
      ~> status # "STOPPING"

\* runtime_eligibility: START leaves enabled=true, status=RUNNING; STOP
\* leaves enabled=false, status=STOPPED.  A stopped stream is disabled, unless
\* a save of its configuration or its creation enabled it.
StoppedMeansDisabled == status = "STOPPED" /\ ~parted => ~enabled
=============================================================================
