----------------------- MODULE StreamLifecycleProofs -----------------------
(***************************************************************************)
(* Proofs about StreamLifecycle, for any number of processes.              *)
(*                                                                         *)
(* OwnerInv ties a polling worker to the ownership lock of its directory.  *)
(* QuietInv carries a stop from its request to its confirmation: while no  *)
(* Start or save enabled it the stream stays disabled, so no worker can    *)
(* load a context, and once the stop saw nobody in charge none is left     *)
(* with one.  That last step needs every process to see the same lock      *)
(* directory.                                                              *)
(***************************************************************************)
EXTENDS StreamLifecycle, TLAPS

ApiType == [pc : ApiPCs, sawEnabled : BOOLEAN, sawStatus : Statuses,
            overtaken : BOOLEAN]

Polls(p) == worker[p] \notin {"none", "spawned"}

OwnerInv ==
    \A p \in Processes :
      /\ Polls(p) \/ p \in leaving => owner[LockDir[p]] = p
      /\ Polls(p) => p \notin leaving

NoContext == \A p \in Processes : worker[p] \notin WithContext

QuietInv ==
    /\ quiet => ~enabled /\ NoContext
    /\ \A p \in Processes :
         api[p].pc \in InStop /\ ~api[p].overtaken =>
           /\ ~enabled
           /\ api[p].pc = "confirming" => NoContext

\* Every process uses the same lock directory, as on a single host.
OneLockDir == \A p, q \in Processes : LockDir[p] = LockDir[q]

\* A read of the snapshot leaves it with known processes only.
LEMMA ReadGateType ==
  ASSUME LifecycleTypeOK, NEW p \in Processes, ReadGate(p)
  PROVE  gate' \subseteq Processes /\ fresh' \subseteq Processes
BY DEF LifecycleTypeOK, ReadGate

\* A supervisor's or a snapshot's step keeps the types.
LEMMA SupervisorType ==
  ASSUME LifecycleTypeOK, NEW p \in Processes,
         ListStreams(p) \/ EnsureWorker(p) \/ Expire(p) \/ SharedRefresh(p)
  PROVE  LifecycleTypeOK'
<1>1. CASE ListStreams(p)
  BY <1>1 DEF LifecycleTypeOK, ListStreams, rowVars, snapVars, runVars,
      histVars
<1>2. CASE EnsureWorker(p)
  BY <1>2, LifecycleAssumption
     DEF LifecycleTypeOK, EnsureWorker, rowVars, snapVars, runVars, histVars,
         WorkerPCs
<1>3. CASE Expire(p)
  BY <1>3 DEF LifecycleTypeOK, Expire, rowVars, schedVars, runVars, histVars
<1>4. CASE SharedRefresh(p)
  BY <1>4, ReadGateType
     DEF LifecycleTypeOK, SharedRefresh, rowVars, schedVars, runVars, histVars
<1> QED BY <1>1, <1>2, <1>3, <1>4

\* A worker's step keeps the types.
LEMMA WorkerType ==
  ASSUME LifecycleTypeOK, NEW p \in Processes, WorkerStep(p) \/ Disown(p)
  PROVE  LifecycleTypeOK'
<1> USE DEF LifecycleTypeOK, rowVars, snapVars, runVars, histVars, WorkerPCs
<1>d. LockDir[p] \in Dirs BY DEF Dirs
<1>1. CASE OwnershipBusy(p) BY <1>1 DEF OwnershipBusy
<1>2. CASE Own(p) BY <1>2, <1>d DEF Own
<1>3. CASE Poll(p) BY <1>3, ReadGateType DEF Poll
<1>4. CASE LoadContext(p) BY <1>4 DEF LoadContext
<1>5. CASE ContextRefused(p) BY <1>5 DEF ContextRefused
<1>6. CASE CycleError(p) BY <1>6 DEF CycleError
<1>7. CASE AcquireRun(p) BY <1>7, <1>d DEF AcquireRun
<1>8. CASE SkipRun(p) BY <1>8 DEF SkipRun
<1>9. ASSUME NEW s \in Statuses, RunEnds(p, s) PROVE LifecycleTypeOK'
  BY <1>9 DEF RunEnds
<1>10. CASE RunRefused(p) BY <1>10 DEF RunRefused
<1>11. CASE WaitSlice(p) BY <1>11, ReadGateType DEF WaitSlice
<1>12. CASE WaitElapses(p) BY <1>12 DEF WaitElapses
<1>13. CASE ConfirmStopped(p) BY <1>13 DEF ConfirmStopped
<1>14. CASE Unregister(p) BY <1>14 DEF Unregister
<1>15. CASE Disown(p) BY <1>15, <1>d DEF Disown
<1>16. CASE PollUnrefreshed(p) BY <1>16 DEF PollUnrefreshed
<1>17. CASE WaitUnrefreshed(p) BY <1>17 DEF WaitUnrefreshed
<1>18. CASE OwnershipError(p) BY <1>18 DEF OwnershipError
<1>19. CASE AcquireRunFails(p) BY <1>19 DEF AcquireRunFails
<1> QED
  BY <1>1, <1>2, <1>3, <1>4, <1>5, <1>6, <1>7, <1>8, <1>9, <1>10, <1>11,
     <1>12, <1>13, <1>14, <1>15, <1>16, <1>17, <1>18, <1>19 DEF WorkerStep

\* The empty request, and one whose program counter changed, are requests.
LEMMA RequestRecords ==
  ASSUME LifecycleTypeOK, NEW p \in Processes, NEW c \in ApiPCs
  PROVE  /\ NoRequest \in ApiType
         /\ [NoRequest EXCEPT !.pc = c] \in ApiType
         /\ [api[p] EXCEPT !.pc = c] \in ApiType
         /\ [api[p] EXCEPT !.overtaken = TRUE] \in ApiType
BY DEF LifecycleTypeOK, ApiType, NoRequest, ApiPCs, Statuses

\* A request's step keeps the types.
LEMMA RequestType ==
  ASSUME LifecycleTypeOK, NEW p \in Processes,
         NewRequest(p) \/ RequestStep(p) \/ StopFails(p)
  PROVE  LifecycleTypeOK'
<1> USE DEF LifecycleTypeOK, rowVars, schedVars, snapVars, runVars, histVars
<1>a. api \in [Processes -> ApiType] BY DEF ApiType
<1>r. \A q \in Processes, c \in ApiPCs :
        /\ NoRequest \in ApiType
        /\ [NoRequest EXCEPT !.pc = c] \in ApiType
        /\ [api[q] EXCEPT !.pc = c] \in ApiType
  BY RequestRecords
<1>o. \A b : Overtaken(b) \in [Processes -> ApiType]
  <2>1. \A q \in Processes : [api[q] EXCEPT !.overtaken = TRUE] \in ApiType
    BY RequestRecords DEF ApiPCs
  <2> QED BY <1>a, <2>1 DEF Overtaken
<1>c. /\ {"idle", "starting", "signal", "stopping", "confirming",
         "run_loaded", "run"} = ApiPCs
      /\ {"RUNNING", "STOPPING", "STOPPED", "STOP_FAILED"} \subseteq Statuses
  BY DEF ApiPCs, Statuses
<1>d. LockDir[p] \in Dirs BY DEF Dirs
<1>s. SUFFICES /\ enabled' \in BOOLEAN /\ status' \in Statuses
               /\ stopEvent' \subseteq Processes
               /\ runLock' \subseteq Dirs /\ leaked' \subseteq Processes
               /\ api' \in [Processes -> ApiType]
               /\ quiet' \in BOOLEAN /\ parted' \in BOOLEAN
               /\ faults' \in Nat
               /\ UNCHANGED <<worker, leaving, listed, gate, fresh, owner>>
  BY DEF ApiType
<1>1. CASE StartRead(p)
  <2>1. [pc |-> "starting", sawEnabled |-> enabled, sawStatus |-> status,
         overtaken |-> FALSE] \in ApiType
    BY <1>c DEF ApiType
  <2> QED BY <1>1, <1>a, <2>1 DEF StartRead
<1>2. CASE StopRequest(p) BY <1>2, <1>a, <1>r, <1>c DEF StopRequest
<1>3. CASE Reconcile(p) BY <1>3, <1>a, <1>c DEF Reconcile
<1>4. CASE RunNow(p) BY <1>4, <1>a, <1>r, <1>c DEF RunNow
<1>5. CASE StartWrite(p)
  <2>1. api' = [Overtaken(~api[p].sawEnabled) EXCEPT ![p] = NoRequest]
    BY <1>5 DEF StartWrite
  <2>2. api' \in [Processes -> ApiType]
    BY <2>1, <1>o, <1>r, <1>c
  <2> QED BY <1>5, <1>c, <2>2 DEF StartWrite
<1>6. CASE StopSignal(p) BY <1>6, <1>a, <1>r, <1>c DEF StopSignal
<1>7. CASE StopSeesTerminal(p) BY <1>7, <1>a, <1>r, <1>c DEF StopSeesTerminal
<1>8. CASE StopTimesOut(p) BY <1>8, <1>a, <1>r, <1>c DEF StopTimesOut
<1>9. CASE StopConfirm(p) BY <1>9, <1>a, <1>r, <1>c DEF StopConfirm
<1>10. CASE RunNowAcquires(p)
  BY <1>10, <1>a, <1>r, <1>c, <1>d DEF RunNowAcquires
<1>11. CASE RunNowSkips(p) BY <1>11, <1>a, <1>r, <1>c DEF RunNowSkips
<1>12. ASSUME NEW s \in Statuses, RunNowEnds(p, s)
       PROVE  /\ enabled' \in BOOLEAN /\ status' \in Statuses
              /\ stopEvent' \subseteq Processes
              /\ runLock' \subseteq Dirs /\ leaked' \subseteq Processes
              /\ api' \in [Processes -> ApiType]
              /\ quiet' \in BOOLEAN /\ parted' \in BOOLEAN
              /\ faults' \in Nat
              /\ UNCHANGED <<worker, leaving, listed, gate, fresh, owner>>
  BY <1>12, <1>a, <1>r, <1>c DEF RunNowEnds
<1>13. CASE StopFails(p) BY <1>13, <1>a, <1>r, <1>c DEF StopFails
<1>14. CASE RunNowAcquireFails(p)
  <2>1. faults' \in Nat /\ leaked' \subseteq Processes
    BY <1>14 DEF RunNowAcquireFails
  <2>2. api' \in [Processes -> ApiType]
    BY <1>14, <1>a, <1>r, <1>c DEF RunNowAcquireFails
  <2> QED BY <1>14, <2>1, <2>2 DEF RunNowAcquireFails
<1>15. CASE SaveConfig(p)
  <2>1. enabled' \in BOOLEAN /\ quiet' \in BOOLEAN /\ parted' \in BOOLEAN
    BY <1>15, Zenon DEF SaveConfig
  <2>2. api' \in [Processes -> ApiType]
    BY <1>15, <1>o DEF SaveConfig
  <2> QED BY <1>15, <2>1, <2>2 DEF SaveConfig
<1> QED
  BY <1>1, <1>2, <1>3, <1>4, <1>5, <1>6, <1>7, <1>8, <1>9, <1>10, <1>11,
     <1>12, <1>13, <1>14, <1>15 DEF NewRequest, RequestStep

\* A crash keeps the types.
LEMMA CrashType ==
  ASSUME LifecycleTypeOK, NEW p \in Processes, Crash(p)
  PROVE  LifecycleTypeOK'
<1>1. NoRequest \in ApiType BY RequestRecords DEF ApiPCs
<1>2. LockDir[p] \in Dirs BY DEF Dirs
<1> QED BY <1>1, <1>2
        DEF LifecycleTypeOK, Crash, rowVars, histVars, ApiType, WorkerPCs

\* Every variable of StreamLifecycle keeps its type.
THEOREM LifecycleTypeCorrect == Spec => []LifecycleTypeOK
<1>1. Init => LifecycleTypeOK
  <2> SUFFICES ASSUME Init PROVE LifecycleTypeOK
    OBVIOUS
  <2>1. enabled \in BOOLEAN /\ quiet \in BOOLEAN /\ parted \in BOOLEAN
    BY Zenon DEF Init
  <2>2. NoRequest \in [pc : ApiPCs, sawEnabled : BOOLEAN,
                       sawStatus : Statuses, overtaken : BOOLEAN]
    BY DEF NoRequest, ApiPCs, Statuses
  <2>3. /\ status \in Statuses
        /\ worker \in [Processes -> WorkerPCs]
        /\ owner \in [Dirs -> Processes \cup {Nobody}]
        /\ api \in [Processes -> [pc : ApiPCs, sawEnabled : BOOLEAN,
                                  sawStatus : Statuses, overtaken : BOOLEAN]]
        /\ faults \in Nat
    BY <2>2 DEF Init, WorkerPCs, Statuses
  <2>4. /\ leaving = {} /\ stopEvent = {} /\ listed = {} /\ gate = {}
        /\ fresh = {} /\ runLock = {} /\ leaked = {}
    BY DEF Init
  <2> QED BY <2>1, <2>3, <2>4 DEF LifecycleTypeOK
<1>2. LifecycleTypeOK /\ [Next]_vars => LifecycleTypeOK'
  <2>1. CASE UNCHANGED vars
    BY <2>1 DEF LifecycleTypeOK, vars, rowVars, schedVars, snapVars, runVars,
                histVars
  <2>2. CASE Next
    BY <2>2, SupervisorType, WorkerType, RequestType, CrashType DEF Next
  <2> QED BY <2>1, <2>2
<1> QED BY <1>1, <1>2, PTL DEF Spec

-----------------------------------------------------------------------------

\* The owner of a lock directory is the one worker that polls, or the one on
\* its way out: what Own, Unregister, Disown and Crash keep between them.
LEMMA OwnerStep ==
  ASSUME LifecycleTypeOK, OwnerInv, [Next]_vars
  PROVE  OwnerInv'
<1> USE LifecycleAssumption DEF OwnerInv, Polls
<1>0. CASE UNCHANGED <<worker, leaving, owner>> BY <1>0
<1> SUFFICES ASSUME NEW p \in Processes,
                    \/ ListStreams(p) \/ EnsureWorker(p) \/ Expire(p)
                    \/ SharedRefresh(p) \/ WorkerStep(p) \/ Disown(p)
                    \/ NewRequest(p) \/ RequestStep(p) \/ StopFails(p)
                    \/ Crash(p)
             PROVE  OwnerInv'
  BY <1>0 DEF Next, vars, schedVars
<1> USE DEF LifecycleTypeOK
<1>d. LockDir[p] \in Dirs /\ owner[LockDir[p]] \in Processes \cup {Nobody}
  BY DEF Dirs
<1>1. CASE ListStreams(p) \/ Expire(p) \/ SharedRefresh(p) \/ NewRequest(p)
           \/ RequestStep(p) \/ StopFails(p)
  BY <1>0, <1>1 DEF ListStreams, Expire, SharedRefresh, NewRequest,
      RequestStep, StopFails, StartRead, StopRequest, Reconcile, SaveConfig,
      RunNow, StartWrite, StopSignal, StopSeesTerminal, StopTimesOut,
      StopConfirm, RunNowAcquires, RunNowAcquireFails, RunNowSkips,
      RunNowEnds, schedVars
<1>2. CASE EnsureWorker(p) BY <1>2 DEF EnsureWorker
<1>3. CASE WorkerStep(p) /\ ~Own(p) /\ ~Unregister(p)
  <2>1. UNCHANGED <<owner, leaving>>
    BY <1>3 DEF WorkerStep, OwnershipBusy, OwnershipError, Poll,
        PollUnrefreshed, LoadContext, ContextRefused, CycleError, AcquireRun,
        AcquireRunFails, SkipRun, RunEnds, RunRefused, WaitSlice,
        WaitUnrefreshed, WaitElapses, ConfirmStopped
  <2>2. \A q \in Processes : Polls(q)' => Polls(q)
    BY <1>3 DEF WorkerStep, OwnershipBusy, OwnershipError, Poll,
        PollUnrefreshed, LoadContext, ContextRefused, CycleError, AcquireRun,
        AcquireRunFails, SkipRun, RunEnds, RunRefused, WaitSlice,
        WaitUnrefreshed, WaitElapses, ConfirmStopped
  <2> QED BY <2>1, <2>2
<1>4. CASE Own(p)
  <2>1. \A q \in Processes :
          LockDir[q] = LockDir[p] => ~Polls(q) /\ q \notin leaving
    BY <1>4 DEF Own
  <2>2. /\ owner' = [owner EXCEPT ![LockDir[p]] = p]
        /\ worker' = [worker EXCEPT ![p] = "poll"]
        /\ leaving' = leaving
    BY <1>4 DEF Own
  <2>3. \A q \in Processes : LockDir[q] \in Dirs
    BY DEF Dirs
  <2> QED BY <2>1, <2>2, <2>3, <1>d
<1>5. CASE Unregister(p) BY <1>5 DEF Unregister
<1>6. CASE Disown(p)
  <2>1. owner[LockDir[p]] = p /\ ~Polls(p)
    BY <1>6 DEF Disown
  <2>2. \A q \in Processes \ {p} :
          LockDir[q] = LockDir[p] => ~Polls(q) /\ q \notin leaving
    BY <2>1
  <2>3. \A q \in Processes : LockDir[q] \in Dirs
    BY DEF Dirs
  <2> QED BY <1>6, <2>1, <2>2, <2>3 DEF Disown
<1>7. CASE Crash(p)
  <2>1. \A q \in Processes : LockDir[q] \in Dirs
    BY DEF Dirs
  <2>2. \A q \in Processes \ {p} :
          owner[LockDir[q]] = q => owner'[LockDir[q]] = q
    BY <1>7, <2>1 DEF Crash
  <2>3. ~Polls(p)' /\ p \notin leaving'
    BY <1>7 DEF Crash
  <2> QED BY <1>7, <2>2, <2>3 DEF Crash
<1> QED BY <1>1, <1>2, <1>3, <1>4, <1>5, <1>6, <1>7

\* The ownership invariant holds of every behaviour.
LEMMA Owned == Spec => []OwnerInv
<1>1. Init => OwnerInv
  BY DEF Init, OwnerInv, Polls
<1> QED BY <1>1, OwnerStep, LifecycleTypeCorrect, PTL DEF Spec

\* At most one worker thread of the processes that share a lock directory
\* polls the stream, whatever the supervisors, clients and crashes do.
THEOREM OneWorker == Spec => []OneWorkerPolls
<1>1. OwnerInv => OneWorkerPolls
  BY DEF OwnerInv, Polls, OneWorkerPolls
<1> QED BY <1>1, Owned, PTL

-----------------------------------------------------------------------------

\* With one lock directory, a process that finds nobody in charge is right:
\* no worker, in any process, has a context.
LEMMA TerminalMeansNoContext ==
  ASSUME OneLockDir, OwnerInv, NEW p \in Processes, Terminal(p)
  PROVE  NoContext
BY LifecycleAssumption
   DEF OneLockDir, OwnerInv, Polls, Terminal, NoContext, WithContext

\* Every step keeps an accepted stop on its way to being quiet.
LEMMA QuietStep ==
  ASSUME OneLockDir, LifecycleTypeOK, OwnerInv, QuietInv, [Next]_vars
  PROVE  QuietInv'
<1> USE DEF QuietInv, NoContext, InStop
<1>0. CASE UNCHANGED <<enabled, worker, api, quiet>> BY <1>0
<1> USE DEF histVars
<1> SUFFICES ASSUME NEW p \in Processes,
                    \/ ListStreams(p) \/ EnsureWorker(p) \/ Expire(p)
                    \/ SharedRefresh(p) \/ WorkerStep(p) \/ Disown(p)
                    \/ NewRequest(p) \/ RequestStep(p) \/ StopFails(p)
                    \/ Crash(p)
             PROVE  QuietInv'
  BY <1>0 DEF Next, vars, rowVars, schedVars
<1> USE DEF LifecycleTypeOK
<1>1. CASE ListStreams(p) \/ Expire(p) \/ SharedRefresh(p) \/ Disown(p)
  BY <1>0, <1>1
     DEF ListStreams, Expire, SharedRefresh, Disown, rowVars, schedVars
<1>2. CASE EnsureWorker(p)
  BY <1>2 DEF EnsureWorker, rowVars, WithContext
<1>3. CASE WorkerStep(p)
  <2>1. UNCHANGED <<enabled, api, quiet>>
    BY <1>3 DEF WorkerStep, OwnershipBusy, OwnershipError, Own, Poll,
        PollUnrefreshed, LoadContext, ContextRefused, CycleError, AcquireRun,
        AcquireRunFails, SkipRun, RunEnds, RunRefused, WaitSlice,
        WaitUnrefreshed, WaitElapses, ConfirmStopped, Unregister, rowVars
  <2>2. CASE LoadContext(p)
    BY <2>1, <2>2 DEF LoadContext
  <2>3. CASE ~LoadContext(p)
    <3>1. \A q \in Processes :
            worker'[q] \in WithContext => worker[q] \in WithContext
      BY <1>3, <2>3 DEF WorkerStep, OwnershipBusy, OwnershipError, Own, Poll,
          PollUnrefreshed, ContextRefused, CycleError, AcquireRun,
          AcquireRunFails, SkipRun, RunEnds, RunRefused, WaitSlice,
          WaitUnrefreshed, WaitElapses, ConfirmStopped, Unregister,
          WithContext
    <3> QED BY <2>1, <3>1
  <2> QED BY <2>2, <2>3
<1>4. CASE StartWrite(p)
  <2>1. CASE api[p].sawEnabled
    <3>1. /\ enabled' = enabled /\ quiet' = quiet /\ worker' = worker
          /\ api'[p] = NoRequest
          /\ \A q \in Processes \ {p} :
               /\ api'[q].pc = api[q].pc
               /\ api'[q].overtaken = api[q].overtaken
      BY <1>4, <2>1 DEF StartWrite, Overtaken, schedVars
    <3> QED BY <3>1 DEF NoRequest
  <2>2. CASE ~api[p].sawEnabled
    <3>1. /\ quiet' = FALSE
          /\ api'[p] = NoRequest
          /\ \A q \in Processes \ {p} :
               api'[q].pc \in InStop => api'[q].overtaken
      BY <1>4, <2>2 DEF StartWrite, Overtaken
    <3> QED BY <3>1 DEF NoRequest
  <2> QED BY <2>1, <2>2
<1>5. CASE StartRead(p) \/ RunNow(p) \/ RunNowAcquires(p) \/ RunNowSkips(p)
           \/ RunNowAcquireFails(p)
           \/ (\E s \in Statuses : RunNowEnds(p, s)) \/ StopTimesOut(p)
  <2>1. /\ UNCHANGED <<enabled, worker, quiet>>
        /\ api'[p].pc \notin InStop
        /\ \A q \in Processes \ {p} : api'[q] = api[q]
    BY <1>5 DEF StartRead, RunNow, RunNowAcquires, RunNowAcquireFails,
        RunNowSkips, RunNowEnds, StopTimesOut, rowVars, schedVars, NoRequest
  <2> QED BY <2>1
<1>6. CASE StopRequest(p)
  BY <1>6 DEF StopRequest, schedVars, NoRequest
<1>7. CASE StopSignal(p)
  BY <1>7 DEF StopSignal, rowVars
<1>8. CASE StopSeesTerminal(p)
  <2>1. NoContext
    BY <1>8, TerminalMeansNoContext DEF StopSeesTerminal
  <2> QED BY <1>8, <2>1 DEF StopSeesTerminal, rowVars, schedVars
<1>9. CASE StopConfirm(p)
  BY <1>9 DEF StopConfirm, schedVars, NoRequest
<1>10. CASE StopFails(p)
  BY <1>10 DEF StopFails, rowVars, schedVars, NoRequest
<1>11. CASE Reconcile(p)
  <2>1. NoContext
    BY <1>11, TerminalMeansNoContext DEF Reconcile
  <2> QED BY <1>11, <2>1 DEF Reconcile, schedVars
<1>12. CASE Crash(p)
  BY <1>12 DEF Crash, rowVars, NoRequest, WithContext
<1>13. CASE SaveConfig(p)
  <2>1. CASE enabled'
    <3>1. quiet' = FALSE
      BY <1>13, <2>1 DEF SaveConfig
    <3>2. \A q \in Processes : api'[q].pc \in InStop => api'[q].overtaken
      BY <1>13, <2>1 DEF SaveConfig, Overtaken
    <3> QED BY <3>1, <3>2
  <2>2. CASE ~enabled'
    <3>1. /\ UNCHANGED worker /\ (quiet' => quiet)
          /\ \A q \in Processes : api'[q] = api[q]
      BY <1>13, <2>2 DEF SaveConfig, Overtaken, schedVars
    <3> QED BY <2>2, <3>1
  <2> QED BY <2>1, <2>2
<1> QED
  BY <1>1, <1>2, <1>3, <1>4, <1>5, <1>6, <1>7, <1>8, <1>9, <1>10, <1>11,
     <1>12, <1>13 DEF NewRequest, RequestStep

\* When all processes share one lock directory, a confirmed stop is quiet:
\* from the 200 of the stop endpoint (or a reconcile) until a Start or a save
\* enables the stream, no scheduler worker holds a context to run.
THEOREM StopIsQuiet == ASSUME OneLockDir PROVE Spec => []ConfirmedStopIsQuiet
<1>1. Init => QuietInv
  BY DEF Init, QuietInv, NoContext, InStop, NoRequest
<1>2. QuietInv => ConfirmedStopIsQuiet
  BY DEF QuietInv, NoContext, ConfirmedStopIsQuiet
<1>3. LifecycleTypeOK /\ OwnerInv /\ QuietInv /\ [Next]_vars => QuietInv'
  BY QuietStep
<1> QED BY <1>1, <1>2, <1>3, LifecycleTypeCorrect, Owned, PTL DEF Spec

-----------------------------------------------------------------------------
(***************************************************************************)
(* The two columns of the row.                                             *)
(***************************************************************************)

RowActions(p) ==
    \/ \E s \in Statuses : RunEnds(p, s) \/ RunNowEnds(p, s)
    \/ StartWrite(p) \/ StopRequest(p) \/ StopConfirm(p) \/ StopFails(p)
    \/ Reconcile(p) \/ SaveConfig(p)

\* The steps that may write the row, and what the others leave alone.
LEMMA RowSteps ==
  ASSUME [Next]_vars
  PROVE  (\E p \in Processes : RowActions(p)) \/ UNCHANGED rowVars
<1>1. CASE UNCHANGED vars BY <1>1 DEF vars
<1>2. ASSUME NEW p \in Processes,
             ListStreams(p) \/ EnsureWorker(p) \/ Expire(p) \/ SharedRefresh(p)
               \/ Disown(p) \/ Crash(p)
      PROVE  UNCHANGED rowVars
  BY <1>2 DEF ListStreams, EnsureWorker, Expire, SharedRefresh, Disown, Crash
<1>3. ASSUME NEW p \in Processes, WorkerStep(p)
      PROVE  (\E s \in Statuses : RunEnds(p, s)) \/ UNCHANGED rowVars
  BY <1>3 DEF WorkerStep, OwnershipBusy, OwnershipError, Own, Poll,
      PollUnrefreshed, LoadContext, ContextRefused, CycleError, AcquireRun,
      AcquireRunFails, SkipRun, RunRefused, WaitSlice, WaitUnrefreshed,
      WaitElapses, ConfirmStopped, Unregister
<1>4. ASSUME NEW p \in Processes, NewRequest(p) \/ RequestStep(p) \/ StopFails(p)
      PROVE  RowActions(p) \/ UNCHANGED rowVars
  BY <1>4 DEF NewRequest, RequestStep, RowActions, StartRead, RunNow,
      StopSignal, StopSeesTerminal, StopTimesOut, RunNowAcquires,
      RunNowAcquireFails, RunNowSkips
<1> QED BY <1>1, <1>2, <1>3, <1>4 DEF Next, RowActions

\* A stop that nothing has overtaken keeps the stream disabled.
StopHolds ==
    \A p \in Processes :
      api[p].pc \in InStop /\ ~api[p].overtaken => ~enabled

\* StopHolds is kept, whatever the lock directories are.
LEMMA StopHoldsStep ==
  ASSUME LifecycleTypeOK, StopHolds, [Next]_vars
  PROVE  StopHolds'
<1> USE DEF StopHolds, InStop
<1>0. CASE UNCHANGED <<enabled, api>> BY <1>0
<1> SUFFICES ASSUME NEW p \in Processes,
                    WorkerStep(p) \/ NewRequest(p) \/ RequestStep(p)
                      \/ StopFails(p) \/ Crash(p)
             PROVE  StopHolds'
  BY <1>0 DEF Next, vars, rowVars, ListStreams, EnsureWorker, Expire,
              SharedRefresh, Disown
<1> USE DEF LifecycleTypeOK
<1>1. CASE WorkerStep(p)
  <2>1. UNCHANGED <<enabled, api>>
    BY <1>1 DEF WorkerStep, OwnershipBusy, OwnershipError, Own, Poll,
        PollUnrefreshed, LoadContext, ContextRefused, CycleError, AcquireRun,
        AcquireRunFails, SkipRun, RunEnds, RunRefused, WaitSlice,
        WaitUnrefreshed, WaitElapses, ConfirmStopped, Unregister, rowVars
  <2> QED BY <1>0, <2>1
<1>2. CASE StartWrite(p)
  <2>1. CASE api[p].sawEnabled
    <3>1. /\ enabled' = enabled
          /\ api'[p] = NoRequest
          /\ \A q \in Processes \ {p} :
               /\ api'[q].pc = api[q].pc
               /\ api'[q].overtaken = api[q].overtaken
      BY <1>2, <2>1 DEF StartWrite, Overtaken
    <3> QED BY <3>1 DEF NoRequest
  <2>2. CASE ~api[p].sawEnabled
    <3>1. /\ api'[p] = NoRequest
          /\ \A q \in Processes \ {p} :
               api'[q].pc \in InStop => api'[q].overtaken
      BY <1>2, <2>2 DEF StartWrite, Overtaken
    <3> QED BY <3>1 DEF NoRequest
  <2> QED BY <2>1, <2>2
<1>3. CASE \/ StartRead(p) \/ RunNow(p) \/ RunNowAcquires(p) \/ RunNowSkips(p)
           \/ RunNowAcquireFails(p)
           \/ (\E s \in Statuses : RunNowEnds(p, s)) \/ StopTimesOut(p)
           \/ StopConfirm(p) \/ Crash(p)
  <2>1. /\ enabled' = enabled
        /\ api'[p].pc \notin InStop
        /\ \A q \in Processes \ {p} : api'[q] = api[q]
    BY <1>3 DEF StartRead, RunNow, RunNowAcquires, RunNowAcquireFails,
        RunNowSkips, RunNowEnds, StopTimesOut, StopConfirm, Crash, rowVars,
        NoRequest
  <2> QED BY <2>1
<1>4. CASE StopRequest(p) BY <1>4 DEF StopRequest
<1>5. CASE StopSignal(p) \/ StopSeesTerminal(p)
  <2>1. /\ enabled' = enabled
        /\ api[p].pc \in InStop
        /\ api'[p].overtaken = api[p].overtaken
        /\ \A q \in Processes \ {p} : api'[q] = api[q]
    BY <1>5 DEF StopSignal, StopSeesTerminal, rowVars
  <2> QED BY <2>1
<1>6. CASE StopFails(p)
  BY <1>6 DEF StopFails, rowVars, NoRequest
<1>7. CASE Reconcile(p) BY <1>7 DEF Reconcile
<1>8. CASE SaveConfig(p)
  <2>1. CASE enabled'
    <3>1. \A q \in Processes : api'[q].pc \in InStop => api'[q].overtaken
      BY <1>8, <2>1 DEF SaveConfig, Overtaken
    <3> QED BY <3>1
  <2>2. CASE ~enabled' BY <2>2
  <2> QED BY <2>1, <2>2
<1> QED BY <1>1, <1>2, <1>3, <1>4, <1>5, <1>6, <1>7, <1>8
        DEF NewRequest, RequestStep

\* StopHolds holds throughout.
LEMMA StopHoldsAlways == Spec => []StopHolds
<1>1. Init => StopHolds BY DEF Init, StopHolds, InStop, NoRequest
<1> QED BY <1>1, StopHoldsStep, LifecycleTypeCorrect, PTL DEF Spec

\* A run's flush leaves the row in agreement, and so does every request that
\* is neither a Start with an old view, nor a Stop that was overtaken, nor a
\* save of the configuration.
LEMMA AgreementStep ==
  ASSUME LifecycleTypeOK, StopHolds, Agree, [Next]_vars,
         \A p \in Processes :
           ~StaleStart(p) /\ ~OvertakenStop(p) /\ ~SaveConfig(p)
  PROVE  Agree'
<1> USE DEF Agree, LifecycleTypeOK
<1>1. CASE UNCHANGED rowVars BY <1>1 DEF rowVars
<1>2. ASSUME NEW p \in Processes, NEW s \in Statuses,
             RunEnds(p, s) \/ RunNowEnds(p, s)
      PROVE  Agree'
  BY <1>2 DEF RunEnds, RunNowEnds
<1>3. ASSUME NEW p \in Processes, StartWrite(p) PROVE Agree'
  <2>1. api[p].sawEnabled = enabled /\ api[p].sawStatus = status
    BY <1>3 DEF StartWrite, StaleStart
  <2>2. enabled' /\ status' = "RUNNING" BY <1>3, <2>1 DEF StartWrite
  <2> QED BY <2>2
<1>4. ASSUME NEW p \in Processes, StopConfirm(p) PROVE Agree'
  <2>1. ~enabled BY <1>4 DEF StopConfirm, OvertakenStop, StopHolds, InStop
  <2> QED BY <1>4, <2>1 DEF StopConfirm
<1>5. ASSUME NEW p \in Processes, StopRequest(p) \/ StopFails(p) \/ Reconcile(p)
      PROVE  Agree'
  BY <1>5 DEF StopRequest, StopFails, Reconcile, rowVars
<1> QED BY <1>1, <1>2, <1>3, <1>4, <1>5, RowSteps DEF RowActions

\* With any number of API processes, enabled and status come to disagree only
\* by a Start that reads before, or writes within, another request
\* (start_stream, stop_stream), or by a save of the configuration
\* (update_stream, save_runtime_stream_ui_config, apply_stream_config).
THEOREM RaceNeeded == Spec => DisagreementNeedsRace
<1>1. LifecycleTypeOK /\ StopHolds /\ [Next]_vars
        => [Agree /\ ~Agree' =>
              \E p \in Processes :
                StaleStart(p) \/ OvertakenStop(p) \/ SaveConfig(p)]_vars
  BY AgreementStep
<1> QED BY <1>1, LifecycleTypeCorrect, StopHoldsAlways, PTL
        DEF Spec, DisagreementNeedsRace

\* Only the write of a Start makes a stream runnable
\* (is_stream_scheduler_runnable) whose status was not RUNNING: no save of the
\* configuration, run, Run Now, reconcile or failing stop does.
THEOREM StartResumes == Spec => OnlyStartResumes
<1> DEFINE A == status # "RUNNING" /\ Runnable' =>
                  \E p \in Processes :
                    api[p].pc = "starting" /\ api'[p].pc = "idle"
<1>1. LifecycleTypeOK /\ [Next]_vars => [A]_vars
  <2> SUFFICES ASSUME LifecycleTypeOK, [Next]_vars, status # "RUNNING",
                      Runnable'
               PROVE  \E p \in Processes :
                        api[p].pc = "starting" /\ api'[p].pc = "idle"
    OBVIOUS
  <2>1. ~UNCHANGED rowVars BY DEF Runnable, rowVars
  <2>2. PICK p \in Processes : RowActions(p) BY <2>1, RowSteps
  <2>3. StartWrite(p)
    BY <2>2 DEF RowActions, RunEnds, RunNowEnds, StopRequest, StopConfirm,
       StopFails, Reconcile, SaveConfig, Runnable, rowVars
  <2> QED BY <2>3 DEF StartWrite, Overtaken, NoRequest
<1> QED BY <1>1, LifecycleTypeCorrect, PTL DEF Spec, OnlyStartResumes

\* One process serves the requests.
OneApi == \A p, q \in Apis : p = q

\* With one API process: whoever is busy is that process, its Start has the
\* row as it is but for a run's flush, and its Stop has the stream disabled.
AloneInv ==
    \A p \in Processes :
      /\ api[p].pc # "idle" => p \in Apis
      /\ api[p].pc = "starting" =>
           api[p].sawEnabled = enabled /\ status \in {api[p].sawStatus, "PAUSED"}
      /\ api[p].pc \in InStop => ~enabled

\* AloneInv and the agreement of the columns are kept together.
LEMMA AloneStep ==
  ASSUME OneApi, LifecycleTypeOK, AloneInv, EnabledAgreesWithStatus, [Next]_vars
  PROVE  AloneInv' /\ EnabledAgreesWithStatus'
<1> USE DEF AloneInv, InStop
<1>0. CASE UNCHANGED <<enabled, status, api, parted>>
  BY <1>0 DEF EnabledAgreesWithStatus, Agree
<1> SUFFICES ASSUME NEW p \in Processes,
                    WorkerStep(p) \/ NewRequest(p) \/ RequestStep(p)
                      \/ StopFails(p) \/ Crash(p)
             PROVE  AloneInv' /\ EnabledAgreesWithStatus'
  BY <1>0 DEF Next, vars, rowVars, histVars, ListStreams, EnsureWorker, Expire,
              SharedRefresh, Disown
<1> USE DEF LifecycleTypeOK
<1>o. \A q \in Processes \ {p} :
        p \in Apis => api[q].pc = "idle"
  BY DEF OneApi
<1>1. ASSUME NEW s \in Statuses, RunEnds(p, s) PROVE AloneInv' /\ EnabledAgreesWithStatus'
  BY <1>1 DEF RunEnds, EnabledAgreesWithStatus, Agree, histVars
<1>2. CASE WorkerStep(p)
  <2>1. (\E s \in Statuses : RunEnds(p, s)) \/ UNCHANGED <<enabled, status, api, parted>>
    BY <1>2 DEF WorkerStep, OwnershipBusy, OwnershipError, Own, Poll,
        PollUnrefreshed, LoadContext, ContextRefused, CycleError, AcquireRun,
        AcquireRunFails, SkipRun, RunRefused, WaitSlice, WaitUnrefreshed,
        WaitElapses, ConfirmStopped, Unregister, rowVars, histVars
  <2> QED BY <1>0, <1>1, <2>1
<1>3. CASE StartWrite(p)
  <2>1. p \in Apis /\ api[p].sawEnabled = enabled
        /\ status \in {api[p].sawStatus, "PAUSED"}
    BY <1>3 DEF StartWrite
  <2>2. enabled' /\ status' \in {"RUNNING", "PAUSED"}
    BY <1>3, <2>1 DEF StartWrite
  <2>3. api'[p].pc = "idle" /\ \A q \in Processes \ {p} : api'[q].pc = "idle"
    BY <1>3, <1>o, <2>1 DEF StartWrite, Overtaken, NoRequest
  <2> QED BY <2>2, <2>3 DEF EnabledAgreesWithStatus, Agree
<1>4. CASE \/ StartRead(p) \/ RunNow(p) \/ RunNowAcquires(p) \/ RunNowSkips(p)
           \/ RunNowAcquireFails(p)
           \/ StopTimesOut(p) \/ Crash(p) \/ StopSignal(p)
           \/ StopSeesTerminal(p)
  <2>1. UNCHANGED <<enabled, status, parted>>
    BY <1>4 DEF StartRead, RunNow, RunNowAcquires, RunNowAcquireFails,
        RunNowSkips, StopTimesOut, Crash, StopSignal, StopSeesTerminal,
        rowVars, histVars
  <2>2. \A q \in Processes \ {p} : api'[q] = api[q]
    BY <1>4 DEF StartRead, RunNow, RunNowAcquires, RunNowAcquireFails,
        RunNowSkips, StopTimesOut, Crash, StopSignal, StopSeesTerminal
  <2>3. /\ api'[p].pc # "idle" => p \in Apis
        /\ api'[p].pc = "starting" =>
             api'[p].sawEnabled = enabled /\ api'[p].sawStatus = status
        /\ api'[p].pc \in InStop => api[p].pc \in InStop
    BY <1>4 DEF StartRead, RunNow, RunNowAcquires, RunNowAcquireFails,
        RunNowSkips, StopTimesOut, Crash, StopSignal, StopSeesTerminal, Idle,
        NoRequest
  <2> QED BY <2>1, <2>2, <2>3 DEF EnabledAgreesWithStatus, Agree
<1>5. ASSUME NEW s \in Statuses, RunNowEnds(p, s)
      PROVE  AloneInv' /\ EnabledAgreesWithStatus'
  BY <1>5 DEF RunNowEnds, NoRequest, EnabledAgreesWithStatus, Agree, histVars
<1>6. CASE StopRequest(p) \/ StopFails(p) \/ StopConfirm(p) \/ Reconcile(p)
  <2>1. p \in Apis
    BY <1>6 DEF StopRequest, StopFails, StopConfirm, Reconcile, Idle
  <2>2. \A q \in Processes \ {p} : api'[q] = api[q] /\ api[q].pc = "idle"
    BY <1>6, <1>o, <2>1 DEF StopRequest, StopFails, StopConfirm, Reconcile
  <2>3. (~enabled' /\ status' # "RUNNING")
        \/ UNCHANGED <<enabled, status, parted>>
    BY <1>6 DEF StopRequest, StopFails, StopConfirm, Reconcile, rowVars
  <2>4. /\ api'[p].pc \in {"idle", "signal"}
        /\ api'[p].pc = "signal" => ~enabled'
    BY <1>6 DEF StopRequest, StopFails, StopConfirm, Reconcile, Idle, NoRequest
  <2> QED BY <2>1, <2>2, <2>3, <2>4 DEF EnabledAgreesWithStatus, Agree
<1>7. CASE SaveConfig(p)
  <2>1. p \in Apis /\ \A q \in Processes : api[q].pc = "idle"
    BY <1>7, <1>o DEF SaveConfig, Idle
  <2>2. \A q \in Processes : api'[q] = api[q]
    BY <1>7, <2>1 DEF SaveConfig, Overtaken
  <2>3. EnabledAgreesWithStatus'
    BY <1>7, Zenon DEF SaveConfig, EnabledAgreesWithStatus
  <2> QED BY <2>1, <2>2, <2>3
<1> QED BY <1>2, <1>3, <1>4, <1>5, <1>6, <1>7 DEF NewRequest, RequestStep

\* Where one API process serves the requests, enabled and status disagree only
\* as a save of the configuration or the creation left them: runs, time-outs,
\* failures and crashes keep them together, a Start or a Stop mends them.
THEOREM ColumnsAgree == ASSUME OneApi PROVE Spec => []EnabledAgreesWithStatus
<1>1. Init => AloneInv /\ EnabledAgreesWithStatus
  BY DEF Init, AloneInv, InStop, NoRequest, EnabledAgreesWithStatus, Agree
<1>2. /\ LifecycleTypeOK /\ AloneInv /\ EnabledAgreesWithStatus /\ [Next]_vars
      => AloneInv' /\ EnabledAgreesWithStatus'
  BY AloneStep
<1> QED BY <1>1, <1>2, LifecycleTypeCorrect, PTL DEF Spec
=============================================================================
