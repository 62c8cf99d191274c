--------------------------- MODULE StreamRunProofs ---------------------------
(***************************************************************************)
(* Proofs about StreamRun, for any set of routes, policies, runners and    *)
(* any length of the source log.                                           *)
(***************************************************************************)
EXTENDS StreamRun, TLAPS

\* A new run record has the type of one.
LEMMA IdleRunType == IdleRun \in RunType
BY DEF IdleRun, RunType, PCs, Results, NoCheckpoint

\* Leaving a route keeps the run's type and settles exactly that route: what
\* every step of _send_route_events that ends a route does to the run.
LEMMA SettleFacts ==
    ASSUME NEW p \in Runners, NEW r \in Routes, NEW res \in Results,
           NEW S \in RunType, run \in [Runners -> RunType],
           Settle(p, r, res, S)
    PROVE  /\ run' \in [Runners -> RunType]
           /\ \A q \in Runners \ {p} : run'[q] = run[q]
           /\ run'[p].pc = "route"
           /\ run'[p].from = S.from
           /\ run'[p].routes = S.routes
           /\ run'[p].batch = S.batch
           /\ run'[p].todo = S.todo \ {r}
           /\ run'[p].result = [S.result EXCEPT ![r] = res]
           /\ run'[p].rows = S.rows
           /\ run'[p].excused = S.excused
           /\ run'[p].ckpt = S.ckpt
           /\ run'[p].keys = S.keys
<1> DEFINE T == [S EXCEPT !.pc = "route", !.todo = S.todo \ {r},
                          !.result[r] = res, !.failover = "none",
                          !.keep = FALSE, !.tries = 0]
<1>1. T \in RunType
  BY DEF RunType, PCs
<1>2. run' = [run EXCEPT ![p] = T]
  BY DEF Settle
<1>3. run'[p] = T /\ run' \in [Runners -> RunType]
      /\ \A q \in Runners \ {p} : run'[q] = run[q]
  BY <1>1, <1>2
<1>4. /\ T.pc = "route" /\ T.from = S.from /\ T.routes = S.routes
      /\ T.batch = S.batch /\ T.todo = S.todo \ {r}
      /\ T.result = [S.result EXCEPT ![r] = res]
      /\ T.rows = S.rows /\ T.excused = S.excused /\ T.ckpt = S.ckpt
      /\ T.keys = S.keys
  BY DEF RunType
<1> QED BY <1>3, <1>4

\* Keeping a batch for replay adds a row or excuses the route, nothing else.
LEMMA WithRowFacts ==
    ASSUME NEW S \in RunType, NEW r \in Routes, NEW lands \in BOOLEAN,
           NEW T, T = WithRow(S, r, lands)
    PROVE  /\ T \in RunType
           /\ T.from = S.from /\ T.routes = S.routes /\ T.batch = S.batch
           /\ T.todo = S.todo /\ T.result = S.result /\ T.ckpt = S.ckpt
           /\ T.keys = S.keys
           /\ T.rows[r] > 0 \/ r \in T.excused
           /\ S.excused \subseteq T.excused
           /\ \A s \in Routes : T.rows[s] >= S.rows[s]
           /\ \A s \in Routes \ {r} : T.rows[s] = S.rows[s]
<1>1. CASE lands
  <2>1. T = [S EXCEPT !.rows = [S.rows EXCEPT ![r] = @ + 1]]
    BY <1>1 DEF WithRow, RunType
  <2>2. [S.rows EXCEPT ![r] = @ + 1] \in [Routes -> Nat]
    BY DEF RunType
  <2>3. T \in RunType /\ T.rows = [S.rows EXCEPT ![r] = @ + 1]
    BY <2>1, <2>2 DEF RunType
  <2>4. /\ T.rows[r] > 0 /\ \A s \in Routes : T.rows[s] >= S.rows[s]
        /\ \A s \in Routes \ {r} : T.rows[s] = S.rows[s]
    BY <2>3 DEF RunType
  <2> QED BY <2>1, <2>3, <2>4 DEF RunType
<1>2. CASE ~lands
  <2>1. T = [S EXCEPT !.excused = S.excused \cup {r}]
    BY <1>2 DEF WithRow, RunType
  <2>2. T \in RunType /\ T.rows = S.rows
    BY <2>1 DEF RunType
  <2>3. \A s \in Routes : T.rows[s] >= S.rows[s]
    BY <2>2 DEF RunType
  <2> QED BY <2>1, <2>2, <2>3 DEF RunType
<1> QED BY <1>1, <1>2

-----------------------------------------------------------------------------
(***************************************************************************)
(* Type correctness.                                                       *)
(***************************************************************************)

\* The steps that end a route keep TypeOK: the fan-out writes only the run's
\* record and the destinations.
LEMMA RouteStepType ==
    ASSUME TypeOK, NEW p \in Runners, NEW r \in Routes, RouteStep(p, r)
    PROVE  TypeOK'
<1> USE DEF TypeOK
<1>0. run[p] \in RunType
  OBVIOUS
<1>1. CASE RouteWithheld(p, r)
  BY <1>0, <1>1, SettleFacts DEF RouteWithheld, Results, dbVars, lockVars,
      cacheVars
<1>2. CASE RouteSkipped(p, r)
  BY <1>0, <1>2, SettleFacts DEF RouteSkipped, Results, dbVars, lockVars,
      cacheVars
<1>3. CASE RouteRateLimited(p, r)
  <2>1. [run[p] EXCEPT !.status = "RATE_LIMITED_DESTINATION"] \in RunType
    BY <1>0 DEF RunType, Statuses
  <2> QED
    BY <1>3, <2>1, SettleFacts DEF RouteRateLimited, Results, dbVars,
        lockVars, cacheVars
<1>a. WithKeys(run[p]) \in RunType
  BY <1>0 DEF WithKeys, RunType
<1>b. Ack(p, r) => delivered' \in [Routes -> SUBSET Nat]
  BY <1>0 DEF Ack, RunType
<1>4. CASE SendOk(p, r)
  BY <1>4, <1>a, <1>b, SettleFacts DEF SendOk, Results, dbVars, lockVars,
      cacheVars
<1>5. CASE \E e \in Errors : SendFails(p, r, e)
  <2>1. PICK e \in Errors : SendFails(p, r, e)
    BY <1>5
  <2>2. PICK next \in {"policy", "failover"} :
          run' = [run EXCEPT ![p].pc = next, ![p].keep = Keepable(p, e)]
    BY <2>1 DEF SendFails
  <2>3. [run[p] EXCEPT !.pc = next, !.keep = Keepable(p, e)] \in RunType
    BY <1>0 DEF RunType, PCs, Keepable
  <2>4. run' \in [Runners -> RunType]
    BY <2>2, <2>3
  <2> QED BY <2>1, <2>4 DEF SendFails, dbVars, lockVars, cacheVars
<1>6. CASE FailoverOk(p, r)
  BY <1>0, <1>6, <1>b, SettleFacts DEF FailoverOk, Results, dbVars, lockVars,
      cacheVars
<1>c. ASSUME NEW keep \in BOOLEAN PROVE RowLands(keep) \subseteq BOOLEAN
  BY DEF RowLands
<1>d. run[p].keep \in BOOLEAN
  BY <1>0 DEF RunType
<1>7. CASE LogAndContinue(p, r)
  BY <1>0, <1>7, <1>c, <1>d, WithRowFacts, SettleFacts
     DEF LogAndContinue, Results, dbVars, lockVars, cacheVars
<1>8. CASE PauseStream(p, r)
  <2>1. [run[p] EXCEPT !.status = "PAUSED"] \in RunType
    BY <1>0 DEF RunType, Statuses
  <2> QED
    BY <1>8, <2>1, <1>c, <1>d, WithRowFacts, SettleFacts
       DEF PauseStream, Results, dbVars, lockVars, cacheVars
<1>9. CASE DisableRoute(p, r)
  <2>1. [run[p] EXCEPT !.disable = @ \cup {r}] \in RunType
    BY <1>0 DEF RunType
  <2> QED
    BY <1>9, <2>1, <1>c, <1>d, WithRowFacts, SettleFacts
       DEF DisableRoute, Results, dbVars, lockVars, cacheVars
<1>10. CASE UnknownPolicy(p, r)
  BY <1>0, <1>10, <1>c, <1>d, WithRowFacts, SettleFacts
     DEF UnknownPolicy, Results, dbVars, lockVars, cacheVars
<1>11. CASE StartRetries(p, r)
  BY <1>0, <1>11 DEF StartRetries, RunType, PCs, dbVars, lockVars, cacheVars
<1>12. CASE RetryOk(p, r)
  BY <1>a, <1>b, <1>12, <1>c, <1>d, WithRowFacts, SettleFacts
     DEF RetryOk, Results, dbVars, lockVars, cacheVars
<1>13. CASE \E e \in Errors : RetryExhausted(p, r, e)
  <2>1. PICK e \in Errors : RetryExhausted(p, r, e)
    BY <1>13
  <2>2. Keepable(p, e) \in BOOLEAN
    BY DEF Keepable
  <2>3. PICK last \in RowLands(Keepable(p, e)), first \in RowLands(run[p].keep) :
          Settle(p, r, "failed", WithRow(WithRow(run[p], r, last), r, first))
    BY <2>1 DEF RetryExhausted
  <2>4. last \in BOOLEAN /\ first \in BOOLEAN
    BY <2>2, <2>3, <1>c, <1>d
  <2>5. WithRow(run[p], r, last) \in RunType
    BY <1>0, <2>4, WithRowFacts
  <2>6. WithRow(WithRow(run[p], r, last), r, first) \in RunType
    BY <2>4, <2>5, WithRowFacts
  <2> QED BY <2>1, <2>3, <2>6, SettleFacts
             DEF RetryExhausted, Results, dbVars, lockVars, cacheVars
<1> QED
  BY <1>1, <1>2, <1>3, <1>4, <1>5, <1>6, <1>7, <1>8, <1>9, <1>10, <1>11,
     <1>12, <1>13 DEF RouteStep

\* Every step of the stream keeps TypeOK.
LEMMA NextType == TypeOK /\ [Next]_vars => TypeOK'
<1> SUFFICES ASSUME TypeOK, [Next]_vars PROVE TypeOK'
  OBVIOUS
<1> USE DEF TypeOK
<1>1. CASE UNCHANGED vars
  BY <1>1 DEF vars, dbVars, lockVars, cacheVars
<1>2. ASSUME NEW p \in Runners, LoadContext(p) PROVE TypeOK'
  <2>1. PICK R \in SUBSET Routes :
          /\ run' = [run EXCEPT ![p] = [IdleRun EXCEPT !.pc = "loaded",
                                          !.from = checkpoint, !.routes = R]]
          /\ cachedRoutes' = IF p \in Polling THEN R ELSE cachedRoutes
          /\ touched' = IF p \in Polling /\ R = EnabledRoutes THEN {}
                                                              ELSE touched
    BY <1>2 DEF LoadContext
  <2>2. [IdleRun EXCEPT !.pc = "loaded", !.from = checkpoint, !.routes = R]
          \in RunType
    BY IdleRunType DEF RunType, PCs
  <2>3. run' \in [Runners -> RunType]
    BY <2>1, <2>2
  <2> QED BY <1>2, <2>1, <2>3 DEF LoadContext, dbVars, lockVars
<1>3. ASSUME NEW p \in Runners, RunStep(p) PROVE TypeOK'
  <2>0. run[p] \in RunType /\ [IdleRun EXCEPT !.pc = "release"] \in RunType
    BY IdleRunType DEF RunType, PCs
  <2>1. CASE Acquire(p)
    <3>1. [run[p] EXCEPT !.pc = "started"] \in RunType
      BY <2>0 DEF RunType, PCs
    <3> QED BY <2>1, <3>1, IdleRunType DEF Acquire, dbVars, lockVars, cacheVars
  <2>1a. CASE AcquireFails(p)
    BY <2>0, <2>1a, IdleRunType DEF AcquireFails, dbVars, lockVars, cacheVars
  <2>2. CASE SourceRateLimited(p)
    <3>1. [run[p] EXCEPT !.pc = "flush", !.status = "RATE_LIMITED_SOURCE"]
            \in RunType
      BY <2>0 DEF RunType, PCs, Statuses
    <3> QED BY <2>2, <3>1 DEF SourceRateLimited, dbVars, lockVars, cacheVars
  <2>3. CASE Fetch(p)
    <3>1. PICK lo \in 1..(head + 1), hi \in 0..head :
            run' = IF Deduplicated(p, lo..hi) = {}
                     THEN [run EXCEPT ![p].pc = "flush"]
                     ELSE [run EXCEPT ![p].pc = "route",
                             ![p].batch = Deduplicated(p, lo..hi),
                             ![p].todo = run[p].routes]
      BY <2>3 DEF Fetch
    <3>2. Deduplicated(p, lo..hi) \in SUBSET Nat
      BY <3>1 DEF Deduplicated
    <3>3. /\ [run[p] EXCEPT !.pc = "flush"] \in RunType
          /\ [run[p] EXCEPT !.pc = "route", !.batch = Deduplicated(p, lo..hi),
                            !.todo = run[p].routes] \in RunType
      BY <2>0, <3>2 DEF RunType, PCs
    <3>4. run' \in [Runners -> RunType]
      BY <3>1, <3>3
    <3> QED BY <2>3, <3>4 DEF Fetch, dbVars, lockVars, cacheVars
  <2>4. CASE DryRun(p)
    <3>1. [run[p] EXCEPT !.pc = "flush"] \in RunType
      BY <2>0 DEF RunType, PCs
    <3> QED BY <2>4, <3>1 DEF DryRun, dbVars, lockVars, cacheVars
  <2>5. CASE \E r \in Routes : RouteStep(p, r)
    BY <2>5, RouteStepType
  <2>6. CASE FailoverSkipped(p)
    <3>1. [run[p] EXCEPT !.pc = "policy", !.failover = "skipped"] \in RunType
      BY <2>0 DEF RunType, PCs
    <3> QED BY <2>6, <3>1 DEF FailoverSkipped, dbVars, lockVars, cacheVars
  <2>7. CASE \E e \in Errors : FailoverFails(p, e)
    <3>1. PICK e \in Errors : FailoverFails(p, e)
      BY <2>7
    <3>2. [run[p] EXCEPT !.pc = "policy", !.failover = "failed",
                         !.keep = Keepable(p, e)] \in RunType
      BY <2>0 DEF RunType, PCs, Keepable
    <3> QED BY <3>1, <3>2 DEF FailoverFails, dbVars, lockVars, cacheVars
  <2>8. CASE RetryFails(p)
    <3>1. PICK n \in Nat : n = run[p].tries + 1
      BY <2>0 DEF RunType
    <3>2. [run[p] EXCEPT !.tries = n] \in RunType
      BY <2>0 DEF RunType
    <3>3. run' = [run EXCEPT ![p].tries = n]
      BY <2>8, <3>1 DEF RetryFails
    <3> QED BY <2>8, <3>2, <3>3 DEF RetryFails, dbVars, lockVars, cacheVars
  <2>9. CASE FanOutDone(p)
    <3>1. PICK c \in Nat \cup {NoCheckpoint} :
            run' = [run EXCEPT ![p].pc = "flush", ![p].ckpt = c]
      BY <2>0, <2>9 DEF FanOutDone, RunType
    <3>2. [run[p] EXCEPT !.pc = "flush", !.ckpt = c] \in RunType
      BY <2>0 DEF RunType, PCs
    <3>3. run' \in [Runners -> RunType]
      BY <3>1, <3>2
    <3> QED BY <2>9, <3>3 DEF FanOutDone, dbVars, lockVars, cacheVars
  <2>10. CASE Flush(p)
    <3>1. /\ checkpoint' \in Nat
          /\ status' \in Statuses
          /\ registry' \in SUBSET Nat
      BY <2>0, <2>10 DEF Flush, RunType, NoCheckpoint
    <3>2. routeEnabled' \in [Routes -> BOOLEAN]
      BY <2>10 DEF Flush
    <3>3. waived' \in [Routes -> SUBSET Nat]
      BY <2>0, <2>10 DEF Flush, RunType
    <3>4. cachedRoutes' \in SUBSET Routes /\ touched' \in SUBSET Routes
      BY <2>0, <2>10 DEF Flush, RunType
    <3>5. run' \in [Runners -> RunType]
      BY <2>0, <2>10 DEF Flush
    <3> QED BY <2>10, <3>1, <3>2, <3>3, <3>4, <3>5 DEF Flush, lockVars
  <2>11. CASE FlushFails(p)
    BY <2>0, <2>11 DEF FlushFails, dbVars, lockVars, cacheVars
  <2>12. CASE RunException(p)
    BY <2>0, <2>12 DEF RunException, dbVars, lockVars, cacheVars
  <2>13. CASE Release(p)
    BY <2>13, IdleRunType DEF Release, dbVars, lockVars, cacheVars
  <2> QED
    BY <1>3, <2>1, <2>1a, <2>2, <2>3, <2>4, <2>5, <2>6, <2>7, <2>8, <2>9,
       <2>10, <2>11, <2>12, <2>13 DEF RunStep
<1>4. ASSUME NEW p \in Runners, Crash(p) PROVE TypeOK'
  BY <1>4, IdleRunType DEF Crash, dbVars
<1>5. CASE Produce
  BY <1>5 DEF Produce, dbVars, lockVars, cacheVars
<1>6. CASE StartStream
  BY <1>6 DEF StartStream, Statuses, lockVars
<1>7. ASSUME NEW r \in Routes, SetRouteEnabled(r) PROVE TypeOK'
  BY <1>7 DEF SetRouteEnabled, lockVars
<1> QED BY <1>1, <1>2, <1>3, <1>4, <1>5, <1>6, <1>7 DEF Next

\* The type invariant of a stream's rows, runs and history.
THEOREM TypeCorrect == Spec => []TypeOK
<1>1. Init => TypeOK
  BY IdleRunType DEF Init, TypeOK, Statuses
<1> QED BY <1>1, NextType, PTL DEF Spec

-----------------------------------------------------------------------------
(***************************************************************************)
(* The kinds of steps.  Most of the runner's steps look alike to the       *)
(* delivery guarantees; the rest of this module argues about these kinds.  *)
(***************************************************************************)

Routing == {"route", "failover", "policy", "retry"}

Frame(p) ==
    /\ p \in Runners
    /\ run' \in [Runners -> RunType]
    /\ \A q \in Runners \ {p} : run'[q] = run[q]
    /\ UNCHANGED <<checkpoint, registry, waived>>

\* The operators, the source, and steps that leave runs and cursor alone.
Outside == UNCHANGED <<checkpoint, registry, run, delivered, waived>>

\* p begins anew, having loaded the cursor or dropped everything it had.
Restarts(p) ==
    /\ Frame(p)
    /\ UNCHANGED delivered
    /\ run'[p].pc \notin Routing \cup {"flush"}
    /\ run'[p].from \in {0, checkpoint}
    /\ run'[p].ckpt = NoCheckpoint
    /\ run'[p].keys = {}
    /\ run'[p].result = [r \in Routes |-> "none"]
    /\ run'[p].rows = [r \in Routes |-> 0]

\* The policy of the route that run p is at has it retry.
RetriesHere(p) ==
    \A r \in Routes : AtRoute(p, r) => Policy[r] = "RETRY_AND_BACKOFF"

\* p moves on inside its run and nothing it has collected changes.
Quiet(p) ==
    /\ Frame(p)
    /\ UNCHANGED delivered
    /\ run[p].pc # "flush"
    /\ run'[p].pc \in Routing => run[p].pc \in Routing
    /\ run'[p].pc = "retry" => run[p].pc = "retry" \/ RetriesHere(p)
    /\ run'[p].pc \in {"idle", "loaded", "started", "release"} =>
         run[p].pc \in {"idle", "loaded", "started", "release"}
    /\ run'[p].from = run[p].from /\ run'[p].routes = run[p].routes
    /\ run'[p].batch = run[p].batch /\ run'[p].todo = run[p].todo
    /\ run'[p].result = run[p].result /\ run'[p].rows = run[p].rows
    /\ run'[p].excused = run[p].excused /\ run'[p].ckpt = run[p].ckpt
    /\ run'[p].keys = run[p].keys

\* p has fetched a batch that is not empty.
Fetches(p) ==
    /\ Frame(p)
    /\ UNCHANGED delivered
    /\ run[p].pc = "started" /\ run'[p].pc = "route"
    /\ \E lo \in Nat, hi \in Nat :
         /\ FetchWindow(p, lo, hi)
         /\ run'[p].batch = Deduplicated(p, lo..hi)
    /\ run'[p].todo = run[p].routes
    /\ run'[p].from = run[p].from /\ run'[p].routes = run[p].routes
    /\ run'[p].result = run[p].result /\ run'[p].rows = run[p].rows
    /\ run'[p].excused = run[p].excused /\ run'[p].ckpt = run[p].ckpt
    /\ run'[p].keys = run[p].keys

\* p is done with route r.  Only a result "delivered" or new dedup keys claim
\* a delivery, and then the route's destination has the batch; only a result
\* "failed" or "absorbed" claims a failure, and then a row was tried; another
\* result comes with a row only after retries.
RouteEnds(p, r, res) ==
    /\ Frame(p)
    /\ AtRoute(p, r)
    /\ run[p].pc \in Routing /\ run'[p].pc = "route"
    /\ run'[p].todo = run[p].todo \ {r}
    /\ run'[p].result = [run[p].result EXCEPT ![r] = res]
    /\ \A s \in Routes : delivered[s] \subseteq delivered'[s]
    /\ res = "delivered" => run[p].batch \subseteq delivered'[r]
    /\ \/ run'[p].keys = run[p].keys
       \/ /\ run'[p].keys \subseteq run[p].batch
          /\ run[p].batch \subseteq delivered'[r]
    /\ res \in {"failed", "absorbed"} =>
         run'[p].rows[r] > 0 \/ r \in run'[p].excused
    /\ run[p].excused \subseteq run'[p].excused
    /\ \A s \in Routes : run'[p].rows[s] >= run[p].rows[s]
    /\ \A s \in Routes \ {r} : run'[p].rows[s] = run[p].rows[s]
    /\ \/ res \in {"failed", "absorbed"}
       \/ run[p].pc = "retry"
       \/ run'[p].rows = run[p].rows
    /\ run'[p].from = run[p].from /\ run'[p].routes = run[p].routes
    /\ run'[p].batch = run[p].batch /\ run'[p].ckpt = run[p].ckpt

\* A step of the fan-out either ends its route or is quiet.
LEMMA RouteStepKind ==
    ASSUME TypeOK, NEW p \in Runners, NEW r \in Routes, RouteStep(p, r)
    PROVE  Quiet(p) \/ \E res \in Results \ {"none"} : RouteEnds(p, r, res)
<1>0. /\ run[p] \in RunType /\ run \in [Runners -> RunType]
      /\ delivered \in [Routes -> SUBSET Nat]
      /\ TypeOK'
  BY RouteStepType DEF TypeOK
<1>1. ASSUME NEW res \in Results \ {"none"}, NEW S \in RunType,
             Settle(p, r, res, S), AtRoute(p, r), run[p].pc \in Routing,
             UNCHANGED <<checkpoint, registry, waived>>,
             S.from = run[p].from, S.routes = run[p].routes,
             S.batch = run[p].batch, S.ckpt = run[p].ckpt,
             S.todo = run[p].todo, S.result = run[p].result,
             run[p].excused \subseteq S.excused,
             \A s \in Routes : S.rows[s] >= run[p].rows[s],
             \A s \in Routes \ {r} : S.rows[s] = run[p].rows[s],
             \/ res \in {"failed", "absorbed"}
             \/ run[p].pc = "retry"
             \/ S.rows = run[p].rows,
             res \in {"failed", "absorbed"} =>
               S.rows[r] > 0 \/ r \in S.excused,
             \/ UNCHANGED delivered /\ S.keys = run[p].keys
                /\ res # "delivered"
             \/ Ack(p, r) /\ (S.keys = run[p].keys \/ S.keys \subseteq S.batch)
      PROVE  RouteEnds(p, r, res)
  <2>1. /\ \A s \in Routes : delivered[s] \subseteq delivered'[s]
        /\ Ack(p, r) => run[p].batch \subseteq delivered'[r]
    BY <1>0, <1>1 DEF Ack
  <2> QED BY <1>0, <1>1, <2>1, SettleFacts DEF RouteEnds, Frame
<1>2. \A s \in Routes : run[p].rows[s] >= run[p].rows[s]
  BY <1>0 DEF RunType
<1>3. ASSUME NEW keep \in BOOLEAN PROVE RowLands(keep) \subseteq BOOLEAN
  BY DEF RowLands
<1>4. run[p].keep \in BOOLEAN
  BY <1>0 DEF RunType
<1>5. CASE RouteWithheld(p, r)
  BY <1>0, <1>1, <1>2, <1>5 DEF RouteWithheld, Routing, Results, dbVars
<1>6. CASE RouteSkipped(p, r)
  BY <1>0, <1>1, <1>2, <1>6 DEF RouteSkipped, Routing, Results, dbVars
<1>7. CASE RouteRateLimited(p, r)
  <2> DEFINE S == [run[p] EXCEPT !.status = "RATE_LIMITED_DESTINATION"]
  <2>1. /\ S \in RunType /\ S.from = run[p].from /\ S.routes = run[p].routes
        /\ S.batch = run[p].batch /\ S.ckpt = run[p].ckpt
        /\ S.todo = run[p].todo /\ S.result = run[p].result
        /\ S.excused = run[p].excused /\ S.rows = run[p].rows
        /\ S.keys = run[p].keys
    BY <1>0 DEF RunType, Statuses
  <2>2. Settle(p, r, "rate_limited", S)
    BY <1>7 DEF RouteRateLimited
  <2> HIDE DEF S
  <2> QED
    BY <1>1, <1>2, <1>7, <2>1, <2>2
       DEF RouteRateLimited, Routing, Results, dbVars
<1>8. /\ WithKeys(run[p]) \in RunType
      /\ WithKeys(run[p]).from = run[p].from
      /\ WithKeys(run[p]).routes = run[p].routes
      /\ WithKeys(run[p]).batch = run[p].batch
      /\ WithKeys(run[p]).ckpt = run[p].ckpt
      /\ WithKeys(run[p]).todo = run[p].todo
      /\ WithKeys(run[p]).result = run[p].result
      /\ WithKeys(run[p]).excused = run[p].excused
      /\ WithKeys(run[p]).rows = run[p].rows
      /\ WithKeys(run[p]).keys \subseteq WithKeys(run[p]).batch
  BY <1>0 DEF WithKeys, RunType
<1>9. CASE SendOk(p, r)
  BY <1>1, <1>2, <1>8, <1>9 DEF SendOk, Routing, Results, dbVars
<1>10. CASE \E e \in Errors : SendFails(p, r, e)
  <2>1. PICK e \in Errors : SendFails(p, r, e)
    BY <1>10
  <2>2. PICK next \in {"policy", "failover"} :
          run' = [run EXCEPT ![p].pc = next, ![p].keep = Keepable(p, e)]
    BY <2>1 DEF SendFails
  <2> QED BY <1>0, <2>1, <2>2
             DEF SendFails, Quiet, Frame, Routing, TypeOK, RunType, dbVars
<1>11. CASE FailoverOk(p, r)
  BY <1>0, <1>1, <1>2, <1>11 DEF FailoverOk, Routing, Results, dbVars
<1>a. ASSUME NEW S \in RunType, NEW lands \in BOOLEAN,
             NEW res \in {"failed", "absorbed"},
             Settle(p, r, res, WithRow(S, r, lands)),
             AtRoute(p, r), run[p].pc \in Routing,
             UNCHANGED <<checkpoint, registry, waived, delivered>>,
             S.from = run[p].from, S.routes = run[p].routes,
             S.batch = run[p].batch, S.ckpt = run[p].ckpt,
             S.todo = run[p].todo, S.result = run[p].result,
             S.excused = run[p].excused, S.rows = run[p].rows,
             S.keys = run[p].keys
      PROVE  RouteEnds(p, r, res)
  <2>1. PICK T : T = WithRow(S, r, lands)
    OBVIOUS
  <2>2. Settle(p, r, res, T)
    BY <1>a, <2>1
  <2>3. /\ T \in RunType
        /\ T.from = run[p].from /\ T.routes = run[p].routes
        /\ T.batch = run[p].batch /\ T.todo = run[p].todo
        /\ T.result = run[p].result /\ T.ckpt = run[p].ckpt
        /\ T.keys = run[p].keys
        /\ T.rows[r] > 0 \/ r \in T.excused
        /\ run[p].excused \subseteq T.excused
        /\ \A s \in Routes : T.rows[s] >= run[p].rows[s]
        /\ \A s \in Routes \ {r} : T.rows[s] = run[p].rows[s]
    BY <1>a, <2>1, WithRowFacts
  <2> QED BY <1>1, <1>a, <2>2, <2>3 DEF Results
<1>12. CASE LogAndContinue(p, r)
  <2>1. PICK lands \in BOOLEAN, res \in {"failed", "absorbed"} :
          Settle(p, r, res, WithRow(run[p], r, lands))
    BY <1>3, <1>4, <1>12 DEF LogAndContinue
  <2> QED BY <1>0, <1>a, <1>12, <2>1
             DEF LogAndContinue, Routing, Results, dbVars
<1>13. CASE PauseStream(p, r)
  <2>0. PICK S : S = [run[p] EXCEPT !.status = "PAUSED"]
    OBVIOUS
  <2>1. PICK lands \in BOOLEAN : Settle(p, r, "failed", WithRow(S, r, lands))
    BY <1>3, <1>4, <1>13, <2>0 DEF PauseStream
  <2>2. /\ S \in RunType /\ S.from = run[p].from /\ S.routes = run[p].routes
        /\ S.batch = run[p].batch /\ S.ckpt = run[p].ckpt
        /\ S.todo = run[p].todo /\ S.result = run[p].result
        /\ S.excused = run[p].excused /\ S.rows = run[p].rows
        /\ S.keys = run[p].keys
    BY <1>0, <2>0 DEF RunType, Statuses
  <2> QED BY <1>a, <1>13, <2>1, <2>2
             DEF PauseStream, Routing, Results, dbVars
<1>14. CASE DisableRoute(p, r)
  <2>0. PICK S : S = [run[p] EXCEPT !.disable = @ \cup {r}]
    OBVIOUS
  <2>1. PICK lands \in BOOLEAN : Settle(p, r, "failed", WithRow(S, r, lands))
    BY <1>3, <1>4, <1>14, <2>0 DEF DisableRoute
  <2>2. /\ S \in RunType /\ S.from = run[p].from /\ S.routes = run[p].routes
        /\ S.batch = run[p].batch /\ S.ckpt = run[p].ckpt
        /\ S.todo = run[p].todo /\ S.result = run[p].result
        /\ S.excused = run[p].excused /\ S.rows = run[p].rows
        /\ S.keys = run[p].keys
    BY <1>0, <2>0 DEF RunType
  <2> QED BY <1>a, <1>14, <2>1, <2>2
             DEF DisableRoute, Routing, Results, dbVars
<1>15. CASE UnknownPolicy(p, r)
  <2>1. PICK lands \in BOOLEAN :
          Settle(p, r, "failed", WithRow(run[p], r, lands))
    BY <1>3, <1>4, <1>15 DEF UnknownPolicy
  <2> QED BY <1>0, <1>a, <1>15, <2>1
             DEF UnknownPolicy, Routing, Results, dbVars
<1>16. CASE StartRetries(p, r)
  <2>1. RetriesHere(p)
    <3> SUFFICES ASSUME NEW s \in Routes, AtRoute(p, s)
                 PROVE  Policy[s] = "RETRY_AND_BACKOFF"
      BY DEF RetriesHere
    <3>1. s <= r /\ r <= s
      BY <1>16 DEF StartRetries, AtRoute
    <3> QED BY <1>16, <3>1, ConstantsAssumption DEF StartRetries
  <2>2. run'[p].pc = "retry" /\ run'[p] = [run[p] EXCEPT !.pc = "retry"]
        /\ \A q \in Runners \ {p} : run'[q] = run[q]
    BY <1>0, <1>16 DEF StartRetries, RunType
  <2> QED BY <1>0, <1>16, <2>1, <2>2
             DEF StartRetries, Quiet, Frame, Routing, TypeOK, RunType, dbVars
<1>17. CASE RetryOk(p, r)
  <2>1. PICK lands \in BOOLEAN, res \in {"delivered", "failed"} :
          Settle(p, r, res, WithRow(WithKeys(run[p]), r, lands))
    BY <1>3, <1>4, <1>17 DEF RetryOk
  <2>a. PICK T : T = WithRow(WithKeys(run[p]), r, lands)
    OBVIOUS
  <2>2. /\ T \in RunType
        /\ T.from = run[p].from /\ T.routes = run[p].routes
        /\ T.batch = run[p].batch /\ T.todo = run[p].todo
        /\ T.result = run[p].result /\ T.ckpt = run[p].ckpt
        /\ T.keys \subseteq T.batch
        /\ T.rows[r] > 0 \/ r \in T.excused
        /\ run[p].excused \subseteq T.excused
        /\ \A s \in Routes : T.rows[s] >= run[p].rows[s]
        /\ \A s \in Routes \ {r} : T.rows[s] = run[p].rows[s]
    BY <1>8, <2>a, WithRowFacts
  <2> QED BY <1>1, <1>17, <2>1, <2>a, <2>2 DEF RetryOk, Routing, Results,
          dbVars
<1>18. CASE \E e \in Errors : RetryExhausted(p, r, e)
  <2>1. PICK e \in Errors : RetryExhausted(p, r, e)
    BY <1>18
  <2>2. Keepable(p, e) \in BOOLEAN
    BY DEF Keepable
  <2>3. PICK last \in BOOLEAN, first \in BOOLEAN :
          Settle(p, r, "failed", WithRow(WithRow(run[p], r, last), r, first))
    BY <1>3, <1>4, <2>1, <2>2 DEF RetryExhausted
  <2>a. PICK S : S = WithRow(run[p], r, last)
    OBVIOUS
  <2>b. PICK T : T = WithRow(S, r, first)
    OBVIOUS
  <2>4. /\ S \in RunType
        /\ S.from = run[p].from /\ S.routes = run[p].routes
        /\ S.batch = run[p].batch /\ S.todo = run[p].todo
        /\ S.result = run[p].result /\ S.ckpt = run[p].ckpt
        /\ S.keys = run[p].keys
        /\ run[p].excused \subseteq S.excused
        /\ \A s \in Routes : S.rows[s] >= run[p].rows[s]
        /\ \A s \in Routes \ {r} : S.rows[s] = run[p].rows[s]
    BY <1>0, <2>a, WithRowFacts
  <2>5. /\ T \in RunType
        /\ T.from = S.from /\ T.routes = S.routes
        /\ T.batch = S.batch /\ T.todo = S.todo
        /\ T.result = S.result /\ T.ckpt = S.ckpt
        /\ T.keys = S.keys
        /\ T.rows[r] > 0 \/ r \in T.excused
        /\ S.excused \subseteq T.excused
        /\ \A s \in Routes : T.rows[s] >= S.rows[s]
        /\ \A s \in Routes \ {r} : T.rows[s] = S.rows[s]
    BY <2>4, <2>b, WithRowFacts
  <2>6. \A s \in Routes : T.rows[s] >= run[p].rows[s]
    BY <1>0, <2>4, <2>5 DEF RunType
  <2>7. Settle(p, r, "failed", T)
    BY <2>3, <2>a, <2>b
  <2> QED BY <1>1, <2>1, <2>7, <2>4, <2>5, <2>6
             DEF RetryExhausted, Routing, Results, dbVars
<1> QED
  BY <1>5, <1>6, <1>7, <1>9, <1>10, <1>11, <1>12, <1>13, <1>14, <1>15, <1>16,
     <1>17, <1>18 DEF RouteStep, Results

\* Every step is of one of the kinds, or stages or commits a cursor.
LEMMA StepKinds ==
    ASSUME TypeOK, [Next]_vars
    PROVE  \/ Outside
           \/ \E p \in Runners :
                \/ Restarts(p)
                \/ Quiet(p)
                \/ Fetches(p)
                \/ \E r \in Routes, res \in Results \ {"none"} :
                     RouteEnds(p, r, res)
                \/ FanOutDone(p)
                \/ Flush(p)
<1>0. run \in [Runners -> RunType] /\ TypeOK' /\ run' \in [Runners -> RunType]
  BY NextType DEF TypeOK
<1>1. CASE UNCHANGED vars
  BY <1>1 DEF vars, dbVars, Outside
<1>2. ASSUME NEW p \in Runners, LoadContext(p) PROVE Restarts(p)
  <2>1. PICK R \in SUBSET Routes :
          run' = [run EXCEPT ![p] = [IdleRun EXCEPT !.pc = "loaded",
                                       !.from = checkpoint, !.routes = R]]
    BY <1>2 DEF LoadContext
  <2> QED BY <1>0, <1>2, <2>1
             DEF LoadContext, Restarts, Frame, Routing, IdleRun, dbVars
<1>a. ASSUME NEW p \in Runners,
             \/ run' = [run EXCEPT ![p] = IdleRun]
             \/ run' = [run EXCEPT ![p] = [IdleRun EXCEPT !.pc = "release"]],
             UNCHANGED <<dbVars, delivered, waived>>
      PROVE  Restarts(p)
  BY <1>0, <1>a DEF Restarts, Frame, Routing, IdleRun, dbVars
<1>3. ASSUME NEW p \in Runners, RunStep(p)
      PROVE  \/ Restarts(p) \/ Quiet(p) \/ Fetches(p)
             \/ \E r \in Routes, res \in Results \ {"none"} :
                  RouteEnds(p, r, res)
             \/ FanOutDone(p) \/ Flush(p)
  <2>0. run[p] \in RunType
    BY <1>0
  <2> USE DEF Quiet, Frame, Routing, RunType, dbVars
  <2>1. CASE Acquire(p)
    BY <1>0, <1>a, <2>0, <2>1 DEF Acquire
  <2>1a. CASE AcquireFails(p)
    BY <1>a, <2>1a DEF AcquireFails
  <2>2. CASE SourceRateLimited(p)
    BY <1>0, <2>0, <2>2 DEF SourceRateLimited
  <2>3. CASE Fetch(p)
    <3>1. PICK lo \in 1..(head + 1), hi \in 0..head :
            /\ FetchWindow(p, lo, hi)
            /\ run' = IF Deduplicated(p, lo..hi) = {}
                        THEN [run EXCEPT ![p].pc = "flush"]
                        ELSE [run EXCEPT ![p].pc = "route",
                                ![p].batch = Deduplicated(p, lo..hi),
                                ![p].todo = run[p].routes]
      BY <2>3 DEF Fetch
    <3>2. lo \in Nat /\ hi \in Nat
      BY <3>1 DEF TypeOK
    <3>3. CASE Deduplicated(p, lo..hi) = {}
      BY <1>0, <2>0, <2>3, <3>1, <3>3 DEF Fetch
    <3>4. CASE Deduplicated(p, lo..hi) # {}
      BY <1>0, <2>0, <2>3, <3>1, <3>2, <3>4 DEF Fetch, Fetches
    <3> QED BY <3>3, <3>4
  <2>4. CASE DryRun(p)
    BY <1>0, <2>0, <2>4 DEF DryRun
  <2>5. CASE \E r \in Routes : RouteStep(p, r)
    BY <2>5, RouteStepKind
  <2>6. CASE FailoverSkipped(p)
    BY <1>0, <2>0, <2>6 DEF FailoverSkipped
  <2>7. CASE \E e \in Errors : FailoverFails(p, e)
    BY <1>0, <2>0, <2>7 DEF FailoverFails
  <2>8. CASE RetryFails(p)
    BY <1>0, <2>0, <2>8 DEF RetryFails
  <2>9. CASE FlushFails(p)
    BY <1>a, <2>9 DEF FlushFails
  <2>10. CASE RunException(p)
    BY <1>a, <2>10 DEF RunException
  <2>11. CASE Release(p)
    BY <1>a, <2>11 DEF Release
  <2> QED
    BY <1>3, <2>1, <2>1a, <2>2, <2>3, <2>4, <2>5, <2>6, <2>7, <2>8, <2>9,
       <2>10, <2>11 DEF RunStep
<1>4. ASSUME NEW p \in Runners, Crash(p) PROVE Restarts(p)
  BY <1>a, <1>4 DEF Crash
<1>5. CASE Produce \/ StartStream \/ \E r \in Routes : SetRouteEnabled(r)
  BY <1>5 DEF Produce, StartStream, SetRouteEnabled, Outside, dbVars
<1> QED BY <1>1, <1>2, <1>3, <1>4, <1>5 DEF Next

\* Destinations keep what they accepted, a leave once given stays, and only a
\* flush moves the cursor.
LEMMA StepEffects ==
    ASSUME TypeOK, [Next]_vars
    PROVE  /\ \A s \in Routes : delivered[s] \subseteq delivered'[s]
           /\ \A s \in Routes : waived[s] \subseteq waived'[s]
           /\ (\E p \in Runners : Flush(p)) \/ checkpoint' = checkpoint
<1> DEFINE Effects ==
      /\ \A s \in Routes : delivered[s] \subseteq delivered'[s]
      /\ \A s \in Routes : waived[s] \subseteq waived'[s]
      /\ (\E p \in Runners : Flush(p)) \/ checkpoint' = checkpoint
<1>1. ASSUME UNCHANGED <<delivered, waived, checkpoint>> PROVE Effects
  BY <1>1
<1>2. CASE Outside BY <1>1, <1>2 DEF Outside
<1>3. ASSUME NEW p \in Runners, Restarts(p) PROVE Effects
  BY <1>1, <1>3 DEF Restarts, Frame
<1>4. ASSUME NEW p \in Runners, Quiet(p) PROVE Effects
  BY <1>1, <1>4 DEF Quiet, Frame
<1>5. ASSUME NEW p \in Runners, Fetches(p) PROVE Effects
  BY <1>1, <1>5 DEF Fetches, Frame
<1>6. ASSUME NEW p \in Runners, NEW r \in Routes,
             NEW res \in Results \ {"none"}, RouteEnds(p, r, res)
      PROVE  Effects
  BY <1>6 DEF RouteEnds, Frame
<1>7. ASSUME NEW p \in Runners, FanOutDone(p) PROVE Effects
  BY <1>1, <1>7 DEF FanOutDone, dbVars
<1>8. ASSUME NEW p \in Runners, Flush(p) PROVE Effects
  BY <1>8 DEF Flush
<1> QED BY <1>2, <1>3, <1>4, <1>5, <1>6, <1>7, <1>8, StepKinds

-----------------------------------------------------------------------------
(***************************************************************************)
(* The run lock.                                                           *)
(***************************************************************************)

\* The run lock serialises the runs of a stream, for any number of schedulers,
\* API workers and backfills, whichever of them crash.
THEOREM Serialised == Spec => []RunsAreSerialised
<1>1. Init => RunsAreSerialised
  BY DEF Init, RunsAreSerialised, InRun, IdleRun
<1>2. TypeOK /\ RunsAreSerialised /\ [Next]_vars => RunsAreSerialised'
  <2> SUFFICES ASSUME TypeOK, RunsAreSerialised, [Next]_vars
               PROVE  RunsAreSerialised'
    OBVIOUS
  <2>0. run \in [Runners -> RunType]
    BY DEF TypeOK
  <2> USE ConstantsAssumption DEF RunsAreSerialised, InRun, PCs, lockVars
  <2>1. CASE UNCHANGED vars
    BY <2>1 DEF vars, lockVars
  <2>2. ASSUME NEW p \in Runners, LoadContext(p) PROVE RunsAreSerialised'
    BY <2>0, <2>2 DEF LoadContext, IdleRun
  <2>a. ASSUME NEW p \in Runners, run[p].pc \in InRun, UNCHANGED lock,
               \A q \in Runners \ {p} : run'[q] = run[q]
        PROVE  RunsAreSerialised'
    BY <2>a
  <2>3. ASSUME NEW p \in Runners, NEW r \in Routes, RouteStep(p, r)
        PROVE  RunsAreSerialised'
    <3>1. run[p].pc \in InRun /\ UNCHANGED lock
      BY <2>3 DEF RouteStep, RouteWithheld, RouteSkipped, RouteRateLimited,
                  SendOk, SendFails, FailoverOk, LogAndContinue, PauseStream,
                  DisableRoute, UnknownPolicy, StartRetries, RetryOk,
                  RetryExhausted
    <3>2. \A q \in Runners \ {p} : run'[q] = run[q]
      BY <2>3, RouteStepKind DEF Quiet, RouteEnds, Frame
    <3> QED BY <2>a, <3>1, <3>2
  <2>4. ASSUME NEW p \in Runners, RunStep(p) PROVE RunsAreSerialised'
    <3>1. CASE Acquire(p)
      BY <2>0, <3>1 DEF Acquire, IdleRun
    <3>1a. CASE AcquireFails(p)
      BY <2>0, <3>1a DEF AcquireFails, IdleRun
    <3>2. CASE Release(p)
      BY <2>0, <3>2 DEF Release, IdleRun
    <3>3. CASE Flush(p) \/ FlushFails(p) \/ RunException(p)
      BY <2>0, <2>a, <3>3 DEF Flush, FlushFails, RunException
    <3>4. CASE \/ SourceRateLimited(p) \/ Fetch(p) \/ DryRun(p)
               \/ FailoverSkipped(p) \/ (\E e \in Errors : FailoverFails(p, e))
               \/ RetryFails(p) \/ FanOutDone(p)
      BY <2>0, <2>a, <3>4 DEF SourceRateLimited, Fetch, DryRun,
           FailoverSkipped, FailoverFails, RetryFails, FanOutDone
    <3> QED BY <2>3, <2>4, <3>1, <3>1a, <3>2, <3>3, <3>4 DEF RunStep
  <2>5. ASSUME NEW p \in Runners, Crash(p) PROVE RunsAreSerialised'
    BY <2>0, <2>5 DEF Crash, IdleRun
  <2>6. CASE Produce \/ StartStream \/ \E r \in Routes : SetRouteEnabled(r)
    BY <2>6 DEF Produce, StartStream, SetRouteEnabled
  <2> QED BY <2>1, <2>2, <2>4, <2>5, <2>6 DEF Next
<1> QED BY <1>1, <1>2, TypeCorrect, PTL DEF Spec

-----------------------------------------------------------------------------
(***************************************************************************)
(* Replay rows.                                                            *)
(***************************************************************************)

\* No failure policy, failover outcome or retry loses a failed batch.
THEOREM FailureKept == Spec => []FailureLeavesReplayRow
<1>1. Init => FailureLeavesReplayRow
  BY DEF Init, FailureLeavesReplayRow, IdleRun
<1>2. TypeOK /\ FailureLeavesReplayRow /\ [Next]_vars
        => FailureLeavesReplayRow'
  <2> SUFFICES ASSUME TypeOK, FailureLeavesReplayRow, [Next]_vars,
                      NEW q \in Runners, NEW s \in Routes,
                      run'[q].result[s] \in {"failed", "absorbed"}
               PROVE  run'[q].rows[s] > 0 \/ s \in run'[q].excused
    BY DEF FailureLeavesReplayRow
  <2>0. /\ run \in [Runners -> RunType] /\ run[q] \in RunType
        /\ run' \in [Runners -> RunType] /\ run'[q] \in RunType
    BY NextType DEF TypeOK
  <2>1. run[q].rows[s] \in Nat /\ run'[q].rows[s] \in Nat
    BY <2>0 DEF RunType
  <2>2. CASE Outside
    BY <2>2 DEF Outside, FailureLeavesReplayRow
  <2>3. ASSUME NEW p \in Runners, p # q,
               run'[q] = run[q]
        PROVE  run'[q].rows[s] > 0 \/ s \in run'[q].excused
    BY <2>3 DEF FailureLeavesReplayRow
  <2>4. CASE Restarts(q)
    BY <2>4 DEF Restarts
  <2>5. CASE Quiet(q) \/ Fetches(q)
    BY <2>5 DEF Quiet, Fetches, FailureLeavesReplayRow
  <2>6. ASSUME NEW r \in Routes, NEW res \in Results, RouteEnds(q, r, res)
        PROVE  run'[q].rows[s] > 0 \/ s \in run'[q].excused
    <3>1. CASE s = r
      BY <2>0, <2>6, <3>1 DEF RouteEnds, RunType
    <3>2. CASE s # r
      <4>1. run[q].result[s] \in {"failed", "absorbed"}
        BY <2>0, <2>6, <3>2 DEF RouteEnds, RunType
      <4>2. run[q].rows[s] > 0 \/ s \in run[q].excused
        BY <4>1 DEF FailureLeavesReplayRow
      <4>3. run'[q].rows[s] >= run[q].rows[s]
            /\ run[q].excused \subseteq run'[q].excused
        BY <2>6 DEF RouteEnds
      <4> QED BY <2>1, <4>2, <4>3
    <3> QED BY <3>1, <3>2
  <2>7. CASE FanOutDone(q)
    <3>1. /\ run'[q].result = run[q].result /\ run'[q].rows = run[q].rows
          /\ run'[q].excused = run[q].excused
      BY <2>0, <2>7 DEF FanOutDone, RunType
    <3> QED BY <3>1 DEF FailureLeavesReplayRow
  <2>8. CASE Flush(q)
    <3>1. run'[q].result = [r \in Routes |-> "none"]
      BY <2>0, <2>8 DEF Flush, IdleRun
    <3> QED BY <3>1
  <2>9. ASSUME NEW p \in Runners, p # q,
               \/ Restarts(p) \/ Quiet(p) \/ Fetches(p)
               \/ \E r \in Routes, res \in Results \ {"none"} :
                    RouteEnds(p, r, res)
               \/ FanOutDone(p) \/ Flush(p)
        PROVE  run'[q] = run[q]
    BY <2>0, <2>9 DEF Restarts, Quiet, Fetches, RouteEnds, Frame, FanOutDone,
                      Flush
  <2> QED BY <2>2, <2>3, <2>4, <2>5, <2>6, <2>7, <2>8, <2>9, StepKinds
<1> QED BY <1>1, <1>2, TypeCorrect, PTL DEF Spec

-----------------------------------------------------------------------------
(***************************************************************************)
(* The cursor.  CheckpointCovered says nothing of the runs in flight; what *)
(* each of them has in hand is the strengthening that makes it inductive.  *)
(***************************************************************************)

\* What a run remembers of its routes is true of the destinations, and a
\* staged cursor waits only for the flush.
RunOK(p) ==
    /\ run[p].pc \notin Routing \cup {"flush"} =>
         \A r \in Routes : run[p].result[r] = "none"
    /\ run[p].pc \in Routing =>
         \A r \in run[p].routes : r \in run[p].todo \/ run[p].result[r] # "none"
    /\ \A r \in Routes :
         run[p].result[r] = "delivered" => run[p].batch \subseteq delivered[r]
    /\ run[p].ckpt # NoCheckpoint => run[p].pc = "flush"

\* A run's batch is the stretch right behind a cursor that is covered, so a
\* cursor staged on its end is covered once the flush commits.
CoverOK(p) ==
    /\ \A r \in Routes : 1..run[p].from \subseteq delivered[r] \cup waived[r]
    /\ run[p].pc \in Routing /\ p \notin Backfill =>
         \E hi \in Nat : run[p].batch = (run[p].from + 1)..hi
    /\ run[p].ckpt # NoCheckpoint =>
         /\ run[p].batch = (run[p].from + 1)..run[p].ckpt
         /\ \A r \in Routes :
              r \in Lenient(run[p]) \/ run[p].result[r] = "delivered"

CoverInv ==
    /\ CheckpointCovered
    /\ \A p \in Runners : RunOK(p) /\ CoverOK(p)

\* The steps keep what runs remember true.
LEMMA RunOKStep ==
    ASSUME TypeOK, [Next]_vars, NEW q \in Runners, RunOK(q)
    PROVE  RunOK(q)'
<1>0. /\ run \in [Runners -> RunType] /\ run[q] \in RunType
      /\ run' \in [Runners -> RunType] /\ run'[q] \in RunType
  BY NextType DEF TypeOK
<1>1. \A s \in Routes : delivered[s] \subseteq delivered'[s]
  BY StepEffects
<1>2. CASE run'[q] = run[q]
  BY <1>1, <1>2 DEF RunOK
<1>3. CASE Restarts(q)
  BY <1>3 DEF Restarts, RunOK
<1>4. CASE Quiet(q)
  BY <1>0, <1>4 DEF Quiet, RunOK, Routing, RunType, PCs
<1>5. CASE Fetches(q)
  BY <1>0, <1>5 DEF Fetches, RunOK, Routing
<1>6. ASSUME NEW r \in Routes, NEW res \in Results \ {"none"},
             RouteEnds(q, r, res)
      PROVE  RunOK(q)'
  BY <1>0, <1>1, <1>6 DEF RouteEnds, RunOK, Routing, RunType
<1>7. CASE FanOutDone(q)
  <2>1. /\ run'[q].pc = "flush" /\ run'[q].result = run[q].result
        /\ run'[q].batch = run[q].batch
    BY <1>0, <1>7 DEF FanOutDone, RunType
  <2> QED BY <1>1, <2>1 DEF RunOK, Routing
<1>8. CASE Flush(q)
  BY <1>0, <1>8 DEF Flush, RunOK, IdleRun, Routing
<1>9. ASSUME NEW p \in Runners, p # q,
             \/ Restarts(p) \/ Quiet(p) \/ Fetches(p)
             \/ \E r \in Routes, res \in Results \ {"none"} :
                  RouteEnds(p, r, res)
             \/ FanOutDone(p) \/ Flush(p)
      PROVE  run'[q] = run[q]
  BY <1>0, <1>9 DEF Restarts, Quiet, Fetches, RouteEnds, Frame, FanOutDone,
                    Flush
<1> QED BY <1>2, <1>3, <1>4, <1>5, <1>6, <1>7, <1>8, <1>9, StepKinds
           DEF Outside

\* No run that moves the cursor reads the registry: dedup is off, or the
\* stream is only polled by the scheduler and read by backfills.
RegistryUnread == ~Dedup \/ WithSession \subseteq Backfill

\* Then the batch of a run that may move the cursor is all that it fetched,
\* and every step keeps the invariant behind CheckpointCovered.
LEMMA CoverStep ==
    ASSUME RegistryUnread, TypeOK, [Next]_vars, CoverInv
    PROVE  CoverInv'
<1>0. /\ run \in [Runners -> RunType] /\ run' \in [Runners -> RunType]
      /\ checkpoint \in Nat /\ waived \in [Routes -> SUBSET Nat]
      /\ delivered \in [Routes -> SUBSET Nat]
  BY NextType DEF TypeOK
<1>1. \A q \in Runners : RunOK(q)'
  BY RunOKStep DEF CoverInv
<1> DEFINE Covered(n) ==
             \A r \in Routes : 1..n \subseteq delivered[r] \cup waived[r]
<1>2. \A s \in Routes : /\ delivered[s] \subseteq delivered'[s]
                        /\ waived[s] \subseteq waived'[s]
  BY StepEffects
<1>3. ASSUME NEW n, Covered(n) PROVE Covered(n)'
  BY <1>2, <1>3
<1>4. ASSUME NEW q \in Runners, run'[q] = run[q] PROVE CoverOK(q)'
  BY <1>2, <1>4 DEF CoverInv, CoverOK, Lenient
<1>5. CASE Outside
  BY <1>1, <1>4, <1>5 DEF Outside, CoverInv, CheckpointCovered
<1>6. ASSUME NEW p \in Runners,
             UNCHANGED checkpoint,
             \A q \in Runners \ {p} : run'[q] = run[q],
             CoverOK(p)'
      PROVE  CoverInv'
  BY <1>1, <1>2, <1>4, <1>6 DEF CoverInv, CheckpointCovered
<1>7. ASSUME NEW p \in Runners, Restarts(p) PROVE CoverInv'
  <2>1. CoverOK(p)'
    BY <1>0, <1>2, <1>7 DEF Restarts, CoverOK, CoverInv, CheckpointCovered
  <2> QED BY <1>6, <1>7, <2>1 DEF Restarts, Frame
<1>8. ASSUME NEW p \in Runners, Quiet(p) PROVE CoverInv'
  <2>1. CoverOK(p)'
    BY <1>0, <1>2, <1>8 DEF Quiet, CoverOK, CoverInv, RunOK, Lenient
  <2> QED BY <1>6, <1>8, <2>1 DEF Quiet, Frame
<1>9. ASSUME NEW p \in Runners, Fetches(p) PROVE CoverInv'
  <2>1. PICK lo \in Nat, hi \in Nat :
          FetchWindow(p, lo, hi) /\ run'[p].batch = Deduplicated(p, lo..hi)
    BY <1>9 DEF Fetches
  <2>2. p \notin Backfill => run'[p].batch = (run[p].from + 1)..hi
    BY <2>1 DEF FetchWindow, Deduplicated, RegistryUnread
  <2>3. CoverOK(p)'
    BY <1>0, <1>2, <1>9, <2>2 DEF Fetches, CoverOK, CoverInv, RunOK, Lenient
  <2> QED BY <1>6, <1>9, <2>3 DEF Fetches, Frame
<1>10. ASSUME NEW p \in Runners, NEW r \in Routes,
              NEW res \in Results \ {"none"}, RouteEnds(p, r, res)
       PROVE  CoverInv'
  <2>1. run[p].ckpt = NoCheckpoint
    BY <1>10 DEF RouteEnds, CoverInv, RunOK, Routing
  <2>2. CoverOK(p)'
    BY <1>0, <1>2, <1>10, <2>1 DEF RouteEnds, CoverOK, CoverInv
  <2> QED BY <1>6, <1>10, <2>2 DEF RouteEnds, Frame
<1>11. ASSUME NEW p \in Runners, FanOutDone(p) PROVE CoverInv'
  <2>0. run[p] \in RunType
    BY <1>0
  <2>1. PICK last \in run[p].batch :
          /\ \A e \in run[p].batch : e <= last
          /\ run' = [run EXCEPT
                       ![p].pc = "flush",
                       ![p].ckpt = IF AllRequiredSucceeded(run[p].result)
                                      /\ p \notin Backfill
                                     THEN last ELSE NoCheckpoint]
    BY <1>11 DEF FanOutDone
  <2>2. /\ run'[p].pc = "flush" /\ run'[p].from = run[p].from
        /\ run'[p].batch = run[p].batch /\ run'[p].result = run[p].result
        /\ run'[p].routes = run[p].routes
        /\ run'[p].ckpt = IF AllRequiredSucceeded(run[p].result)
                             /\ p \notin Backfill THEN last ELSE NoCheckpoint
        /\ \A q \in Runners \ {p} : run'[q] = run[q]
    BY <1>0, <2>0, <2>1 DEF RunType
  <2>3. ASSUME run'[p].ckpt # NoCheckpoint
        PROVE  /\ run[p].batch = (run[p].from + 1)..last
               /\ \A r \in Routes :
                    r \in Lenient(run[p]) \/ run[p].result[r] = "delivered"
    <3>1. p \notin Backfill /\ AllRequiredSucceeded(run[p].result)
      BY <2>2, <2>3
    <3>2. run[p].pc = "route" /\ run[p].todo = {}
      BY <1>11 DEF FanOutDone
    <3>3. PICK hi \in Nat : run[p].batch = (run[p].from + 1)..hi
      BY <3>1, <3>2 DEF CoverInv, CoverOK, Routing
    <3>4. hi = last
      BY <2>0, <2>1, <3>3 DEF RunType
    <3>5. ASSUME NEW r \in Routes
          PROVE  r \in Lenient(run[p]) \/ run[p].result[r] = "delivered"
      <4>1. r \in run[p].routes => run[p].result[r] # "none"
        BY <3>2 DEF CoverInv, RunOK, Routing
      <4>2. run[p].result[r] \in Results \ {"failed", "rate_limited"}
        BY <2>0, <3>1 DEF AllRequiredSucceeded, RunType
      <4> QED BY <4>1, <4>2 DEF Lenient, Results
    <3> QED BY <3>3, <3>4, <3>5
  <2>4. Lenient(run'[p]) = Lenient(run[p])
    BY <2>2 DEF Lenient
  <2>5. CoverOK(p)'
    BY <1>2, <2>2, <2>3, <2>4 DEF CoverOK, CoverInv, Routing
  <2> QED BY <1>6, <1>11, <2>2, <2>5 DEF FanOutDone, dbVars
<1>12. ASSUME NEW p \in Runners, Flush(p) PROVE CoverInv'
  <2>0. run[p] \in RunType
    BY <1>0
  <2>1. run'[p] = [IdleRun EXCEPT !.pc = "release"]
        /\ \A q \in Runners \ {p} : run'[q] = run[q]
    BY <1>0, <1>12 DEF Flush
  <2>2. CoverOK(p)'
    BY <2>1 DEF CoverOK, IdleRun, Routing
  <2>3. CASE run[p].ckpt = NoCheckpoint
    BY <1>6, <1>12, <2>1, <2>2, <2>3 DEF Flush
  <2>4. CASE run[p].ckpt # NoCheckpoint
    <3>1. /\ checkpoint' = run[p].ckpt /\ run[p].ckpt \in Nat
          /\ run[p].from \in Nat
      BY <1>12, <2>0, <2>4 DEF Flush, RunType
    <3>2. ASSUME NEW r \in Routes
          PROVE  1..checkpoint' \subseteq delivered'[r] \cup waived'[r]
      <4>1. 1..run[p].from \subseteq delivered'[r] \cup waived'[r]
        BY <1>2 DEF CoverInv, CoverOK
      <4>2. run[p].batch = (run[p].from + 1)..run[p].ckpt
        BY <2>4 DEF CoverInv, CoverOK
      <4>3. CASE r \in Lenient(run[p])
        <5>1. run[p].batch \subseteq waived'[r]
          BY <1>12, <2>4, <4>3 DEF Flush
        <5> QED BY <3>1, <4>1, <4>2, <5>1
      <4>4. CASE run[p].result[r] = "delivered"
        <5>1. run[p].batch \subseteq delivered'[r]
          BY <1>2, <4>4 DEF CoverInv, RunOK
        <5> QED BY <3>1, <4>1, <4>2, <5>1
      <4> QED BY <2>4, <4>3, <4>4 DEF CoverInv, CoverOK
    <3> QED
      BY <1>1, <1>4, <2>1, <2>2, <3>2 DEF CoverInv, CheckpointCovered
  <2> QED BY <2>3, <2>4
<1> QED BY <1>5, <1>7, <1>8, <1>9, <1>10, <1>11, <1>12, StepKinds

\* The initial state satisfies the invariant.
LEMMA CoverInit == Init => CoverInv
BY DEF Init, CoverInv, CheckpointCovered, RunOK, CoverOK, IdleRun, Routing

\* At-least-once delivery: no event is ever passed by the cursor unless each
\* route got it or had leave not to, where no run that moves the cursor reads
\* the dedup registry.
THEOREM Covered ==
    ASSUME RegistryUnread PROVE Spec => []CheckpointCovered
<1>1. CoverInv => CheckpointCovered
  BY DEF CoverInv
<1>2. TypeOK /\ CoverInv /\ [Next]_vars => CoverInv'
  BY CoverStep
<1> QED BY <1>1, <1>2, CoverInit, TypeCorrect, PTL DEF Spec

-----------------------------------------------------------------------------
(***************************************************************************)
(* With dedup, what the registry dropped from a batch has been delivered   *)
(* to somebody, which is all that is left of the guarantee.                *)
(***************************************************************************)

Sent(e) == \E r \in Routes : e \in delivered[r]

SentOK(p) ==
    /\ \A e \in 1..run[p].from : Sent(e)
    /\ \A e \in run[p].keys : Sent(e)
    /\ run[p].pc \in Routing /\ p \notin Backfill =>
         \E hi \in Nat :
           /\ run[p].batch \subseteq (run[p].from + 1)..hi
           /\ \A e \in (run[p].from + 1)..hi : e \in run[p].batch \/ Sent(e)
    /\ run[p].ckpt # NoCheckpoint =>
         /\ p \notin Backfill /\ run[p].from < run[p].ckpt
         /\ \A e \in 1..run[p].ckpt : Sent(e)

SentInv ==
    /\ CheckpointNeedsDelivery
    /\ \A e \in registry : Sent(e)
    /\ \A p \in Runners : RunOK(p) /\ SentOK(p)

\* Every step keeps the invariant behind CheckpointNeedsDelivery.
LEMMA SentStep ==
    ASSUME TypeOK, [Next]_vars, SentInv
    PROVE  SentInv'
<1>0. /\ run \in [Runners -> RunType] /\ run' \in [Runners -> RunType]
      /\ checkpoint \in Nat
  BY NextType DEF TypeOK
<1>1. \A q \in Runners : RunOK(q)'
  BY RunOKStep DEF SentInv
<1>2. \A s \in Routes : delivered[s] \subseteq delivered'[s]
  BY StepEffects
<1>3. \A e : Sent(e) => Sent(e)'
  BY <1>2 DEF Sent
<1>4. ASSUME NEW q \in Runners, run'[q] = run[q] PROVE SentOK(q)'
  <2>1. SentOK(q)
    BY DEF SentInv
  <2> QED BY <1>3, <1>4, <2>1 DEF SentOK
<1>5. CASE Outside
  BY <1>1, <1>3, <1>4, <1>5
     DEF Outside, SentInv, CheckpointNeedsDelivery, Sent
<1>6. ASSUME NEW p \in Runners,
             UNCHANGED <<checkpoint, registry>>,
             \A q \in Runners \ {p} : run'[q] = run[q],
             SentOK(p)'
      PROVE  SentInv'
  BY <1>1, <1>2, <1>3, <1>4, <1>6 DEF SentInv, CheckpointNeedsDelivery
<1>7. ASSUME NEW p \in Runners, Restarts(p) PROVE SentInv'
  <2>1. \A e \in 1..checkpoint : Sent(e)'
    BY <1>3 DEF SentInv, CheckpointNeedsDelivery, Sent
  <2>2. SentOK(p)'
    BY <1>0, <1>7, <2>1 DEF Restarts, SentOK
  <2> QED BY <1>6, <1>7, <2>2 DEF Restarts, Frame
<1>8. ASSUME NEW p \in Runners, Quiet(p) PROVE SentInv'
  <2>1. SentOK(p) /\ RunOK(p)
    BY DEF SentInv
  <2>2. SentOK(p)'
    BY <1>3, <1>8, <2>1 DEF Quiet, SentOK, RunOK
  <2> QED BY <1>6, <1>8, <2>2 DEF Quiet, Frame
<1>9. ASSUME NEW p \in Runners, Fetches(p) PROVE SentInv'
  <2>1. PICK lo \in Nat, hi \in Nat : FetchWindow(p, lo, hi)
                            /\ run'[p].batch = Deduplicated(p, lo..hi)
    BY <1>9 DEF Fetches
  <2>2. p \notin Backfill =>
          /\ run'[p].batch \subseteq (run[p].from + 1)..hi
          /\ \A e \in (run[p].from + 1)..hi : e \in run'[p].batch \/ Sent(e)
    BY <2>1 DEF FetchWindow, Deduplicated, SentInv
  <2>3. SentOK(p) /\ run[p].ckpt = NoCheckpoint
    BY <1>9 DEF SentInv, RunOK, Fetches
  <2>4. SentOK(p)'
    BY <1>3, <1>9, <2>2, <2>3 DEF Fetches, SentOK
  <2> QED BY <1>6, <1>9, <2>4 DEF Fetches, Frame
<1>10. ASSUME NEW p \in Runners, NEW r \in Routes,
              NEW res \in Results \ {"none"}, RouteEnds(p, r, res)
       PROVE  SentInv'
  <2>1. SentOK(p) /\ run[p].ckpt = NoCheckpoint
    BY <1>10 DEF SentInv, RunOK, RouteEnds, Routing
  <2>2. \A e \in run'[p].keys : Sent(e)'
    <3>1. CASE run'[p].keys = run[p].keys
      BY <1>3, <2>1, <3>1 DEF SentOK
    <3>2. CASE /\ run'[p].keys \subseteq run[p].batch
               /\ run[p].batch \subseteq delivered'[r]
      BY <3>2 DEF Sent
    <3> QED BY <1>10, <3>1, <3>2 DEF RouteEnds
  <2>3. SentOK(p)'
    BY <1>3, <1>10, <2>1, <2>2 DEF RouteEnds, SentOK
  <2> QED BY <1>6, <1>10, <2>3 DEF RouteEnds, Frame
<1>11. ASSUME NEW p \in Runners, FanOutDone(p) PROVE SentInv'
  <2>0. run[p] \in RunType /\ SentOK(p) /\ RunOK(p)
    BY <1>0 DEF SentInv
  <2>1. PICK last \in run[p].batch :
          /\ \A e \in run[p].batch : e <= last
          /\ run' = [run EXCEPT
                       ![p].pc = "flush",
                       ![p].ckpt = IF AllRequiredSucceeded(run[p].result)
                                      /\ p \notin Backfill
                                     THEN last ELSE NoCheckpoint]
    BY <1>11 DEF FanOutDone
  <2>2. /\ run'[p].pc = "flush" /\ run'[p].from = run[p].from
        /\ run'[p].keys = run[p].keys
        /\ run'[p].ckpt = IF AllRequiredSucceeded(run[p].result)
                             /\ p \notin Backfill THEN last ELSE NoCheckpoint
        /\ \A q \in Runners \ {p} : run'[q] = run[q]
    BY <1>0, <2>0, <2>1 DEF RunType
  <2>3. ASSUME run'[p].ckpt # NoCheckpoint
        PROVE  /\ run[p].from < last
               /\ \A e \in 1..last : Sent(e)
    <3>1. p \notin Backfill /\ AllRequiredSucceeded(run[p].result)
      BY <2>2, <2>3
    <3>2. run[p].pc \in Routing
      BY <1>11 DEF FanOutDone, Routing
    <3>3. PICK hi \in Nat :
            /\ run[p].batch \subseteq (run[p].from + 1)..hi
            /\ \A e \in (run[p].from + 1)..hi : e \in run[p].batch \/ Sent(e)
      BY <2>0, <3>1, <3>2 DEF SentOK
    <3>4. \A e \in run[p].batch : Sent(e)
      BY <2>0, <3>1 DEF AllRequiredSucceeded, RunOK, Sent
    <3>5. run[p].from \in Nat /\ last \in Nat
      BY <2>0, <2>1 DEF RunType
    <3>6. run[p].from < last /\ last <= hi
      BY <2>1, <3>3, <3>5
    <3>7. ASSUME NEW e \in 1..last PROVE Sent(e)
      <4>1. CASE e <= run[p].from
        BY <2>0, <3>5, <4>1 DEF SentOK
      <4>2. CASE e > run[p].from
        BY <3>3, <3>4, <3>5, <3>6, <4>2
      <4> QED BY <3>5, <4>1, <4>2
    <3> QED BY <3>6, <3>7
  <2>4. run'[p].ckpt # NoCheckpoint => run'[p].ckpt = last
    BY <2>2
  <2>5. SentOK(p)'
    BY <1>3, <2>0, <2>2, <2>3, <2>4 DEF SentOK, Routing
  <2> QED BY <1>6, <1>11, <2>2, <2>5 DEF FanOutDone, dbVars
<1>12. ASSUME NEW p \in Runners, Flush(p) PROVE SentInv'
  <2>0. run[p] \in RunType /\ SentOK(p)
    BY <1>0 DEF SentInv
  <2>1. run'[p] = [IdleRun EXCEPT !.pc = "release"]
        /\ \A q \in Runners \ {p} : run'[q] = run[q]
    BY <1>0, <1>12 DEF Flush
  <2>2. SentOK(p)'
    BY <2>1 DEF SentOK, IdleRun, Routing
  <2>3. \A e \in registry' : Sent(e)'
    BY <1>3, <1>12, <2>0 DEF Flush, SentOK, SentInv
  <2>4. \A e \in 1..checkpoint' : Sent(e)'
    BY <1>3, <1>12, <2>0
       DEF Flush, SentOK, SentInv, CheckpointNeedsDelivery, Sent
  <2> QED BY <1>1, <1>4, <2>1, <2>2, <2>3, <2>4
             DEF SentInv, CheckpointNeedsDelivery, Sent
<1> QED BY <1>5, <1>7, <1>8, <1>9, <1>10, <1>11, <1>12, StepKinds

\* It holds initially.
LEMMA SentInit == Init => SentInv
BY DEF Init, SentInv, CheckpointNeedsDelivery, RunOK, SentOK, IdleRun, Routing

\* With or without dedup, an event the cursor has passed was accepted by the
\* destination (or the standby) of at least one route.
THEOREM NeedsDelivery == Spec => []CheckpointNeedsDelivery
<1>1. SentInv => CheckpointNeedsDelivery
  BY DEF SentInv
<1>2. TypeOK /\ SentInv /\ [Next]_vars => SentInv'
  BY SentStep
<1> QED BY <1>1, <1>2, SentInit, TypeCorrect, PTL DEF Spec

\* The cursor is rewound only by a run whose context was stale, and never by
\* a backfill.
THEOREM RewoundOnlyByStaleContext == Spec => CursorRewoundOnlyByStaleContext
<1> DEFINE A == checkpoint' < checkpoint =>
                  \E p \in Runners \ Backfill :
                    lock = p /\ run[p].from < checkpoint
<1>1. TypeOK /\ RunsAreSerialised /\ SentInv /\ [Next]_vars => [A]_vars
  <2> SUFFICES ASSUME TypeOK, RunsAreSerialised, SentInv, [Next]_vars,
                      checkpoint' < checkpoint
               PROVE  \E p \in Runners \ Backfill :
                        lock = p /\ run[p].from < checkpoint
    OBVIOUS
  <2>1. checkpoint \in Nat /\ run \in [Runners -> RunType]
    BY DEF TypeOK
  <2>2. PICK p \in Runners : Flush(p)
    BY <2>1, StepEffects
  <2>3. lock = p
    BY <2>2 DEF Flush, RunsAreSerialised, InRun, PCs
  <2>4. run[p].ckpt # NoCheckpoint /\ checkpoint' = run[p].ckpt
    BY <2>1, <2>2 DEF Flush
  <2>5. p \notin Backfill /\ run[p].from < run[p].ckpt
    BY <2>4 DEF SentInv, SentOK
  <2>6. run[p] \in RunType /\ run[p].from \in Nat /\ run[p].ckpt \in Nat
    BY <2>1, <2>4 DEF RunType
  <2> QED BY <2>1, <2>3, <2>4, <2>5, <2>6
<1>2. TypeOK /\ SentInv /\ [Next]_vars => SentInv'
  BY SentStep
<1> QED BY <1>1, <1>2, SentInit, TypeCorrect, Serialised, PTL
           DEF Spec, CursorRewoundOnlyByStaleContext

-----------------------------------------------------------------------------
(***************************************************************************)
(* Who writes what.                                                        *)
(***************************************************************************)

\* A destination takes the batch of run p.
Sends(p) == run[p].pc \in Routing /\ \E r \in Routes : Ack(p, r)

\* The fan-out writes the run's record and the destinations, nothing else.
LEMMA RouteStepWrites ==
    ASSUME TypeOK, NEW p \in Runners, NEW r \in Routes, RouteStep(p, r)
    PROVE  /\ run[p].pc \in Routing
           /\ \A q \in Runners \ {p} : run'[q] = run[q]
           /\ UNCHANGED <<head, cacheVars, routeEnabled>>
           /\ UNCHANGED delivered \/ Ack(p, r)
<1>1. run[p].pc \in Routing
  BY DEF RouteStep, RouteWithheld, RouteSkipped, RouteRateLimited, SendOk,
         SendFails, FailoverOk, LogAndContinue, PauseStream, DisableRoute,
         UnknownPolicy, StartRetries, RetryOk, RetryExhausted, Routing
<1>2. /\ UNCHANGED <<head, cacheVars, routeEnabled>>
      /\ UNCHANGED delivered \/ Ack(p, r)
  BY DEF RouteStep, RouteWithheld, RouteSkipped, RouteRateLimited, SendOk,
         SendFails, FailoverOk, LogAndContinue, PauseStream, DisableRoute,
         UnknownPolicy, StartRetries, RetryOk, RetryExhausted, dbVars
<1>3. \E x : run' = [run EXCEPT ![p] = x]
  BY DEF RouteStep, RouteWithheld, RouteSkipped, RouteRateLimited, SendOk,
         SendFails, FailoverOk, LogAndContinue, PauseStream, DisableRoute,
         UnknownPolicy, StartRetries, RetryOk, RetryExhausted, Settle
<1>4. \A q \in Runners \ {p} : run'[q] = run[q]
  BY <1>3 DEF TypeOK
<1> QED BY <1>1, <1>2, <1>4

\* A run's step is its own: other runs and the source log are left alone, the
\* route rows and the scheduler's cache are written by the flush only, and
\* what reaches a destination is the run's batch.
LEMMA RunStepWrites ==
    ASSUME TypeOK, NEW p \in Runners, RunStep(p)
    PROVE  /\ run[p].pc # "idle"
           /\ \A q \in Runners \ {p} : run'[q] = run[q]
           /\ UNCHANGED head
           /\ UNCHANGED <<cacheVars, routeEnabled>> \/ Flush(p)
           /\ UNCHANGED delivered \/ Sends(p)
<1>1. CASE \E r \in Routes : RouteStep(p, r)
  BY <1>1, RouteStepWrites DEF Sends, Routing
<1>2. CASE ~\E r \in Routes : RouteStep(p, r)
  <2>1. /\ run[p].pc # "idle"
        /\ UNCHANGED <<head, delivered>>
        /\ UNCHANGED <<cacheVars, routeEnabled>> \/ Flush(p)
    BY <1>2 DEF RunStep, Acquire, AcquireFails, SourceRateLimited, Fetch,
        DryRun, FailoverSkipped, FailoverFails, RetryFails, FanOutDone, Flush,
        FlushFails, RunException, Release, dbVars
  <2>2. \E x : run' = [run EXCEPT ![p] = x]
    BY <1>2 DEF RunStep, Acquire, AcquireFails, SourceRateLimited, Fetch,
        DryRun, FailoverSkipped, FailoverFails, RetryFails, FanOutDone, Flush,
        FlushFails, RunException, Release
  <2>3. \A q \in Runners \ {p} : run'[q] = run[q]
    BY <2>2 DEF TypeOK
  <2> QED BY <2>1, <2>3
<1> QED BY <1>1, <1>2

-----------------------------------------------------------------------------
(***************************************************************************)
(* The scheduler's context cache.  While it is warm, a route that is       *)
(* enabled is in it, unless its row was written since it was filled; and   *)
(* then the fingerprint is not the cached one.                             *)
(***************************************************************************)

CacheInv ==
    cachedRoutes # {} =>
      \A r \in Routes : routeEnabled[r] /\ r \notin touched =>
                          r \in cachedRoutes

\* A route list a run may start with has every enabled route.
LEMMA CacheServes ==
    ASSUME CacheInv, CacheHit
    PROVE  EnabledRoutes \subseteq cachedRoutes
BY DEF CacheInv, CacheHit, EnabledRoutes

\* Every step keeps the invariant of the cache.
LEMMA CacheStep ==
    ASSUME TypeOK, CacheInv, [Next]_vars
    PROVE  CacheInv'
<1>1. CASE UNCHANGED <<cacheVars, routeEnabled>>
  BY <1>1 DEF CacheInv, cacheVars
<1>2. ASSUME NEW p \in Runners, LoadContext(p) PROVE CacheInv'
  <2>1. routeEnabled' = routeEnabled
    BY <1>2 DEF LoadContext, dbVars
  <2>2. PICK R \in SUBSET Routes :
          /\ \/ R = EnabledRoutes
             \/ p \in Polling /\ CacheHit /\ R = cachedRoutes
          /\ cachedRoutes' = IF p \in Polling THEN R ELSE cachedRoutes
          /\ touched' = IF p \in Polling /\ R = EnabledRoutes THEN {}
                                                              ELSE touched
    BY <1>2 DEF LoadContext
  <2> QED BY <2>1, <2>2 DEF CacheInv, EnabledRoutes
<1>3. ASSUME NEW p \in Runners, Flush(p) PROVE CacheInv'
  <2>1. ASSUME NEW r \in Routes, routeEnabled'[r] PROVE routeEnabled[r]
    BY <1>3, <2>1 DEF Flush
  <2>2. cachedRoutes' # {} => cachedRoutes' = cachedRoutes
                              /\ touched \subseteq touched'
    BY <1>3 DEF Flush
  <2> QED BY <2>1, <2>2 DEF CacheInv
<1>4. ASSUME NEW p \in Runners, Crash(p) PROVE CacheInv'
  BY <1>4 DEF Crash, CacheInv, dbVars
<1>5. CASE StartStream
  BY <1>5 DEF StartStream, CacheInv
<1>6. ASSUME NEW r \in Routes, SetRouteEnabled(r) PROVE CacheInv'
  BY <1>6 DEF SetRouteEnabled, CacheInv, TypeOK
<1>7. CASE Produce
  BY <1>1, <1>7 DEF Produce, dbVars
<1>8. CASE UNCHANGED vars
  BY <1>1, <1>8 DEF vars, dbVars
<1> QED BY <1>1, <1>2, <1>3, <1>4, <1>5, <1>6, <1>7, <1>8, RunStepWrites
           DEF Next

\* A run that has loaded its context did so in LoadContext.
LEMMA LoadedByLoad ==
    ASSUME TypeOK, Next, NEW p \in Runners,
           run[p].pc = "idle", run'[p].pc = "loaded"
    PROVE  \E q \in Runners : LoadContext(q)
<1>1. ASSUME NEW q \in Runners, RunStep(q) PROVE FALSE
  BY <1>1, RunStepWrites
<1>2. ASSUME NEW q \in Runners, Crash(q) PROVE FALSE
  BY <1>2 DEF Crash, TypeOK, IdleRun
<1>3. run' # run
  OBVIOUS
<1> QED BY <1>1, <1>2, <1>3 DEF Next, Produce, StartStream, SetRouteEnabled

\* A run that loads its context, from the database or from the scheduler's
\* cache (ContextCache.get_or_load), has every route that is enabled: whatever
\* operators and failure policies did to the routes in the meantime.
THEOREM CachedContextComplete == Spec => EnabledRouteIsLoaded
<1> DEFINE A == \A p \in Runners :
                  run[p].pc = "idle" /\ run'[p].pc = "loaded" =>
                    EnabledRoutes \subseteq run'[p].routes
<1>1. TypeOK /\ CacheInv /\ [Next]_vars => [A]_vars
  <2> SUFFICES ASSUME TypeOK, CacheInv, Next, NEW p \in Runners,
                      run[p].pc = "idle", run'[p].pc = "loaded"
               PROVE  EnabledRoutes \subseteq run'[p].routes
    OBVIOUS
  <2>1. PICK q \in Runners : LoadContext(q)
    BY LoadedByLoad
  <2>2. PICK R \in SUBSET Routes :
          /\ \/ R = EnabledRoutes
             \/ CacheHit /\ R = cachedRoutes
          /\ run' = [run EXCEPT ![q] = [IdleRun EXCEPT !.pc = "loaded",
                                          !.from = checkpoint, !.routes = R]]
    BY <2>1 DEF LoadContext
  <2>3. EnabledRoutes \subseteq R
    BY <2>2, CacheServes
  <2>4. q = p /\ run'[p].routes = R
    BY <2>2 DEF TypeOK, IdleRun
  <2> QED BY <2>3, <2>4
<1>2. Init => CacheInv
  BY DEF Init, CacheInv
<1>3. TypeOK /\ CacheInv /\ [Next]_vars => CacheInv'
  BY CacheStep
<1> QED BY <1>1, <1>2, <1>3, TypeCorrect, PTL DEF Spec, EnabledRouteIsLoaded

-----------------------------------------------------------------------------
(***************************************************************************)
(* The contract of Relay.  SentInv has most of it; LogInv adds that a run  *)
(* never has an event that the source does not have.                       *)
(***************************************************************************)

LogInv ==
    \A p \in Runners :
      /\ run[p].pc \in Routing => run[p].batch \subseteq 1..head
      /\ run[p].ckpt # NoCheckpoint => run[p].ckpt <= head

\* The source log only grows.
LEMMA HeadGrows ==
    ASSUME TypeOK, [Next]_vars
    PROVE  head' = head \/ Produce
<1>1. ASSUME NEW p \in Runners, LoadContext(p) \/ RunStep(p) \/ Crash(p)
      PROVE  head' = head
  BY <1>1, RunStepWrites DEF LoadContext, Crash
<1> QED BY <1>1 DEF Next, StartStream, SetRouteEnabled, vars

\* A window of the source lies within its log.
LEMMA WindowInLog ==
    ASSUME TypeOK, NEW p \in Runners, NEW lo \in Nat, NEW hi \in Nat,
           FetchWindow(p, lo, hi)
    PROVE  Deduplicated(p, lo..hi) \subseteq 1..head
<1>1. run[p].from \in Nat /\ head \in Nat
  BY DEF TypeOK, RunType
<1>2. lo >= 1 /\ hi <= head
  BY <1>1 DEF FetchWindow
<1>3. lo..hi \subseteq 1..head
  BY <1>1, <1>2
<1> QED BY <1>3 DEF Deduplicated

\* Every step keeps the runs within the log.
LEMMA LogStep ==
    ASSUME TypeOK, LogInv, [Next]_vars
    PROVE  LogInv'
<1> DEFINE OK(p) == /\ run[p].pc \in Routing => run[p].batch \subseteq 1..head
                    /\ run[p].ckpt # NoCheckpoint => run[p].ckpt <= head
<1>0. /\ run \in [Runners -> RunType] /\ run' \in [Runners -> RunType]
      /\ head \in Nat
  BY NextType DEF TypeOK
<1>1. head' \in Nat /\ head <= head'
  BY <1>0, HeadGrows DEF Produce
<1>2. 1..head \subseteq 1..head'
  BY <1>0, <1>1
<1>3. \A p \in Runners : run'[p].ckpt \in Int /\ run[p].ckpt \in Int
  BY <1>0 DEF RunType, NoCheckpoint
<1>4. ASSUME NEW p \in Runners,
             run'[p].pc \in Routing => run'[p].batch \subseteq 1..head,
             run'[p].ckpt # NoCheckpoint => run'[p].ckpt <= head
      PROVE  OK(p)'
  BY <1>0, <1>1, <1>2, <1>3, <1>4
<1>5. ASSUME NEW p \in Runners, run'[p] = run[p] PROVE OK(p)'
  BY <1>4, <1>5 DEF LogInv
<1> HIDE DEF OK
<1>6. ASSUME NEW p \in Runners, OK(p)',
             \A q \in Runners \ {p} : run'[q] = run[q]
      PROVE  LogInv'
  BY <1>5, <1>6 DEF LogInv, OK
<1>7. CASE Outside
  BY <1>5, <1>7 DEF Outside, LogInv, OK
<1>8. ASSUME NEW p \in Runners, Restarts(p) PROVE LogInv'
  BY <1>4, <1>6, <1>8 DEF Restarts, Frame
<1>9. ASSUME NEW p \in Runners, Quiet(p) PROVE LogInv'
  BY <1>4, <1>6, <1>9 DEF Quiet, Frame, LogInv
<1>10. ASSUME NEW p \in Runners, Fetches(p) PROVE LogInv'
  <2>1. run'[p].batch \subseteq 1..head
    BY <1>10, WindowInLog DEF Fetches
  <2> QED BY <1>4, <1>6, <1>10, <2>1 DEF Fetches, Frame, LogInv
<1>11. ASSUME NEW p \in Runners, NEW r \in Routes,
              NEW res \in Results \ {"none"}, RouteEnds(p, r, res)
       PROVE  LogInv'
  BY <1>4, <1>6, <1>11 DEF RouteEnds, Frame, LogInv
<1>12. ASSUME NEW p \in Runners, FanOutDone(p) PROVE LogInv'
  <2>1. PICK last \in run[p].batch :
          \E c \in {last, NoCheckpoint} :
            run' = [run EXCEPT ![p].pc = "flush", ![p].ckpt = c]
    BY <1>12 DEF FanOutDone
  <2>2. /\ run'[p].pc = "flush" /\ run'[p].ckpt \in {last, NoCheckpoint}
        /\ \A q \in Runners \ {p} : run'[q] = run[q]
    BY <1>0, <2>1 DEF RunType
  <2>3. last <= head
    BY <1>0, <1>12 DEF FanOutDone, LogInv, Routing
  <2> QED BY <1>4, <1>6, <2>2, <2>3 DEF Routing
<1>13. ASSUME NEW p \in Runners, Flush(p) PROVE LogInv'
  <2>1. /\ run'[p].pc = "release" /\ run'[p].ckpt = NoCheckpoint
        /\ \A q \in Runners \ {p} : run'[q] = run[q]
    BY <1>0, <1>13 DEF Flush, IdleRun
  <2> QED BY <1>4, <1>6, <2>1 DEF Routing
<1> QED BY <1>7, <1>8, <1>9, <1>10, <1>11, <1>12, <1>13, StepKinds

\* A step that writes no cursor: the source grows, or one destination accepts
\* events of the source, or the contract sees nothing.
LEMMA SendingStep ==
    ASSUME TypeOK, LogInv, [Next]_vars, checkpoint' = checkpoint
    PROVE  Contract!Next \/ UNCHANGED <<head, checkpoint, delivered>>
<1>1. CASE Produce
  <2>1. Contract!Grow BY <1>1 DEF Produce, dbVars, Contract!Grow
  <2> QED BY <2>1 DEF Contract!Next
<1>2. ASSUME NEW p \in Runners, Sends(p), head' = head
      PROVE  Contract!Next
  <2>1. PICK r \in Routes : Ack(p, r)
    BY <1>2 DEF Sends
  <2>2. run[p].batch \in SUBSET (1..head)
    BY <1>2 DEF Sends, LogInv
  <2>3. Contract!Accept(r)
    BY <1>2, <2>1, <2>2 DEF Ack, Contract!Accept
  <2> QED BY <2>3 DEF Contract!Next
<1>3. ASSUME NEW p \in Runners, LoadContext(p) \/ Crash(p)
      PROVE  UNCHANGED <<head, checkpoint, delivered>>
  BY <1>3 DEF LoadContext, Crash, dbVars
<1>4. CASE StartStream \/ \E r \in Routes : SetRouteEnabled(r)
  BY <1>4 DEF StartStream, SetRouteEnabled
<1>5. ASSUME NEW p \in Runners, RunStep(p)
      PROVE  Contract!Next \/ UNCHANGED <<head, checkpoint, delivered>>
  BY <1>2, <1>5, RunStepWrites
<1>6. CASE UNCHANGED vars
  BY <1>6 DEF vars, dbVars
<1> QED BY <1>1, <1>3, <1>4, <1>5, <1>6 DEF Next

\* A flush moves the cursor over events that somebody has.
LEMMA MovingStep ==
    ASSUME TypeOK, LogInv, SentInv, [Next]_vars, checkpoint' # checkpoint
    PROVE  Contract!Next
<1>0. run \in [Runners -> RunType] /\ head \in Nat
  BY DEF TypeOK
<1>1. PICK p \in Runners : Flush(p)
  BY StepEffects
<1>2. run[p].ckpt # NoCheckpoint /\ checkpoint' = run[p].ckpt
  BY <1>1 DEF Flush
<1>3. run[p].ckpt \in Nat /\ run[p].ckpt <= head
  BY <1>0, <1>2 DEF LogInv, RunType
<1>4. checkpoint' \in 0..head
  BY <1>0, <1>2, <1>3
<1>5. \A e \in 1..checkpoint' : Contract!Accepted(e)
  BY <1>2 DEF SentInv, SentOK, Sent, Contract!Accepted
<1>6. Contract!Move
  BY <1>1, <1>4, <1>5 DEF Flush, Contract!Move
<1> QED BY <1>6 DEF Contract!Next

\* The stream's runs, with retries, standbys, backfills, failed flushes,
\* crashes and the dedup registry, implement the contract of a stream.
THEOREM RunsImplementRelay == Spec => ImplementsRelay
<1>1. Init => Contract!Init
  BY DEF Init, Contract!Init
<1>2. Init => LogInv
  BY DEF Init, LogInv, IdleRun, Routing
<1>3. TypeOK /\ LogInv /\ [Next]_vars => LogInv'
  BY LogStep
<1>4. TypeOK /\ SentInv /\ [Next]_vars => SentInv'
  BY SentStep
<1>5. TypeOK /\ LogInv /\ SentInv /\ [Next]_vars =>
        [Contract!Next]_(Contract!relayVars)
  BY SendingStep, MovingStep DEF Contract!relayVars
<1> QED BY <1>1, <1>2, <1>3, <1>4, <1>5, SentInit, TypeCorrect, PTL
           DEF Spec, ImplementsRelay, Contract!Spec

-----------------------------------------------------------------------------
(***************************************************************************)
(* Where the replay row of a delivered batch comes from.                   *)
(***************************************************************************)

KeptOK(p) ==
    /\ run[p].pc = "retry" => RetriesHere(p)
    /\ \A r \in Routes :
         run[p].rows[r] # 0 => \/ run[p].result[r] \in {"failed", "absorbed"}
                               \/ Policy[r] = "RETRY_AND_BACKOFF"
    /\ run[p].pc \in Routing =>
         \A r \in run[p].todo : run[p].result[r] = "none"

KeptInv == \A p \in Runners : RunOK(p) /\ KeptOK(p)

\* Every step keeps it.
LEMMA KeptStep ==
    ASSUME TypeOK, KeptInv, [Next]_vars, NEW q \in Runners
    PROVE  KeptOK(q)'
<1>0. /\ run \in [Runners -> RunType] /\ run[q] \in RunType
      /\ run'[q] \in RunType
  BY NextType DEF TypeOK
<1>1. KeptOK(q) /\ RunOK(q)
  BY DEF KeptInv
<1>a. ASSUME run'[q].todo = run[q].todo, RetriesHere(q) PROVE RetriesHere(q)'
  BY <1>a DEF RetriesHere, AtRoute
<1>2. CASE run'[q] = run[q]
  BY <1>1, <1>2, <1>a DEF KeptOK
<1>3. CASE Restarts(q)
  BY <1>3 DEF Restarts, KeptOK, Routing
<1>4. CASE Quiet(q)
  <2>1. run'[q].pc = "retry" => RetriesHere(q)'
    BY <1>1, <1>4, <1>a DEF Quiet, KeptOK
  <2> QED BY <1>1, <1>4, <2>1 DEF Quiet, KeptOK
<1>5. CASE Fetches(q)
  <2>1. \A r \in Routes : run[q].result[r] = "none"
    BY <1>1, <1>5 DEF RunOK, Fetches, Routing
  <2>2. run[q].routes \subseteq Routes
    BY <1>0 DEF RunType
  <2> QED BY <1>1, <1>5, <2>1, <2>2 DEF Fetches, KeptOK
<1>6. ASSUME NEW r \in Routes, NEW res \in Results \ {"none"},
             RouteEnds(q, r, res)
      PROVE  KeptOK(q)'
  <2>1. /\ run'[q].result[r] = res
        /\ \A s \in Routes \ {r} : run'[q].result[s] = run[q].result[s]
    BY <1>0, <1>6 DEF RouteEnds, RunType
  <2>2. \A s \in run'[q].todo : run'[q].result[s] = "none"
    <3>1. run'[q].todo = run[q].todo \ {r} /\ run[q].todo \subseteq Routes
      BY <1>0, <1>6 DEF RouteEnds, RunType
    <3> QED BY <1>1, <1>6, <2>1, <3>1 DEF RouteEnds, KeptOK
  <2>3. ASSUME NEW s \in Routes, run'[q].rows[s] # 0
        PROVE  run'[q].result[s] \in {"failed", "absorbed"}
               \/ Policy[s] = "RETRY_AND_BACKOFF"
    <3>1. CASE s # r
      BY <1>1, <1>6, <2>1, <2>3, <3>1 DEF RouteEnds, KeptOK
    <3>2. CASE s = r /\ run[q].pc = "retry"
      BY <1>1, <1>6, <3>2 DEF RouteEnds, KeptOK, RetriesHere
    <3>3. CASE s = r /\ res \in {"failed", "absorbed"}
      BY <2>1, <3>3
    <3>4. CASE s = r /\ run'[q].rows = run[q].rows
      <4>1. run[q].result[r] = "none"
        BY <1>1, <1>6 DEF RouteEnds, KeptOK, AtRoute
      <4> QED BY <1>1, <2>3, <3>4, <4>1 DEF KeptOK
    <3> QED BY <1>6, <3>1, <3>2, <3>3, <3>4 DEF RouteEnds
  <2> QED BY <1>6, <2>2, <2>3 DEF RouteEnds, KeptOK
<1>7. CASE FanOutDone(q)
  <2>1. PICK c : run' = [run EXCEPT ![q].pc = "flush", ![q].ckpt = c]
    BY <1>7 DEF FanOutDone
  <2>2. /\ run'[q].pc = "flush" /\ run'[q].rows = run[q].rows
        /\ run'[q].result = run[q].result
    BY <1>0, <2>1 DEF RunType
  <2> QED BY <1>1, <2>2 DEF KeptOK, Routing
<1>8. CASE Flush(q)
  <2>1. run'[q] = [IdleRun EXCEPT !.pc = "release"]
    BY <1>0, <1>8 DEF Flush
  <2>2. run'[q].pc = "release" /\ run'[q].rows = [r \in Routes |-> 0]
    BY <2>1 DEF IdleRun
  <2> QED BY <2>2 DEF KeptOK, Routing
<1>9. ASSUME NEW p \in Runners \ {q},
             \/ Restarts(p) \/ Quiet(p) \/ Fetches(p)
             \/ \E r \in Routes, res \in Results \ {"none"} :
                  RouteEnds(p, r, res)
             \/ FanOutDone(p) \/ Flush(p)
      PROVE  run'[q] = run[q]
  BY <1>0, <1>9 DEF Restarts, Quiet, Fetches, RouteEnds, Frame, FanOutDone,
                    Flush
<1>10. CASE Outside
  BY <1>2, <1>10 DEF Outside
<1> QED BY <1>2, <1>3, <1>4, <1>5, <1>6, <1>7, <1>8, <1>9, <1>10, StepKinds

\* A delivered batch waits to be replayed only where a retry delivered it
\* (_send_route_events records the first failure after a successful retry):
\* a standby that took it, or another route's failure, never leaves a row.
THEOREM KeptOnlyByRetry == Spec => []DeliveredKeptOnlyByRetry
<1>1. Init => KeptInv
  BY DEF Init, KeptInv, KeptOK, RunOK, IdleRun, Routing
<1>2. TypeOK /\ KeptInv /\ [Next]_vars => KeptInv'
  BY KeptStep, RunOKStep DEF KeptInv
<1>3. TypeOK /\ KeptInv => DeliveredKeptOnlyByRetry
  BY DEF KeptInv, KeptOK, DeliveredKeptOnlyByRetry, TypeOK, RunType
<1> QED BY <1>1, <1>2, <1>3, TypeCorrect, PTL DEF Spec

\* A disabled route is taken up only from the scheduler's cache: where nothing
\* polls, a run starts with enabled routes only.
THEOREM DisabledOnlyFromCache ==
    ASSUME Polling = {} PROVE Spec => DisabledRouteNotLoaded
<1> DEFINE A == \A p \in Runners :
                  run[p].pc = "idle" /\ run'[p].pc = "loaded" =>
                    run'[p].routes \subseteq EnabledRoutes
<1>1. TypeOK /\ [Next]_vars => [A]_vars
  <2> SUFFICES ASSUME TypeOK, Next, NEW p \in Runners,
                      run[p].pc = "idle", run'[p].pc = "loaded"
               PROVE  run'[p].routes \subseteq EnabledRoutes
    OBVIOUS
  <2>1. PICK q \in Runners : LoadContext(q)
    BY LoadedByLoad
  <2>2. run' = [run EXCEPT ![q] = [IdleRun EXCEPT !.pc = "loaded",
                              !.from = checkpoint, !.routes = EnabledRoutes]]
    BY <2>1 DEF LoadContext
  <2>3. q = p /\ run'[p].routes = EnabledRoutes
    BY <2>2 DEF TypeOK, IdleRun
  <2> QED BY <2>3
<1> QED BY <1>1, TypeCorrect, PTL DEF Spec, DisabledRouteNotLoaded
=============================================================================
