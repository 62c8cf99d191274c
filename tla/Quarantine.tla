------------------------------ MODULE Quarantine ------------------------------
(***************************************************************************)
(* Quarantine next to the runs of a stream.                                *)
(*                                                                         *)
(* The policy stage of a route may put the route's batch in quarantine: it *)
(* writes a row, in a transaction of its own or, in a run that was given a *)
(* session, in the transaction of the run's flush.  Operators release or   *)
(* discard rows, one by one or in bulk.  A release sends the stored batch  *)
(* to its route and moves the stream's cursor to the end of that batch, in *)
(* the operator's transaction and without the stream's run lock.           *)
(*                                                                         *)
(* A request is one transaction over all its rows.  A row that another     *)
(* transaction has locked is an SQL error (NOWAIT), after which PostgreSQL *)
(* refuses further statements and turns COMMIT into ROLLBACK.              *)
(*                                                                         *)
(* Runs are StreamRun's, at the grain the quarantine can tell apart: a     *)
(* route got the batch, was quarantined, was passed over with leave, or    *)
(* failed.  The source is a log of events 1..MaxEvent.                     *)
(***************************************************************************)
EXTENDS Integers

CONSTANTS
    Routes,      \* route ids; the fan-out visits them in increasing order
    Runners,     \* processes that may run this stream
    Backfill,    \* backfill replays: a window of the source, no checkpoint
    Session,     \* runs given the caller's db session
    Operators,   \* requests of operators
    Bulk,        \* those that are bulk requests
    Rows,        \* bound: the ids of quarantine rows there may be
    KeepMax,     \* _MAX_EVENTS, the events a row holds
    Page,        \* most events of one batch
    MaxEvent,    \* bound: the length of the source log
    MaxBulk,     \* bound: ids of one request
    NoRunner,    \* nobody wrote the row
    NoOperator   \* a row is not locked

ASSUME QuarantineAssumption ==
    /\ Routes \subseteq Nat
    /\ Rows \subseteq Nat
    /\ Backfill \subseteq Runners
    /\ Session \subseteq Runners
    /\ Bulk \subseteq Operators
    /\ KeepMax \in Nat \ {0}
    /\ Page \in Nat \ {0}
    /\ MaxEvent \in Nat
    /\ MaxBulk \in Nat \ {0}
    /\ NoRunner \notin Runners
    /\ NoOperator \notin Operators

VARIABLES
    \* Database rows and their locks.
    checkpoint,  \* the cursor of the stream
    rows,        \* [Rows -> the quarantine row]
    locked,      \* [Rows -> the request whose transaction holds the row]
    \* Process state.
    run,         \* [Runners -> the run in hand]
    tx,          \* [Operators -> the request in hand]
    \* The world outside.
    delivered    \* [Routes -> events the route's destination accepted]

vars == <<checkpoint, rows, locked, run, tx, delivered>>

NoCheckpoint == -1

NoRow == [status |-> "none", route |-> 0, first |-> 1, last |-> 0,
          by |-> NoRunner]

IdleRun ==
    [pc      |-> "idle",
     from    |-> 0,       \* cursor in the loaded context
     first   |-> 1,       \* the batch is first..last
     last    |-> 0,
     todo    |-> {},      \* routes not yet visited
     sent    |-> FALSE,   \* some route got the batch
     held    |-> {},      \* routes the policy quarantined
     blocked |-> FALSE]   \* a required route failed or was rate limited

IdleTx ==
    [pc     |-> "idle",
     what   |-> "release",
     left   |-> 0,                           \* ids not yet done
     row    |-> 0,                           \* the row being released
     marks  |-> [q \in Rows |-> "none"],     \* statuses written
     before |-> 0,                           \* cursor in the session
     wrote  |-> FALSE,                       \* holds the checkpoint row
     ckpt   |-> NoCheckpoint]                \* cursor written

Init ==
    /\ checkpoint = 0
    /\ rows = [q \in Rows |-> NoRow]
    /\ locked = [q \in Rows |-> NoOperator]
    /\ run = [p \in Runners |-> IdleRun]
    /\ tx = [o \in Operators |-> IdleTx]
    /\ delivered = [r \in Routes |-> {}]

-----------------------------------------------------------------------------
(***************************************************************************)
(* Runs.                                                                   *)
(***************************************************************************)

opVars == <<locked, tx>>

\* The context is loaded before the run lock is taken.
Load(p) ==
    /\ run[p].pc = "idle"
    /\ run' = [run EXCEPT ![p].pc = "loaded", ![p].from = checkpoint]
    /\ UNCHANGED <<checkpoint, rows, opVars, delivered>>

\* The run lock is free (a run holds it from Begin to its end).
LockFree == \A p \in Runners : run[p].pc # "fanout"

\* The lock is taken and a batch is fetched, or the run is over at once.
Begin(p) ==
    /\ run[p].pc = "loaded"
    /\ \/ run' = [run EXCEPT ![p] = IdleRun]
       \/ /\ LockFree
          /\ \E lo, hi \in 1..MaxEvent :
               /\ lo <= hi
               /\ p \notin Backfill => lo = run[p].from + 1 /\ hi < lo + Page
               /\ run' = [run EXCEPT ![p] = [IdleRun EXCEPT
                            !.pc = "fanout", !.first = lo, !.last = hi,
                            !.todo = Routes]]
    /\ UNCHANGED <<checkpoint, rows, opVars, delivered>>

AtRoute(p, r) ==
    /\ run[p].pc = "fanout"
    /\ r \in run[p].todo
    /\ \A s \in run[p].todo : r <= s

RouteSent(p, r) ==
    /\ AtRoute(p, r)
    /\ delivered' = [delivered EXCEPT ![r] = @ \cup
                                             run[p].first..run[p].last]
    /\ run' = [run EXCEPT ![p].todo = @ \ {r}, ![p].sent = TRUE]
    /\ UNCHANGED <<checkpoint, rows, opVars>>

\* The route is not sent the batch: with leave (absorbed, blocked by policy,
\* disabled), or because it failed or was rate limited.
RouteUnsent(p, r, blocks) ==
    /\ AtRoute(p, r)
    /\ run' = [run EXCEPT ![p].todo = @ \ {r},
                          ![p].blocked = @ \/ blocks]
    /\ UNCHANGED <<checkpoint, rows, opVars, delivered>>

\* _snapshot_events: a row holds the first KeepMax events of the batch.
SnapshotEnd(first, last) ==
    IF last < first + KeepMax THEN last ELSE first + KeepMax - 1

\* Mutant of RouteQuarantined: a row that cannot be written is only logged.
RouteQuarantinedBestEffort(p, r) ==
    /\ AtRoute(p, r)
    /\ run' = [run EXCEPT ![p].todo = @ \ {r}, ![p].held = @ \cup {r}]
    /\ UNCHANGED <<checkpoint, rows, opVars, delivered>>

\* route_policy_stage decides "quarantine" and the row is written.  A row
\* that cannot be written raises QuarantinePersistenceError: AbandonRun.
RouteQuarantined(p, r) ==
    /\ AtRoute(p, r)
    /\ \E q \in Rows :
         /\ rows[q].status = "none"
         /\ \A k \in Rows : rows[k].status = "none" => q <= k
         /\ rows' = [rows EXCEPT ![q] =
                       [status |-> IF p \in Session THEN "staged"
                                                    ELSE "quarantined",
                        route  |-> r,
                        first  |-> run[p].first,
                        last   |-> SnapshotEnd(run[p].first, run[p].last),
                        by     |-> p]]
    /\ run' = [run EXCEPT ![p].todo = @ \ {r}, ![p].held = @ \cup {r}]
    /\ UNCHANGED <<checkpoint, opVars, delivered>>

\* The rows after the transaction of run p ended.
EndStaged(p, committed) ==
    [q \in Rows |->
       IF rows[q].status = "staged" /\ rows[q].by = p
         THEN IF committed THEN [rows[q] EXCEPT !.status = "quarantined"]
                           ELSE NoRow
         ELSE rows[q]]

\* Mutant of Advances: nobody failed, so the batch may be passed.
AdvancesUnsent(p) ==
    ~run[p].blocked /\ p \notin Backfill

\* _route_delivery_fan_out_outcome: some route got the batch, none that had
\* to failed; a backfill does not persist the checkpoint.
Advances(p) ==
    run[p].sent /\ ~run[p].blocked /\ p \notin Backfill

\* No request's transaction has written the stream's checkpoint row.
CheckpointRowFree == \A o \in Operators : ~tx[o].wrote

\* _flush_pending_writes; it waits for an operator's transaction to let go of
\* the checkpoint row.
Flush(p) ==
    /\ run[p].pc = "fanout"
    /\ run[p].todo = {}
    /\ Advances(p) => CheckpointRowFree
    /\ checkpoint' = IF Advances(p) THEN run[p].last ELSE checkpoint
    /\ rows' = EndStaged(p, TRUE)
    /\ run' = [run EXCEPT ![p] = IdleRun]
    /\ UNCHANGED <<opVars, delivered>>

\* An exception, a flush that is rolled back, or the death of the process.
AbandonRun(p) ==
    /\ run[p].pc # "idle"
    /\ rows' = EndStaged(p, FALSE)
    /\ run' = [run EXCEPT ![p] = IdleRun]
    /\ UNCHANGED <<checkpoint, opVars, delivered>>

-----------------------------------------------------------------------------
(***************************************************************************)
(* Requests of operators.                                                  *)
(***************************************************************************)

\* A request with n ids: any ids, in any order, so that each is chosen when
\* its turn comes.
Request(o, what, n) ==
    /\ tx[o].pc = "idle"
    /\ tx' = [tx EXCEPT ![o] = [IdleTx EXCEPT !.pc = "lock", !.what = what,
                                              !.left = n]]
    /\ UNCHANGED <<run, checkpoint, rows, locked, delivered>>

\* The request after it is done with an id.  Nothing looks at what or before
\* once they have served.
Advance(t) ==
    [t EXCEPT !.left = @ - 1,
              !.row = 0,
              !.before = 0,
              !.what = IF t.left = 1 THEN "release" ELSE @,
              !.pc = IF t.left = 1 THEN "commit" ELSE "lock"]

\* The transaction of request o ends: its rows are unlocked.
Unlock(o) ==
    /\ locked' = [q \in Rows |-> IF locked[q] = o THEN NoOperator
                                                  ELSE locked[q]]
    /\ tx' = [tx EXCEPT ![o] = IdleTx]

\* The status a request sees: its own write, else the committed row.
Seen(o, q) ==
    IF tx[o].marks[q] = "none" THEN rows[q].status ELSE tx[o].marks[q]

\* The row is in the table for everyone to see.
Committed(q) == rows[q].status \notin {"none", "staged"}

\* There is no such row.
NotFound(o) ==
    /\ tx[o].pc = "lock"
    /\ tx' = [tx EXCEPT ![o] = Advance(@)]
    /\ UNCHANGED <<run, checkpoint, rows, locked, delivered>>

\* Mutant of Take: the row is read without FOR UPDATE.
TakeUnlocked(o, q) ==
    /\ tx[o].pc = "lock"
    /\ Committed(q)

\* _lock_quarantine_row gets the row.
Take(o, q) ==
    /\ tx[o].pc = "lock"
    /\ Committed(q)
    /\ locked[q] \in {NoOperator, o}

\* The row is released or discarded already.
Refuse(o, q) ==
    /\ Take(o, q)
    /\ Seen(o, q) # "quarantined"
    /\ locked' = [locked EXCEPT ![q] = o]
    /\ tx' = [tx EXCEPT ![o] = Advance(@)]
    /\ UNCHANGED <<run, checkpoint, rows, delivered>>

\* Mutant of Discard: the status of the row is not looked at.
DiscardAnyRow(o, q) ==
    /\ Take(o, q)
    /\ tx[o].what = "discard"
    /\ locked' = [locked EXCEPT ![q] = o]
    /\ tx' = [tx EXCEPT ![o] = [Advance(@) EXCEPT !.marks[q] = "discarded"]]
    /\ UNCHANGED <<run, checkpoint, rows, delivered>>

\* discard_quarantine_event.
Discard(o, q) ==
    /\ Take(o, q)
    /\ tx[o].what = "discard"
    /\ Seen(o, q) = "quarantined"
    /\ locked' = [locked EXCEPT ![q] = o]
    /\ tx' = [tx EXCEPT ![o] = [Advance(@) EXCEPT !.marks[q] = "discarded"]]
    /\ UNCHANGED <<run, checkpoint, rows, delivered>>

\* execute_quarantine_release up to the send: the checkpoint is read.
ReleaseRow(o, q) ==
    /\ Take(o, q)
    /\ tx[o].what = "release"
    /\ Seen(o, q) = "quarantined"
    /\ locked' = [locked EXCEPT ![q] = o]
    /\ tx' = [tx EXCEPT ![o].pc = "send",
                        ![o].row = q,
                        ![o].before = IF tx[o].ckpt = NoCheckpoint
                                        THEN checkpoint ELSE tx[o].ckpt]
    /\ UNCHANGED <<run, checkpoint, rows, delivered>>

\* deliver_protected_events_to_routes succeeds on the row's route.
ReleaseSent(o, q) ==
    /\ tx[o].pc = "send"
    /\ q = tx[o].row
    /\ delivered' = [delivered EXCEPT ![rows[q].route] =
                                        @ \cup rows[q].first..rows[q].last]
    /\ tx' = [tx EXCEPT ![o].pc = "save"]
    /\ UNCHANGED <<run, checkpoint, rows, locked>>

\* Mutant of ReleaseFailed: LOG_AND_CONTINUE absorbs the only failure.
ReleaseFailureAbsorbed(o, q) ==
    /\ tx[o].pc = "send"
    /\ q = tx[o].row
    /\ tx' = [tx EXCEPT ![o] = [Advance(@) EXCEPT !.marks[q] = "released"]]
    /\ UNCHANGED <<run, checkpoint, rows, locked, delivered>>

\* The send failed, or the route is not actionable: the row stays as it is.
ReleaseFailed(o, q) ==
    /\ tx[o].pc = "send"
    /\ q = tx[o].row
    /\ tx' = [tx EXCEPT ![o] = Advance(@)]
    /\ UNCHANGED <<run, checkpoint, rows, locked, delivered>>

\* _update_checkpoint_after_release and the new status, flushed.  The UPDATE
\* waits for the checkpoint row, and leaves the value out when it is the one
\* the session read.
ReleaseSaved(o, q) ==
    /\ tx[o].pc = "save"
    /\ q = tx[o].row
    /\ \A s \in Operators \ {o} : ~tx[s].wrote
    /\ tx' = [tx EXCEPT ![o] = [Advance(@) EXCEPT
                !.marks[q] = "released",
                !.wrote = TRUE,
                !.ckpt = IF rows[q].last = tx[o].before THEN tx[o].ckpt
                                                        ELSE rows[q].last]]
    /\ UNCHANGED <<run, checkpoint, rows, locked, delivered>>

\* The update of the checkpoint raises, before it has written anything: the
\* row stays as it is although its batch was sent, and the request goes on.
ReleaseUnsaved(o, q) ==
    /\ tx[o].pc = "save"
    /\ q = tx[o].row
    /\ tx' = [tx EXCEPT ![o] = Advance(@)]
    /\ UNCHANGED <<run, checkpoint, rows, locked, delivered>>

Marked(o) == {q \in Rows : tx[o].marks[q] # "none"}

\* The transaction commits and the request answers.
Commit(o) ==
    /\ tx[o].pc = "commit"
    /\ rows' = [q \in Rows |->
                  IF q \in Marked(o)
                    THEN [rows[q] EXCEPT !.status = tx[o].marks[q]]
                    ELSE rows[q]]
    /\ checkpoint' = IF tx[o].ckpt = NoCheckpoint THEN checkpoint
                                                  ELSE tx[o].ckpt
    /\ Unlock(o)
    /\ UNCHANGED <<run, delivered>>

\* Another transaction holds the row, and this one is aborted: the next
\* statement of a bulk raises, or, after its last row, COMMIT rolls back.
Busy(o, q) ==
    /\ tx[o].pc = "lock"
    /\ locked[q] \notin {NoOperator, o}
    /\ Unlock(o)
    /\ UNCHANGED <<run, checkpoint, rows, delivered>>

\* The process dies: the transaction is rolled back.
OperatorCrash(o) ==
    /\ tx[o].pc # "idle"
    /\ Unlock(o)
    /\ UNCHANGED <<run, checkpoint, rows, delivered>>

RunStep(p) ==
    \/ Load(p) \/ Begin(p) \/ Flush(p) \/ AbandonRun(p)
    \/ \E r \in Routes \cap run[p].todo :
         \/ RouteSent(p, r)
         \/ RouteQuarantined(p, r)
         \/ \E blocks \in BOOLEAN : RouteUnsent(p, r, blocks)

RowStep(o, q) ==
    \/ Refuse(o, q) \/ Discard(o, q) \/ ReleaseRow(o, q) \/ Busy(o, q)
    \/ ReleaseSent(o, q) \/ ReleaseFailed(o, q)
    \/ ReleaseSaved(o, q) \/ ReleaseUnsaved(o, q)

\* How many ids a request may name.
Sizes(o) == IF o \in Bulk THEN 1..MaxBulk ELSE {1}

OperatorStep(o) ==
    \/ \E what \in {"release", "discard"}, n \in Sizes(o) : Request(o, what, n)
    \/ \E q \in Rows : RowStep(o, q)
    \/ NotFound(o)
    \/ Commit(o)
    \/ OperatorCrash(o)

Next ==
    \/ \E p \in Runners : RunStep(p)
    \/ \E o \in Operators : OperatorStep(o)

Spec == Init /\ [][Next]_vars

-----------------------------------------------------------------------------
(***************************************************************************)
(* Properties.                                                             *)
(***************************************************************************)

Decided == {"released", "discarded"}

RowType ==
    [status : {"none", "staged", "quarantined"} \cup Decided,
     route : Routes \cup {0}, first : Nat, last : Nat,
     by : Runners \cup {NoRunner}]

RunType ==
    [pc : {"idle", "loaded", "fanout"}, from : Nat, first : Nat, last : Nat,
     todo : SUBSET Routes, sent : BOOLEAN, held : SUBSET Routes,
     blocked : BOOLEAN]

TxType ==
    [pc : {"idle", "lock", "send", "save", "commit"},
     what : {"release", "discard"}, left : Nat, row : Nat,
     marks : [Rows -> {"none"} \cup Decided], before : Nat,
     wrote : BOOLEAN, ckpt : Nat \cup {NoCheckpoint}]

\* The types of the quarantine's rows, the runs and the transactions, and
\* that a request acts only on rows it has locked.
QuarantineTypeOK ==
    /\ checkpoint \in Nat
    /\ rows \in [Rows -> RowType]
    /\ locked \in [Rows -> Operators \cup {NoOperator}]
    /\ run \in [Runners -> RunType]
    /\ tx \in [Operators -> TxType]
    /\ \A o \in Operators :
         /\ \A q \in Marked(o) : locked[q] = o
         /\ tx[o].pc \in {"send", "save"} => locked[tx[o].row] = o
    /\ delivered \in [Routes -> SUBSET Nat]

\* The cursor never passes an event that no destination accepted, whether a
\* run moves it or a release does, from whatever the release last read.
CursorNeedsDelivery ==
    \A e \in 1..checkpoint : \E r \in Routes : e \in delivered[r]

\* A stream as its users see it.
Contract ==
    INSTANCE Relay WITH log <- MaxEvent, cursor <- checkpoint,
                        got <- delivered

\* Runs and releases together keep the contract of Relay: each moves the
\* cursor in a step of its own, whatever the other did since it read it, and
\* only over events that somebody accepted before.
ImplementsRelay == Contract!Spec

\* A row that reads released was delivered to its route, all of it: through
\* crashes, failed sends and concurrent requests.
ReleasedWasDelivered ==
    \A q \in Rows :
      rows[q].status = "released" =>
        rows[q].first..rows[q].last \subseteq delivered[rows[q].route]

\* A committed row of the route holds the event.
OnRecord(r, e) ==
    \E q \in Rows : /\ rows[q].status \notin {"none", "staged"}
                    /\ rows[q].route = r
                    /\ e \in rows[q].first..rows[q].last

\* The run flushes and moves the cursor.
PassesBatch(p) ==
    /\ run[p].pc = "fanout"
    /\ run'[p].pc = "idle"
    /\ checkpoint' # checkpoint

\* When a run moves the cursor past a batch that a quarantine kept from a
\* route, the first KeepMax events of the batch are on record: the row and the
\* cursor may be written in different transactions, and the row may have been
\* released or discarded by then.
QuarantinedOnRecord ==
    [][\A p \in Runners :
         PassesBatch(p) =>
           \A r \in run[p].held, e \in run[p].first..run[p].last :
             e < run[p].first + KeepMax => OnRecord(r, e)']_vars

\* A row that was released or discarded never changes again.
DecidedRowsFinal ==
    [][\A q \in Rows : rows[q].status \in Decided => rows'[q] = rows[q]]_vars

=============================================================================
