--------------------------- MODULE QuarantineProofs ---------------------------
(***************************************************************************)
(* Proofs about Quarantine, for any routes, runs, requests and rows.       *)
(*                                                                         *)
(* CoreInv says what a request's transaction may rely on: the rows it has  *)
(* marked are locked by it and still quarantined, and those it marks as    *)
(* released have been sent.  CoverInv adds that everything below a cursor, *)
(* a batch, a row or a cursor yet to be committed was accepted somewhere,  *)
(* and RecordInv that what a run holds back is in a row.                   *)
(***************************************************************************)
EXTENDS Quarantine, TLAPS

\* The row's events have all reached its route.
Whole(q) == rows[q].first..rows[q].last \subseteq delivered[rows[q].route]

\* What request o's transaction relies on.
TxOK(o) ==
    /\ tx[o].pc \in {"lock", "send", "save"} => tx[o].left # 0
    /\ \A q \in Rows :
         tx[o].marks[q] # "none" =>
           locked[q] = o /\ rows[q].status = "quarantined"
    /\ \A q \in Rows : tx[o].marks[q] = "released" => Whole(q)
    /\ tx[o].pc \in {"send", "save"} =>
         /\ tx[o].row \in Rows
         /\ locked[tx[o].row] = o
         /\ rows[tx[o].row].status = "quarantined"
    /\ tx[o].pc = "save" => Whole(tx[o].row)

Types ==
    /\ checkpoint \in Nat
    /\ rows \in [Rows -> RowType]
    /\ locked \in [Rows -> Operators \cup {NoOperator}]
    /\ run \in [Runners -> RunType]
    /\ tx \in [Operators -> TxType]
    /\ delivered \in [Routes -> SUBSET Nat]

RoutesOK == \A q \in Rows : rows[q].status # "none" => rows[q].route \in Routes

CoreInv ==
    /\ Types
    /\ RoutesOK
    /\ \A o \in Operators : TxOK(o)
    /\ ReleasedWasDelivered

\* Deliveries are never taken back.
DeliveriesGrow == \A r \in Routes : delivered[r] \subseteq delivered'[r]

-----------------------------------------------------------------------------

\* Records without content.
LEMMA IdleRecords ==
  /\ NoRow \in RowType /\ NoRow.status = "none"
  /\ IdleRun \in RunType /\ IdleRun.pc = "idle"
  /\ IdleTx \in TxType /\ IdleTx.pc = "idle"
  /\ \A q \in Rows : IdleTx.marks[q] = "none"
  /\ IdleTx.ckpt = NoCheckpoint
<1> USE QuarantineAssumption
<1>1. NoRow \in RowType /\ NoRow.status = "none" BY DEF NoRow, RowType
<1>2. IdleRun \in RunType /\ IdleRun.pc = "idle" BY DEF IdleRun, RunType
<1>3. [q \in Rows |-> "none"] \in [Rows -> {"none"} \cup Decided] OBVIOUS
<1>4. IdleTx \in TxType BY <1>3 DEF IdleTx, TxType, NoCheckpoint
<1>5. /\ IdleTx.pc = "idle"
      /\ \A q \in Rows : IdleTx.marks[q] = "none"
      /\ IdleTx.ckpt = NoCheckpoint
  BY DEF IdleTx
<1> QED BY <1>1, <1>2, <1>4, <1>5

\* The initial state.
LEMMA CoreInit == Init => CoreInv
<1> SUFFICES ASSUME Init PROVE CoreInv OBVIOUS
<1> USE DEF Init
<1>1. Types BY IdleRecords DEF Types
<1>2. RoutesOK BY IdleRecords DEF RoutesOK
<1>3. \A o \in Operators : TxOK(o)
  BY IdleRecords DEF TxOK
<1>4. ReleasedWasDelivered BY IdleRecords DEF ReleasedWasDelivered
<1> QED BY <1>1, <1>2, <1>3, <1>4 DEF CoreInv

\* A row that is not the run's to write stays whole.
LEMMA StaysWhole ==
  ASSUME CoreInv, DeliveriesGrow, NEW q \in Rows, rows[q].status # "none",
         rows'[q].route = rows[q].route, rows'[q].first = rows[q].first,
         rows'[q].last = rows[q].last, Whole(q)
  PROVE  Whole(q)'
BY DEF CoreInv, RoutesOK, DeliveriesGrow, Whole

\* A run's step: committed rows stay as they are, and none becomes released.
LEMMA RunCore ==
  ASSUME CoreInv, DeliveriesGrow, UNCHANGED <<locked, tx>>,
         checkpoint' \in Nat,
         run' \in [Runners -> RunType],
         rows' \in [Rows -> RowType],
         delivered' \in [Routes -> SUBSET Nat],
         \A q \in Rows : rows[q].status \notin {"none", "staged"} =>
                           rows'[q] = rows[q],
         \A q \in Rows : rows'[q].status # "none" => rows'[q].route \in Routes,
         \A q \in Rows : rows'[q].status = "released" => rows'[q] = rows[q]
  PROVE  CoreInv'
<1>1. Types' BY DEF CoreInv, Types
<1>2. RoutesOK' BY DEF RoutesOK
<1>3. ASSUME NEW o \in Operators PROVE TxOK(o)'
  <2>1. TxOK(o) BY DEF CoreInv
  <2>2. tx'[o] = tx[o] /\ tx[o] \in TxType BY DEF CoreInv, Types
  <2>3. \A q \in Rows :
          rows[q].status \notin {"none", "staged"} /\ Whole(q) => Whole(q)'
    BY StaysWhole
  <2> QED BY <2>1, <2>2, <2>3 DEF TxOK
<1>4. ReleasedWasDelivered'
  BY DEF CoreInv, RoutesOK, ReleasedWasDelivered, DeliveriesGrow
<1> QED BY <1>1, <1>2, <1>3, <1>4 DEF CoreInv

\* A request's step that does not commit.
LEMMA RequestCore ==
  ASSUME CoreInv, DeliveriesGrow, UNCHANGED <<run, checkpoint, rows>>,
         delivered' \in [Routes -> SUBSET Nat],
         NEW o \in Operators, NEW t \in TxType,
         tx' = [tx EXCEPT ![o] = t],
         locked' \in [Rows -> Operators \cup {NoOperator}],
         \A q \in Rows : locked'[q] = locked[q] \/ locked[q] \in {NoOperator, o},
         TxOK(o)'
  PROVE  CoreInv'
<1>1. Types' BY DEF CoreInv, Types
<1>2. RoutesOK' BY DEF CoreInv, RoutesOK
<1>3. ASSUME NEW s \in Operators \ {o} PROVE TxOK(s)'
  <2>1. TxOK(s) BY DEF CoreInv
  <2>2. tx'[s] = tx[s] /\ tx[s] \in TxType BY DEF CoreInv, Types
  <2>3. \A q \in Rows : rows[q].status # "none" /\ Whole(q) => Whole(q)'
    BY StaysWhole
  <2>4. \A q \in Rows : locked[q] = s => locked'[q] = s
    BY QuarantineAssumption
  <2> QED BY <2>1, <2>2, <2>3, <2>4 DEF TxOK
<1>4. ReleasedWasDelivered'
  BY DEF CoreInv, RoutesOK, ReleasedWasDelivered, DeliveriesGrow
<1> QED BY <1>1, <1>2, <1>3, <1>4 DEF CoreInv

-----------------------------------------------------------------------------
(***************************************************************************)
(* CoreInv is kept by the runs.                                            *)
(***************************************************************************)

\* Updates of a run's record.
LEMMA RunRecords ==
  ASSUME NEW x \in RunType
  PROVE  /\ \A n \in Nat : [x EXCEPT !.pc = "loaded", !.from = n] \in RunType
         /\ \A lo \in Nat, hi \in Nat :
              [IdleRun EXCEPT !.pc = "fanout", !.first = lo, !.last = hi,
                              !.todo = Routes] \in RunType
         /\ \A r \in Routes :
              /\ [x EXCEPT !.todo = x.todo \ {r}, !.sent = TRUE] \in RunType
              /\ [x EXCEPT !.todo = x.todo \ {r}, !.held = x.held \cup {r}] \in RunType
              /\ \A b \in BOOLEAN :
                   [x EXCEPT !.todo = x.todo \ {r}, !.blocked = b] \in RunType
<1>1. \A n \in Nat : [x EXCEPT !.pc = "loaded", !.from = n] \in RunType
  BY DEF RunType
<1>2. \A lo \in Nat, hi \in Nat :
        [IdleRun EXCEPT !.pc = "fanout", !.first = lo, !.last = hi,
                        !.todo = Routes] \in RunType
  BY DEF RunType, IdleRun
<1>3. ASSUME NEW r \in Routes
      PROVE  /\ [x EXCEPT !.todo = x.todo \ {r}, !.sent = TRUE] \in RunType
             /\ [x EXCEPT !.todo = x.todo \ {r}, !.held = x.held \cup {r}] \in RunType
             /\ \A b \in BOOLEAN :
                  [x EXCEPT !.todo = x.todo \ {r}, !.blocked = b] \in RunType
  BY DEF RunType
<1> QED BY <1>1, <1>2, <1>3

\* The variables have their types.
LEMMA CoreTypes ==
  ASSUME CoreInv
  PROVE  /\ checkpoint \in Nat
         /\ rows \in [Rows -> RowType]
         /\ locked \in [Rows -> Operators \cup {NoOperator}]
         /\ run \in [Runners -> RunType]
         /\ tx \in [Operators -> TxType]
         /\ delivered \in [Routes -> SUBSET Nat]
BY DEF CoreInv, Types

\* A run's step that leaves the rows alone.
LEMMA PlainRunCore ==
  ASSUME CoreInv, NEW p \in Runners,
         \/ Load(p) \/ Begin(p)
         \/ \E r \in Routes : RouteSent(p, r)
         \/ \E r \in Routes, b \in BOOLEAN : RouteUnsent(p, r, b)
  PROVE  CoreInv' /\ DeliveriesGrow
<1>1. UNCHANGED <<checkpoint, rows, locked, tx>>
  BY DEF Load, Begin, RouteSent, RouteUnsent, opVars
<1>2. run' \in [Runners -> RunType]
  <2>1. CASE Load(p)
    <3>1. run' = [run EXCEPT ![p] = [run[p] EXCEPT !.pc = "loaded",
                                                   !.from = checkpoint]]
      BY <2>1, CoreTypes DEF Load
    <3> QED BY <3>1, CoreTypes, RunRecords
  <2>2. CASE Begin(p)
    <3>1. CASE run' = [run EXCEPT ![p] = IdleRun] BY <3>1, CoreTypes,
            IdleRecords
    <3>2. CASE run' # [run EXCEPT ![p] = IdleRun]
      <4>1. PICK lo, hi \in 1..MaxEvent :
              run' = [run EXCEPT ![p] = [IdleRun EXCEPT
                        !.pc = "fanout", !.first = lo, !.last = hi,
                        !.todo = Routes]]
        BY <2>2, <3>2 DEF Begin
      <4>2. lo \in Nat /\ hi \in Nat BY QuarantineAssumption
      <4> QED BY <4>1, <4>2, CoreTypes, RunRecords
    <3> QED BY <3>1, <3>2
  <2>3. ASSUME NEW r \in Routes, RouteSent(p, r) PROVE run' \in [Runners -> RunType]
    <3>1. run' = [run EXCEPT ![p] = [run[p] EXCEPT !.todo = run[p].todo \ {r},
                                                   !.sent = TRUE]]
      BY <2>3, CoreTypes DEF RouteSent
    <3> QED BY <3>1, CoreTypes, RunRecords
  <2>4. ASSUME NEW r \in Routes, NEW b \in BOOLEAN, RouteUnsent(p, r, b)
        PROVE  run' \in [Runners -> RunType]
    <3>1. PICK c \in BOOLEAN :
            run' = [run EXCEPT ![p] = [run[p] EXCEPT !.todo = run[p].todo \ {r},
                                                     !.blocked = c]]
      BY <2>4, CoreTypes DEF RouteUnsent
    <3> QED BY <3>1, CoreTypes, RunRecords
  <2> QED BY <2>1, <2>2, <2>3, <2>4
<1>3. DeliveriesGrow /\ delivered' \in [Routes -> SUBSET Nat]
  <2>1. CASE delivered' = delivered BY <2>1, CoreTypes DEF DeliveriesGrow
  <2>2. ASSUME NEW r \in Routes, RouteSent(p, r)
        PROVE  DeliveriesGrow /\ delivered' \in [Routes -> SUBSET Nat]
    <3>1. run[p].first \in Nat /\ run[p].last \in Nat BY CoreTypes DEF RunType
    <3>2. run[p].first..run[p].last \subseteq Nat BY <3>1
    <3>3. delivered' = [delivered EXCEPT ![r] = @ \cup run[p].first..run[p].last]
      BY <2>2 DEF RouteSent
    <3> QED BY <3>2, <3>3, CoreTypes DEF DeliveriesGrow
  <2> QED BY <2>1, <2>2 DEF Load, Begin, RouteUnsent
<1>4. \A q \in Rows : rows'[q].status # "none" => rows'[q].route \in Routes
  BY <1>1 DEF CoreInv, RoutesOK
<1> QED BY <1>1, <1>2, <1>3, <1>4, CoreTypes, RunCore

\* A row is written for a held route.
LEMMA QuarantinedCore ==
  ASSUME CoreInv, NEW p \in Runners, NEW r \in Routes, RouteQuarantined(p, r)
  PROVE  CoreInv' /\ DeliveriesGrow
<1>1. UNCHANGED <<checkpoint, locked, tx, delivered>>
  BY DEF RouteQuarantined, opVars
<1>2. run' \in [Runners -> RunType]
  <2>1. run' = [run EXCEPT ![p] = [run[p] EXCEPT !.todo = run[p].todo \ {r},
                                                 !.held = run[p].held \cup {r}]]
    BY CoreTypes DEF RouteQuarantined
  <2> QED BY <2>1, CoreTypes, RunRecords
<1>3. PICK q \in Rows, st \in {"staged", "quarantined"} :
        /\ rows[q].status = "none"
        /\ rows' = [rows EXCEPT ![q] =
                      [status |-> st, route |-> r, first |-> run[p].first,
                       last |-> SnapshotEnd(run[p].first, run[p].last),
                       by |-> p]]
  BY DEF RouteQuarantined
<1>4. SnapshotEnd(run[p].first, run[p].last) \in Nat
  BY CoreTypes, QuarantineAssumption DEF SnapshotEnd, RunType
<1>5. [status |-> st, route |-> r, first |-> run[p].first,
       last |-> SnapshotEnd(run[p].first, run[p].last), by |-> p] \in RowType
  BY <1>4, CoreTypes DEF RowType, RunType
<1>6. /\ rows' \in [Rows -> RowType]
      /\ \A k \in Rows \ {q} : rows'[k] = rows[k]
      /\ rows'[q].status = st /\ rows'[q].route = r
  BY <1>3, <1>5, CoreTypes
<1>7. DeliveriesGrow BY <1>1 DEF DeliveriesGrow
<1>8. \A k \in Rows : rows'[k].status # "none" => rows'[k].route \in Routes
  BY <1>6 DEF CoreInv, RoutesOK
<1> QED BY <1>1, <1>2, <1>3, <1>6, <1>7, <1>8, CoreTypes, RunCore

\* The rows of a run that ended.
LEMMA StagedRows ==
  ASSUME CoreInv, NEW p \in Runners, NEW b \in BOOLEAN, NEW q \in Rows
  PROVE  /\ EndStaged(p, b)[q] \in RowType
         /\ \/ EndStaged(p, b)[q] = rows[q]
               /\ ~(rows[q].status = "staged" /\ rows[q].by = p)
            \/ /\ b /\ rows[q].status = "staged" /\ rows[q].by = p
               /\ EndStaged(p, b)[q].status = "quarantined"
               /\ EndStaged(p, b)[q].route = rows[q].route
               /\ EndStaged(p, b)[q].first = rows[q].first
               /\ EndStaged(p, b)[q].last = rows[q].last
            \/ /\ ~b /\ rows[q].status = "staged" /\ rows[q].by = p
               /\ EndStaged(p, b)[q] = NoRow
<1>1. rows[q] \in RowType BY CoreTypes
<1>2. CASE ~(rows[q].status = "staged" /\ rows[q].by = p)
  BY <1>1, <1>2 DEF EndStaged
<1>3. CASE rows[q].status = "staged" /\ rows[q].by = p /\ b
  <2>1. EndStaged(p, b)[q] = [rows[q] EXCEPT !.status = "quarantined"]
    BY <1>3 DEF EndStaged
  <2> QED BY <1>1, <1>3, <2>1 DEF RowType
<1>4. CASE rows[q].status = "staged" /\ rows[q].by = p /\ ~b
  <2>1. EndStaged(p, b)[q] = NoRow BY <1>4 DEF EndStaged
  <2> QED BY <1>4, <2>1, IdleRecords
<1> QED BY <1>2, <1>3, <1>4

\* A run ends, with or without its flush.
LEMMA EndCore ==
  ASSUME CoreInv, NEW p \in Runners, Flush(p) \/ AbandonRun(p)
  PROVE  CoreInv' /\ DeliveriesGrow
<1>1. UNCHANGED <<locked, tx, delivered>> /\ run' = [run EXCEPT ![p] = IdleRun]
  BY DEF Flush, AbandonRun, opVars
<1>2. PICK b \in BOOLEAN : rows' = EndStaged(p, b) BY DEF Flush, AbandonRun
<1>3. checkpoint' \in Nat
  BY CoreTypes DEF Flush, AbandonRun, RunType
<1>4. rows' \in [Rows -> RowType]
  <2>1. rows' = [q \in Rows |-> rows'[q]] BY <1>2 DEF EndStaged
  <2> QED BY <1>2, <2>1, StagedRows
<1>5. run' \in [Runners -> RunType] BY <1>1, CoreTypes, IdleRecords
<1>6. DeliveriesGrow BY <1>1 DEF DeliveriesGrow
<1>7. \A q \in Rows :
        /\ rows[q].status \notin {"none", "staged"} => rows'[q] = rows[q]
        /\ rows'[q].status # "none" => rows'[q].route \in Routes
        /\ rows'[q].status = "released" => rows'[q] = rows[q]
  BY <1>2, StagedRows, IdleRecords DEF CoreInv, RoutesOK
<1> QED BY <1>1, <1>3, <1>4, <1>5, <1>6, <1>7, CoreTypes, RunCore

-----------------------------------------------------------------------------
(***************************************************************************)
(* CoreInv is kept by the requests.                                        *)
(***************************************************************************)

\* The request after it is done with an id.
LEMMA AdvanceFacts ==
  ASSUME CoreInv, NEW o \in Operators, tx[o].left # 0
  PROVE  /\ Advance(tx[o]) \in TxType
         /\ Advance(tx[o]).pc \in {"lock", "commit"}
         /\ Advance(tx[o]).pc = "lock" => Advance(tx[o]).left # 0
         /\ Advance(tx[o]).marks = tx[o].marks
         /\ Advance(tx[o]).ckpt = tx[o].ckpt
<1> DEFINE t == tx[o]
<1>1. t \in TxType BY CoreTypes
<1>2. t.left \in Nat /\ t.left - 1 \in Nat BY <1>1 DEF TxType
<1>3. PICK x \in {"lock", "commit"}, w \in {"release", "discard"} :
        /\ Advance(t) = [t EXCEPT !.left = t.left - 1, !.row = 0, !.before = 0,
                                  !.what = w, !.pc = x]
        /\ x = "lock" => t.left # 1
  BY <1>1 DEF Advance, TxType
<1> DEFINE a == [t EXCEPT !.left = t.left - 1, !.row = 0, !.before = 0,
                          !.what = w, !.pc = x]
<1>4. a \in TxType BY <1>1, <1>2 DEF TxType
<1>5. /\ a.pc = x /\ a.left = t.left - 1
      /\ a.marks = t.marks /\ a.ckpt = t.ckpt
  BY <1>1 DEF TxType
<1> QED BY <1>2, <1>3, <1>4, <1>5

\* A request is done with row q, which it has locked: it leaves the row, or
\* marks it, as released only when all of it was sent.
LEMMA RowDoneCore ==
  ASSUME CoreInv, NEW o \in Operators, NEW q \in Rows, NEW t \in TxType,
         t.pc \in {"lock", "commit"}, t.pc = "lock" => t.left # 0,
         tx' = [tx EXCEPT ![o] = t],
         UNCHANGED <<run, checkpoint, rows, delivered>>,
         locked[q] \in {NoOperator, o},
         locked' = [locked EXCEPT ![q] = o],
         \/ t.marks = tx[o].marks
         \/ \E m \in Decided :
              /\ t.marks = [tx[o].marks EXCEPT ![q] = m]
              /\ rows[q].status = "quarantined"
              /\ m = "released" => Whole(q)
  PROVE  CoreInv'
<1>1. tx'[o] = t /\ tx[o] \in TxType BY CoreTypes
<1>2. /\ locked' \in [Rows -> Operators \cup {NoOperator}]
      /\ locked'[q] = o
      /\ \A k \in Rows \ {q} : locked'[k] = locked[k]
  BY CoreTypes
<1>3. DeliveriesGrow BY DEF DeliveriesGrow
<1>4. TxOK(o) BY DEF CoreInv
<1>5. \A k \in Rows : tx[o].marks[k] # "none" => locked'[k] = o
  BY <1>2, <1>4 DEF TxOK
<1>6. /\ \A k \in Rows : t.marks[k] # "none" =>
           locked'[k] = o /\ rows[k].status = "quarantined"
      /\ \A k \in Rows : t.marks[k] = "released" => Whole(k)
  <2>1. CASE t.marks = tx[o].marks BY <1>4, <1>5, <2>1 DEF TxOK
  <2>2. ASSUME NEW m \in Decided,
               t.marks = [tx[o].marks EXCEPT ![q] = m],
               rows[q].status = "quarantined",
               m = "released" => Whole(q)
        PROVE  <1>6!1 /\ <1>6!2
    <3>1. t.marks[q] = m /\ \A k \in Rows \ {q} : t.marks[k] = tx[o].marks[k]
      BY <1>1, <2>2 DEF TxType
    <3> QED BY <1>2, <1>4, <1>5, <2>2, <3>1 DEF TxOK
  <2> QED BY <2>1, <2>2
<1>7. \A k \in Rows : Whole(k)' <=> Whole(k) BY DEF Whole
<1>8. TxOK(o)'
  BY <1>1, <1>6, <1>7 DEF TxOK
<1> QED BY <1>2, <1>3, <1>8, CoreTypes, RequestCore

\* What a request that may change row q knows.
LEMMA TakeFacts ==
  ASSUME CoreInv, NEW o \in Operators, NEW q \in Rows, Take(o, q)
  PROVE  /\ tx[o].left # 0
         /\ locked[q] \in {NoOperator, o}
         /\ Seen(o, q) = "quarantined" => rows[q].status = "quarantined"
<1>1. tx[o].pc = "lock" /\ locked[q] \in {NoOperator, o} BY DEF Take
<1>2. tx[o].left # 0 BY <1>1 DEF CoreInv, TxOK
<1>3. tx[o].marks[q] \in {"none"} \cup Decided BY CoreTypes DEF TxType
<1> QED BY <1>1, <1>2, <1>3 DEF Seen, Decided

\* Refusing and discarding.
LEMMA DiscardCore ==
  ASSUME CoreInv, NEW o \in Operators, NEW q \in Rows,
         Refuse(o, q) \/ Discard(o, q)
  PROVE  CoreInv' /\ DeliveriesGrow
<1>1. /\ Take(o, q)
      /\ locked' = [locked EXCEPT ![q] = o]
      /\ UNCHANGED <<run, checkpoint, rows, delivered>>
  BY DEF Refuse, Discard
<1>2. DeliveriesGrow BY <1>1 DEF DeliveriesGrow
<1> DEFINE a == Advance(tx[o])
<1>3. /\ a \in TxType /\ a.pc \in {"lock", "commit"}
      /\ a.pc = "lock" => a.left # 0
      /\ a.marks = tx[o].marks
  BY <1>1, TakeFacts, AdvanceFacts
<1> HIDE DEF a
<1>4. CASE Refuse(o, q)
  <2>1. tx' = [tx EXCEPT ![o] = a] BY <1>4, CoreTypes DEF Refuse, a
  <2> QED BY <1>1, <1>2, <1>3, <2>1, TakeFacts, RowDoneCore
<1>5. CASE Discard(o, q)
  <2> DEFINE t == [a EXCEPT !.marks = [a.marks EXCEPT ![q] = "discarded"]]
  <2>1. tx' = [tx EXCEPT ![o] = [a EXCEPT !.marks[q] = "discarded"]]
    BY <1>5, CoreTypes DEF Discard, a
  <2>2. tx' = [tx EXCEPT ![o] = t] BY <1>3, <2>1 DEF TxType
  <2>3. [a.marks EXCEPT ![q] = "discarded"] \in [Rows -> {"none"} \cup Decided]
    BY <1>3 DEF TxType, Decided
  <2>4. /\ t \in TxType /\ t.pc = a.pc /\ t.left = a.left
        /\ t.marks = [tx[o].marks EXCEPT ![q] = "discarded"]
    BY <1>3, <2>3 DEF TxType
  <2>5. rows[q].status = "quarantined" BY <1>1, <1>5, TakeFacts DEF Discard
  <2>6. "discarded" \in Decided BY DEF Decided
  <2> HIDE DEF t
  <2>7. \E m \in Decided :
          /\ t.marks = [tx[o].marks EXCEPT ![q] = m]
          /\ rows[q].status = "quarantined"
          /\ m = "released" => Whole(q)
    BY <2>4, <2>5, <2>6
  <2>8. locked[q] \in {NoOperator, o} BY <1>1, TakeFacts
  <2> QED BY <1>1, <1>2, <1>3, <2>2, <2>4, <2>7, <2>8, RowDoneCore
<1> QED BY <1>4, <1>5

\* A release up to its send, and the send.
LEMMA ReleaseCore ==
  ASSUME CoreInv, NEW o \in Operators, NEW q \in Rows,
         ReleaseRow(o, q) \/ ReleaseSent(o, q)
  PROVE  CoreInv' /\ DeliveriesGrow
<1>1. UNCHANGED <<run, checkpoint, rows>> BY DEF ReleaseRow, ReleaseSent
<1>2. tx[o] \in TxType /\ TxOK(o) BY CoreTypes DEF CoreInv
<1>3. CASE ReleaseRow(o, q)
  <2>1. /\ Take(o, q) /\ Seen(o, q) = "quarantined" /\ delivered' = delivered
        /\ locked' = [locked EXCEPT ![q] = o]
        /\ tx[o].pc = "lock"
    BY <1>3 DEF ReleaseRow, Take
  <2>2. DeliveriesGrow BY <2>1 DEF DeliveriesGrow
  <2>3. PICK n \in Nat :
          tx' = [tx EXCEPT ![o] = [tx[o] EXCEPT !.pc = "send", !.row = q,
                                                !.before = n]]
    <3>1. (IF tx[o].ckpt = NoCheckpoint THEN checkpoint ELSE tx[o].ckpt) \in Nat
      BY <1>2, CoreTypes DEF TxType
    <3> QED BY <1>3, <3>1, CoreTypes DEF ReleaseRow
  <2> DEFINE t == [tx[o] EXCEPT !.pc = "send", !.row = q, !.before = n]
  <2>4. /\ t \in TxType /\ t.pc = "send" /\ t.row = q
        /\ t.left = tx[o].left /\ t.marks = tx[o].marks
    BY <1>2, QuarantineAssumption DEF TxType
  <2> HIDE DEF t
  <2>5. tx' = [tx EXCEPT ![o] = t] /\ tx'[o] = t BY <2>3, CoreTypes DEF t
  <2>6. /\ locked' \in [Rows -> Operators \cup {NoOperator}]
        /\ locked'[q] = o
        /\ \A k \in Rows \ {q} : locked'[k] = locked[k]
    BY <2>1, CoreTypes
  <2>7. \A k \in Rows : Whole(k)' <=> Whole(k) BY <1>1, <2>1 DEF Whole
  <2>8. TxOK(o)'
    BY <1>1, <1>2, <2>1, <2>4, <2>5, <2>6, <2>7, TakeFacts DEF TxOK
  <2> QED BY <1>1, <2>1, <2>2, <2>4, <2>5, <2>6, <2>8, CoreTypes, TakeFacts,
          RequestCore
<1>4. CASE ReleaseSent(o, q)
  <2>1. /\ tx[o].pc = "send" /\ q = tx[o].row /\ locked' = locked
        /\ delivered' = [delivered EXCEPT ![rows[q].route] =
                                            @ \cup rows[q].first..rows[q].last]
    BY <1>4 DEF ReleaseSent
  <2>2. rows[q].route \in Routes BY <1>2, <2>1 DEF TxOK, CoreInv, RoutesOK
  <2>3. rows[q].first..rows[q].last \subseteq Nat BY CoreTypes DEF RowType
  <2>4. DeliveriesGrow /\ delivered' \in [Routes -> SUBSET Nat]
    BY <2>1, <2>2, <2>3, CoreTypes DEF DeliveriesGrow
  <2>5. Whole(q)' BY <1>1, <2>1, <2>2, CoreTypes DEF Whole
  <2> DEFINE t == [tx[o] EXCEPT !.pc = "save"]
  <2>6. /\ t \in TxType /\ t.pc = "save" /\ t.row = tx[o].row
        /\ t.left = tx[o].left /\ t.marks = tx[o].marks
    BY <1>2 DEF TxType
  <2>7. tx' = [tx EXCEPT ![o] = t] /\ tx'[o] = t
    BY <1>4, CoreTypes DEF ReleaseSent
  <2> HIDE DEF t
  <2>8. \A k \in Rows : rows[k].status # "none" /\ Whole(k) => Whole(k)'
    BY <1>1, <2>4, StaysWhole
  <2>9. TxOK(o)'
    BY <1>1, <1>2, <2>1, <2>5, <2>6, <2>7, <2>8 DEF TxOK
  <2> QED BY <1>1, <2>1, <2>4, <2>6, <2>7, <2>9, CoreTypes, RequestCore
<1> QED BY <1>3, <1>4

\* A release that failed, before the send or after it, and one that is saved.
LEMMA ReleaseEndCore ==
  ASSUME CoreInv, NEW o \in Operators, NEW q \in Rows,
         ReleaseFailed(o, q) \/ ReleaseUnsaved(o, q) \/ ReleaseSaved(o, q)
  PROVE  CoreInv' /\ DeliveriesGrow
<1>1. /\ UNCHANGED <<run, checkpoint, rows, locked, delivered>>
      /\ tx[o].pc \in {"send", "save"} /\ q = tx[o].row
  BY DEF ReleaseFailed, ReleaseSaved, ReleaseUnsaved
<1>2. DeliveriesGrow BY <1>1 DEF DeliveriesGrow
<1>3. tx[o] \in TxType /\ TxOK(o) BY CoreTypes DEF CoreInv
<1>4. tx[o].left # 0 /\ locked[q] = o /\ rows[q].status = "quarantined"
  BY <1>1, <1>3 DEF TxOK
<1>5. locked' = [locked EXCEPT ![q] = o] BY <1>1, <1>4, CoreTypes
<1> DEFINE a == Advance(tx[o])
<1>6. /\ a \in TxType /\ a.pc \in {"lock", "commit"}
      /\ a.pc = "lock" => a.left # 0
      /\ a.marks = tx[o].marks /\ a.ckpt = tx[o].ckpt
  BY <1>4, AdvanceFacts
<1> HIDE DEF a
<1>7. CASE ReleaseFailed(o, q) \/ ReleaseUnsaved(o, q)
  <2>1. tx' = [tx EXCEPT ![o] = a]
    BY <1>7, CoreTypes DEF ReleaseFailed, ReleaseUnsaved, a
  <2> QED BY <1>1, <1>2, <1>4, <1>5, <1>6, <2>1, RowDoneCore
<1>8. CASE ReleaseSaved(o, q)
  <2>1. PICK n \in Nat \cup {NoCheckpoint} :
          tx' = [tx EXCEPT ![o] = [a EXCEPT !.marks[q] = "released",
                                            !.wrote = TRUE, !.ckpt = n]]
    <3>1. rows[q].last \in Nat /\ tx[o].ckpt \in Nat \cup {NoCheckpoint}
      BY <1>3, CoreTypes DEF RowType, TxType
    <3>2. tx' = [tx EXCEPT ![o] =
                   [a EXCEPT !.marks[q] = "released", !.wrote = TRUE,
                             !.ckpt = IF rows[q].last = tx[o].before
                                        THEN tx[o].ckpt ELSE rows[q].last]]
      BY <1>8 DEF ReleaseSaved, a
    <3> QED BY <3>1, <3>2
  <2> DEFINE m == [a.marks EXCEPT ![q] = "released"]
  <2> DEFINE t == [a EXCEPT !.marks = m, !.wrote = TRUE, !.ckpt = n]
  <2>2. tx' = [tx EXCEPT ![o] = t] BY <1>6, <2>1 DEF TxType
  <2>3. m \in [Rows -> {"none"} \cup Decided] BY <1>6 DEF TxType, Decided
  <2>4. t \in TxType /\ t.pc = a.pc /\ t.left = a.left /\ t.marks = m
    BY <1>6, <2>3 DEF TxType
  <2>5. m = [tx[o].marks EXCEPT ![q] = "released"] BY <1>6
  <2>6. Whole(q) BY <1>1, <1>3, <1>8 DEF TxOK, ReleaseSaved
  <2>7. "released" \in Decided BY DEF Decided
  <2> HIDE DEF m, t
  <2>8. \E d \in Decided :
          /\ t.marks = [tx[o].marks EXCEPT ![q] = d]
          /\ rows[q].status = "quarantined"
          /\ d = "released" => Whole(q)
    BY <1>4, <2>4, <2>5, <2>6, <2>7
  <2>9. /\ t \in TxType /\ t.pc \in {"lock", "commit"}
        /\ t.pc = "lock" => t.left # 0
    BY <1>6, <2>4
  <2>10. CoreInv' BY <1>1, <1>4, <1>5, <2>2, <2>8, <2>9, RowDoneCore
  <2> QED BY <1>2, <2>10
<1> QED BY <1>7, <1>8

\* A request arrives, or one of its ids is not found.
LEMMA RequestArrives ==
  ASSUME CoreInv, NEW o \in Operators,
         \/ \E what \in {"release", "discard"}, n \in Sizes(o) :
              Request(o, what, n)
         \/ NotFound(o)
  PROVE  CoreInv' /\ DeliveriesGrow
<1>1. UNCHANGED <<run, checkpoint, rows, locked, delivered>>
  BY DEF Request, NotFound
<1>2. DeliveriesGrow BY <1>1 DEF DeliveriesGrow
<1>3. \A k \in Rows : Whole(k)' <=> Whole(k) BY <1>1 DEF Whole
<1>4. ASSUME NEW what \in {"release", "discard"}, NEW n \in Sizes(o),
             Request(o, what, n)
      PROVE  CoreInv'
  <2>1. n \in Nat /\ n # 0 BY QuarantineAssumption DEF Sizes
  <2> DEFINE t == [IdleTx EXCEPT !.pc = "lock", !.what = what, !.left = n]
  <2>2. t \in TxType /\ t.pc = "lock" /\ t.left = n /\ t.marks = IdleTx.marks
    BY <2>1, IdleRecords DEF TxType
  <2>3. tx' = [tx EXCEPT ![o] = t] /\ tx'[o] = t
    BY <1>4, CoreTypes DEF Request
  <2> HIDE DEF t
  <2>4. TxOK(o)' BY <2>1, <2>2, <2>3, IdleRecords DEF TxOK
  <2> QED BY <1>1, <1>2, <2>2, <2>3, <2>4, CoreTypes, RequestCore
<1>5. ASSUME NotFound(o) PROVE CoreInv'
  <2> DEFINE a == Advance(tx[o])
  <2>1. TxOK(o) /\ tx[o].left # 0 BY <1>5 DEF NotFound, CoreInv, TxOK
  <2>2. /\ a \in TxType /\ a.pc \in {"lock", "commit"}
        /\ a.pc = "lock" => a.left # 0
        /\ a.marks = tx[o].marks
    BY <2>1, AdvanceFacts
  <2>3. tx' = [tx EXCEPT ![o] = a] /\ tx'[o] = a
    BY <1>5, CoreTypes DEF NotFound
  <2> HIDE DEF a
  <2>4. TxOK(o)' BY <1>1, <1>3, <2>1, <2>2, <2>3 DEF TxOK
  <2> QED BY <1>1, <1>2, <2>2, <2>3, <2>4, CoreTypes, RequestCore
<1> QED BY <1>2, <1>4, <1>5

\* The locks after a request's transaction ended.
LEMMA Unlocked ==
  ASSUME CoreInv, NEW o \in Operators, Unlock(o)
  PROVE  /\ locked' \in [Rows -> Operators \cup {NoOperator}]
         /\ \A q \in Rows : locked'[q] = locked[q] \/ locked[q] = o
         /\ tx' = [tx EXCEPT ![o] = IdleTx]
         /\ tx'[o] = IdleTx
         /\ \A s \in Operators \ {o} : tx'[s] = tx[s]
BY CoreTypes DEF Unlock

\* The transaction is rolled back.
LEMMA RollbackCore ==
  ASSUME CoreInv, NEW o \in Operators,
         OperatorCrash(o) \/ \E q \in Rows : Busy(o, q)
  PROVE  CoreInv' /\ DeliveriesGrow
<1>1. Unlock(o) /\ UNCHANGED <<run, checkpoint, rows, delivered>>
  BY DEF OperatorCrash, Busy
<1>2. DeliveriesGrow BY <1>1 DEF DeliveriesGrow
<1>3. TxOK(o)'
  <2>1. tx'[o] = IdleTx BY <1>1, Unlocked
  <2> QED BY <2>1, IdleRecords DEF TxOK
<1> QED BY <1>1, <1>2, <1>3, CoreTypes, Unlocked, IdleRecords, RequestCore

\* The rows of a commit.
LEMMA CommittedRows ==
  ASSUME CoreInv, NEW o \in Operators, Commit(o), NEW q \in Rows
  PROVE  /\ rows'[q] \in RowType
         /\ rows'[q].route = rows[q].route
         /\ rows'[q].first = rows[q].first
         /\ rows'[q].last = rows[q].last
         /\ \/ rows'[q] = rows[q] /\ tx[o].marks[q] = "none"
            \/ /\ rows[q].status = "quarantined" /\ locked[q] = o
               /\ rows'[q].status = tx[o].marks[q]
               /\ tx[o].marks[q] \in Decided
<1>1. rows[q] \in RowType /\ tx[o] \in TxType /\ TxOK(o)
  BY CoreTypes DEF CoreInv
<1>2. CASE q \notin Marked(o)
  BY <1>1, <1>2 DEF Commit, Marked
<1>3. CASE q \in Marked(o)
  <2>1. rows'[q] = [rows[q] EXCEPT !.status = tx[o].marks[q]]
    BY <1>3 DEF Commit
  <2>2. tx[o].marks[q] \in Decided BY <1>1, <1>3 DEF Marked, TxType
  <2>3. rows[q].status = "quarantined" /\ locked[q] = o
    BY <1>1, <1>3 DEF Marked, TxOK
  <2> QED BY <1>1, <2>1, <2>2, <2>3 DEF RowType
<1> QED BY <1>2, <1>3

\* A request commits: the rows it marked were its own.
LEMMA CommitCore ==
  ASSUME CoreInv, NEW o \in Operators, Commit(o)
  PROVE  CoreInv' /\ DeliveriesGrow
<1>1. Unlock(o) /\ UNCHANGED <<run, delivered>> BY DEF Commit
<1>2. DeliveriesGrow BY <1>1 DEF DeliveriesGrow
<1>3. rows' \in [Rows -> RowType]
  <2>1. rows' = [q \in Rows |-> rows'[q]] BY DEF Commit
  <2> QED BY <2>1, CommittedRows
<1>4. checkpoint' \in Nat BY CoreTypes DEF Commit, TxType
<1>5. Types' BY <1>1, <1>3, <1>4, CoreTypes, Unlocked, IdleRecords DEF Types
<1>6. RoutesOK'
  BY CommittedRows DEF CoreInv, RoutesOK
<1>7. \A q \in Rows : Whole(q)' <=> Whole(q)
  BY <1>1, CommittedRows DEF Whole
<1>8. ASSUME NEW s \in Operators PROVE TxOK(s)'
  <2>1. CASE s = o BY <1>1, <2>1, Unlocked, IdleRecords DEF TxOK
  <2>2. CASE s # o
    <3>1. tx'[s] = tx[s] /\ tx[s] \in TxType BY <1>1, <2>2, Unlocked, CoreTypes
    <3>2. TxOK(s) BY DEF CoreInv
    <3>3. \A q \in Rows : locked[q] = s => locked'[q] = s /\ rows'[q] = rows[q]
      BY <1>1, <2>2, Unlocked, CommittedRows
    <3> QED BY <1>7, <3>1, <3>2, <3>3 DEF TxOK
  <2> QED BY <2>1, <2>2
<1>9. ReleasedWasDelivered'
  <2> SUFFICES ASSUME NEW q \in Rows, rows'[q].status = "released"
               PROVE  Whole(q)'
    BY DEF ReleasedWasDelivered, Whole
  <2>1. CASE rows'[q] = rows[q]
    BY <1>7, <2>1 DEF CoreInv, ReleasedWasDelivered, Whole
  <2>2. CASE tx[o].marks[q] = rows'[q].status
    BY <1>7, <2>2 DEF CoreInv, TxOK
  <2> QED BY <2>1, <2>2, CommittedRows
<1> QED BY <1>2, <1>5, <1>6, <1>8, <1>9 DEF CoreInv

\* CoreInv is inductive, and nothing delivered is taken back.
LEMMA CoreStep == CoreInv /\ [Next]_vars => CoreInv' /\ DeliveriesGrow
<1> SUFFICES ASSUME CoreInv, [Next]_vars PROVE CoreInv' /\ DeliveriesGrow OBVIOUS
<1>1. ASSUME NEW p \in Runners, RunStep(p) PROVE CoreInv' /\ DeliveriesGrow
  BY <1>1, PlainRunCore, QuarantinedCore, EndCore DEF RunStep
<1>2. ASSUME NEW o \in Operators, OperatorStep(o) PROVE CoreInv' /\ DeliveriesGrow
  BY <1>2, RequestArrives, DiscardCore, ReleaseCore, ReleaseEndCore,
     RollbackCore, CommitCore
     DEF OperatorStep, RowStep
<1>3. CASE UNCHANGED vars
  BY <1>3 DEF vars, CoreInv, Types, RoutesOK, TxOK, Whole,
      ReleasedWasDelivered, DeliveriesGrow
<1> QED BY <1>1, <1>2, <1>3 DEF Next

-----------------------------------------------------------------------------
(***************************************************************************)
(* Theorems about the rows.                                                *)
(***************************************************************************)

\* The invariant of the requests' transactions holds in every state.
THEOREM CoreInvariant == Spec => []CoreInv
BY CoreInit, CoreStep, PTL DEF Spec

\* Every variable keeps its type, and a request acts only on rows it has
\* locked (_lock_quarantine_row).
THEOREM QuarantineTypeCorrect == Spec => []QuarantineTypeOK
<1>1. CoreInv => QuarantineTypeOK
  BY DEF CoreInv, Types, TxOK, Marked, QuarantineTypeOK
<1> QED BY <1>1, CoreInvariant, PTL

\* A row that reads released was delivered to its route, all of it
\* (execute_quarantine_release), backfills and bulk requests included.
THEOREM ReleasedDelivered == Spec => []ReleasedWasDelivered
<1>1. CoreInv => ReleasedWasDelivered BY DEF CoreInv
<1> QED BY <1>1, CoreInvariant, PTL

\* A row that was released or discarded never changes again.
THEOREM DecidedFinal == Spec => DecidedRowsFinal
<1> DEFINE Kept == \A q \in Rows : rows[q].status \in Decided => rows'[q] = rows[q]
<1>1. CoreInv /\ [Next]_vars => [Kept]_vars
  <2> SUFFICES ASSUME CoreInv, Next, NEW q \in Rows, rows[q].status \in Decided
               PROVE  rows'[q] = rows[q]
    OBVIOUS
  <2>1. rows[q].status \notin {"none", "staged", "quarantined"} BY DEF Decided
  <2>2. ASSUME NEW p \in Runners, RunStep(p) PROVE rows'[q] = rows[q]
    <3>1. ASSUME NEW b \in BOOLEAN, rows' = EndStaged(p, b)
          PROVE  rows'[q] = rows[q]
      BY <2>1, <3>1, StagedRows
    <3>2. ASSUME NEW r \in Routes, RouteQuarantined(p, r)
          PROVE  rows'[q] = rows[q]
      BY <2>1, <3>2, CoreTypes DEF RouteQuarantined
    <3> QED BY <2>2, <3>1, <3>2
            DEF RunStep, Load, Begin, Flush, AbandonRun, RouteSent, RouteUnsent
  <2>3. ASSUME NEW o \in Operators, OperatorStep(o) PROVE rows'[q] = rows[q]
    <3>1. CASE Commit(o) BY <2>1, <3>1, CommittedRows
    <3> QED BY <2>3, <3>1 DEF OperatorStep, RowStep, Request, NotFound, Refuse, Discard,
            ReleaseRow, Busy, ReleaseSent, ReleaseFailed, ReleaseSaved,
            ReleaseUnsaved, OperatorCrash
  <2> QED BY <2>2, <2>3 DEF Next
<1> QED BY <1>1, CoreInvariant, PTL DEF Spec, DecidedRowsFinal

-----------------------------------------------------------------------------
(***************************************************************************)
(* The cursor, without backfills: everything below it was accepted.        *)
(***************************************************************************)

\* Some destination accepted each of the events 1..n.
CoveredBy(d, n) == \A e \in 1..n : \E r \in Routes : e \in d[r]

CoverRuns ==
    \A p \in Runners :
      /\ run[p].pc = "loaded" => CoveredBy(delivered, run[p].from)
      /\ run[p].pc = "fanout" =>
           run[p].first >= 1 /\ CoveredBy(delivered, run[p].first - 1)
      /\ run[p].pc = "fanout" /\ run[p].sent =>
           \E r \in Routes : run[p].first..run[p].last \subseteq delivered[r]

CoverRows ==
    \A q \in Rows :
      rows[q].status # "none" =>
        rows[q].first >= 1 /\ CoveredBy(delivered, rows[q].first - 1)

CoverTxs ==
    \A o \in Operators :
      tx[o].ckpt # NoCheckpoint => CoveredBy(delivered, tx[o].ckpt)

CoverInv ==
    /\ CoveredBy(delivered, checkpoint)
    /\ CoverRuns
    /\ CoverRows
    /\ CoverTxs

\* What is covered stays covered.
LEMMA CoveredStays ==
  ASSUME DeliveriesGrow, NEW n, CoveredBy(delivered, n)
  PROVE  CoveredBy(delivered', n)
BY DEF DeliveriesGrow, CoveredBy

\* A batch that a route accepted extends what is covered.
LEMMA CoveredFurther ==
  ASSUME NEW d, NEW r \in Routes, NEW lo \in Nat, NEW hi \in Nat, lo >= 1,
         CoveredBy(d, lo - 1), lo..hi \subseteq d[r]
  PROVE  CoveredBy(d, hi)
<1> SUFFICES ASSUME NEW e \in 1..hi PROVE \E x \in Routes : e \in d[x]
  BY DEF CoveredBy
<1>1. CASE e < lo
  <2>1. e \in 1..(lo - 1) BY <1>1
  <2> QED BY <2>1 DEF CoveredBy
<1>2. CASE e >= lo
  <2>1. e \in lo..hi BY <1>2
  <2> QED BY <2>1
<1> QED BY <1>1, <1>2

\* Parts that a step leaves alone stay covered.
LEMMA CoverStays ==
  ASSUME CoverInv, DeliveriesGrow
  PROVE  /\ CoveredBy(delivered', checkpoint)
         /\ \A p \in Runners : run'[p] = run[p] =>
              /\ run'[p].pc = "loaded" => CoveredBy(delivered', run'[p].from)
              /\ run'[p].pc = "fanout" =>
                   run'[p].first >= 1 /\ CoveredBy(delivered', run'[p].first - 1)
              /\ run'[p].pc = "fanout" /\ run'[p].sent =>
                   \E r \in Routes : run'[p].first..run'[p].last \subseteq delivered'[r]
         /\ \A q \in Rows :
              rows[q].status # "none" /\ rows'[q].first = rows[q].first =>
                rows'[q].first >= 1 /\ CoveredBy(delivered', rows'[q].first - 1)
         /\ \A o \in Operators :
              tx'[o].ckpt = tx[o].ckpt /\ tx'[o].ckpt # NoCheckpoint =>
                CoveredBy(delivered', tx'[o].ckpt)
<1>1. CoveredBy(delivered', checkpoint) BY CoveredStays DEF CoverInv
<1>2. ASSUME NEW p \in Runners, run'[p] = run[p]
      PROVE  /\ run'[p].pc = "loaded" => CoveredBy(delivered', run'[p].from)
             /\ run'[p].pc = "fanout" =>
                  run'[p].first >= 1 /\ CoveredBy(delivered', run'[p].first - 1)
             /\ run'[p].pc = "fanout" /\ run'[p].sent =>
                  \E r \in Routes : run'[p].first..run'[p].last \subseteq delivered'[r]
  BY <1>2, CoveredStays DEF CoverInv, CoverRuns, DeliveriesGrow
<1>3. ASSUME NEW q \in Rows, rows[q].status # "none",
             rows'[q].first = rows[q].first
      PROVE  rows'[q].first >= 1 /\ CoveredBy(delivered', rows'[q].first - 1)
  BY <1>3, CoveredStays DEF CoverInv, CoverRows
<1>4. ASSUME NEW o \in Operators, tx'[o].ckpt = tx[o].ckpt,
             tx'[o].ckpt # NoCheckpoint
      PROVE  CoveredBy(delivered', tx'[o].ckpt)
  BY <1>4, CoveredStays DEF CoverInv, CoverTxs
<1> QED BY <1>1, <1>2, <1>3, <1>4

\* The initial state.
LEMMA CoverInit == Init => CoverInv
<1> SUFFICES ASSUME Init PROVE CoverInv OBVIOUS
<1>1. CoveredBy(delivered, checkpoint) BY DEF Init, CoveredBy
<1>2. CoverRuns BY IdleRecords DEF Init, CoverRuns
<1>3. CoverRows BY IdleRecords DEF Init, CoverRows
<1>4. CoverTxs BY IdleRecords DEF Init, CoverTxs
<1> QED BY <1>1, <1>2, <1>3, <1>4 DEF CoverInv

\* A run's step: its batch starts right behind a covered cursor.
LEMMA RunCover ==
  ASSUME CoreInv, CoverInv, DeliveriesGrow, Backfill = {},
         NEW p \in Runners, RunStep(p)
  PROVE  CoverInv'
<1>1. tx' = tx BY DEF RunStep, Load, Begin, Flush, AbandonRun, RouteSent,
                      RouteQuarantined, RouteUnsent, opVars
<1>2. CoverTxs' BY <1>1, CoverStays DEF CoverTxs
<1>3. run \in [Runners -> RunType] /\ run[p] \in RunType BY CoreTypes
<1>4. /\ run[p].from \in Nat /\ run[p].first \in Nat /\ run[p].last \in Nat
  BY <1>3 DEF RunType
<1>5. ASSUME \A s \in Runners \ {p} : run'[s] = run[s],
             run'[p].pc = "loaded" => CoveredBy(delivered', run'[p].from),
             run'[p].pc = "fanout" =>
               run'[p].first >= 1 /\ CoveredBy(delivered', run'[p].first - 1),
             run'[p].pc = "fanout" /\ run'[p].sent =>
               \E r \in Routes : run'[p].first..run'[p].last \subseteq delivered'[r]
      PROVE  CoverRuns'
  BY <1>5, CoverStays DEF CoverRuns
<1>6. ASSUME rows' = rows PROVE CoverRows'
  BY <1>6, CoverStays DEF CoverRows
<1>7. ASSUME run' = [run EXCEPT ![p] = IdleRun] PROVE CoverRuns'
  BY <1>3, <1>5, <1>7, IdleRecords
<1>8. ASSUME NEW b \in BOOLEAN, rows' = EndStaged(p, b) PROVE CoverRows'
  <2> SUFFICES ASSUME NEW q \in Rows, rows'[q].status # "none"
               PROVE  rows'[q].first >= 1 /\ CoveredBy(delivered', rows'[q].first - 1)
    BY DEF CoverRows
  <2>1. rows[q].status # "none" /\ rows'[q].first = rows[q].first
    BY <1>8, StagedRows, IdleRecords
  <2> QED BY <2>1, CoverStays
<1>9. ASSUME checkpoint' = checkpoint PROVE CoveredBy(delivered, checkpoint)'
  BY <1>9, CoverStays
<1>10. CASE Load(p)
  <2> DEFINE x == [run[p] EXCEPT !.pc = "loaded", !.from = checkpoint]
  <2>1. run' = [run EXCEPT ![p] = x] BY <1>3, <1>10 DEF Load
  <2>2. x.pc = "loaded" /\ x.from = checkpoint BY <1>3 DEF RunType
  <2> HIDE DEF x
  <2>3. CoverRuns' BY <1>3, <1>5, <2>1, <2>2, CoverStays
  <2> QED BY <1>2, <1>6, <1>9, <1>10, <2>3 DEF Load, CoverInv
<1>11. CASE Begin(p)
  <2>1. CASE run' = [run EXCEPT ![p] = IdleRun]
    BY <1>2, <1>6, <1>7, <1>9, <1>11, <2>1 DEF Begin, CoverInv
  <2>2. CASE run' # [run EXCEPT ![p] = IdleRun]
    <3>1. PICK lo, hi \in 1..MaxEvent :
            /\ lo = run[p].from + 1
            /\ run' = [run EXCEPT ![p] = [IdleRun EXCEPT
                         !.pc = "fanout", !.first = lo, !.last = hi,
                         !.todo = Routes]]
      BY <1>11, <2>2 DEF Begin
    <3> DEFINE x == [IdleRun EXCEPT !.pc = "fanout", !.first = lo, !.last = hi,
                                    !.todo = Routes]
    <3>2. x.pc = "fanout" /\ x.first = lo /\ x.sent = FALSE BY DEF IdleRun
    <3>3. run'[p] = x /\ \A s \in Runners \ {p} : run'[s] = run[s]
      BY <1>3, <3>1
    <3> HIDE DEF x
    <3>4. lo >= 1 /\ lo - 1 = run[p].from BY <1>4, <3>1
    <3>5. CoveredBy(delivered', run[p].from)
      BY <1>11, CoveredStays DEF Begin, CoverInv, CoverRuns
    <3>6. CoverRuns' BY <1>5, <3>2, <3>3, <3>4, <3>5
    <3> QED BY <1>2, <1>6, <1>9, <1>11, <3>6 DEF Begin, CoverInv
  <2> QED BY <2>1, <2>2
<1>12. ASSUME NEW r \in Routes, AtRoute(p, r), NEW x \in RunType,
              run' = [run EXCEPT ![p] = x],
              x.pc = run[p].pc, x.first = run[p].first, x.last = run[p].last,
              x.sent => run[p].sent \/ run[p].first..run[p].last \subseteq delivered'[r]
       PROVE  CoverRuns'
  <2>1. run[p].pc = "fanout" BY <1>12 DEF AtRoute
  <2>2. run'[p] = x /\ \A s \in Runners \ {p} : run'[s] = run[s] BY <1>3, <1>12
  <2>3. run[p].first >= 1 /\ CoveredBy(delivered', run[p].first - 1)
    BY <2>1, CoveredStays DEF CoverInv, CoverRuns
  <2>4. run[p].sent => \E s \in Routes : run[p].first..run[p].last \subseteq delivered'[s]
    BY <2>1 DEF CoverInv, CoverRuns, DeliveriesGrow
  <2>5. x.sent => \E s \in Routes : run[p].first..run[p].last \subseteq delivered'[s]
    BY <1>12, <2>4
  <2> QED BY <1>5, <1>12, <2>1, <2>2, <2>3, <2>5
<1>13. ASSUME NEW r \in Routes, RouteSent(p, r) PROVE CoverInv'
  <2> DEFINE x == [run[p] EXCEPT !.todo = run[p].todo \ {r}, !.sent = TRUE]
  <2>1. run' = [run EXCEPT ![p] = x] BY <1>3, <1>13 DEF RouteSent
  <2>2. x \in RunType /\ x.pc = run[p].pc /\ x.first = run[p].first /\ x.last = run[p].last
    BY <1>3 DEF RunType
  <2> HIDE DEF x
  <2>3. run[p].first..run[p].last \subseteq delivered'[r]
    BY <1>13, CoreTypes DEF RouteSent
  <2>4. CoverRuns' BY <1>12, <1>13, <2>1, <2>2, <2>3 DEF RouteSent
  <2> QED BY <1>2, <1>6, <1>9, <1>13, <2>4 DEF RouteSent, CoverInv
<1>14. ASSUME NEW r \in Routes, NEW b \in BOOLEAN, RouteUnsent(p, r, b)
       PROVE  CoverInv'
  <2>1. PICK c \in BOOLEAN :
          run' = [run EXCEPT ![p] = [run[p] EXCEPT !.todo = run[p].todo \ {r},
                                                   !.blocked = c]]
    BY <1>3, <1>14 DEF RouteUnsent
  <2> DEFINE x == [run[p] EXCEPT !.todo = run[p].todo \ {r}, !.blocked = c]
  <2>2. /\ x \in RunType /\ x.pc = run[p].pc /\ x.first = run[p].first
        /\ x.last = run[p].last /\ x.sent = run[p].sent
    BY <1>3 DEF RunType
  <2>3. run' = [run EXCEPT ![p] = x] BY <2>1
  <2> HIDE DEF x
  <2>4. CoverRuns' BY <1>12, <1>14, <2>2, <2>3 DEF RouteUnsent
  <2> QED BY <1>2, <1>6, <1>9, <1>14, <2>4 DEF RouteUnsent, CoverInv
<1>15. ASSUME NEW r \in Routes, RouteQuarantined(p, r) PROVE CoverInv'
  <2> DEFINE x == [run[p] EXCEPT !.todo = run[p].todo \ {r},
                                 !.held = run[p].held \cup {r}]
  <2>1. run' = [run EXCEPT ![p] = x] BY <1>3, <1>15 DEF RouteQuarantined
  <2>2. /\ x \in RunType /\ x.pc = run[p].pc /\ x.first = run[p].first
        /\ x.last = run[p].last /\ x.sent = run[p].sent
    BY <1>3 DEF RunType
  <2> HIDE DEF x
  <2>3. CoverRuns' BY <1>12, <1>15, <2>1, <2>2 DEF RouteQuarantined
  <2>4. PICK q \in Rows :
          /\ rows'[q].first = run[p].first
          /\ \A k \in Rows \ {q} : rows'[k] = rows[k]
    BY <1>15, CoreTypes DEF RouteQuarantined
  <2>5. run[p].first >= 1 /\ CoveredBy(delivered', run[p].first - 1)
    BY <1>15, CoveredStays DEF RouteQuarantined, AtRoute, CoverInv, CoverRuns
  <2>6. CoverRows' BY <2>4, <2>5, CoverStays DEF CoverRows
  <2> QED BY <1>2, <1>9, <1>15, <2>3, <2>6 DEF RouteQuarantined, CoverInv
<1>16. CASE Flush(p)
  <2>1. CASE Advances(p)
    <3>1. run[p].pc = "fanout" /\ run[p].sent /\ checkpoint' = run[p].last
      BY <1>16, <2>1 DEF Flush, Advances
    <3>2. PICK r \in Routes : run[p].first..run[p].last \subseteq delivered[r]
      BY <3>1 DEF CoverInv, CoverRuns
    <3>3. CoveredBy(delivered, run[p].last)
      BY <1>4, <3>1, <3>2, CoveredFurther DEF CoverInv, CoverRuns
    <3>4. CoveredBy(delivered', checkpoint') BY <3>1, <3>3, CoveredStays
    <3> QED BY <1>2, <1>7, <1>8, <1>16, <3>4 DEF Flush, CoverInv
  <2>2. CASE ~Advances(p)
    BY <1>2, <1>7, <1>8, <1>9, <1>16, <2>2 DEF Flush, CoverInv
  <2> QED BY <2>1, <2>2
<1>17. CASE AbandonRun(p)
  BY <1>2, <1>7, <1>8, <1>9, <1>17 DEF AbandonRun, CoverInv
<1> QED BY <1>10, <1>11, <1>13, <1>14, <1>15, <1>16, <1>17 DEF RunStep

\* What a request's step does to the cursor it will commit.
LEMMA RequestCursor ==
  ASSUME CoreInv, NEW o \in Operators, OperatorStep(o)
  PROVE  /\ \A s \in Operators \ {o} : tx'[s] = tx[s]
         /\ \/ tx'[o].ckpt = tx[o].ckpt
            \/ tx'[o].ckpt = NoCheckpoint
            \/ \E q \in Rows : ReleaseSaved(o, q) /\ tx'[o].ckpt = rows[q].last
<1>1. tx \in [Operators -> TxType] /\ tx[o] \in TxType BY CoreTypes
<1>2. CASE Unlock(o) BY <1>2, Unlocked, IdleRecords
<1>3. ASSUME NEW what \in {"release", "discard"}, NEW n \in Sizes(o),
             Request(o, what, n)
      PROVE  tx'[o].ckpt = NoCheckpoint /\ \A s \in Operators \ {o} : tx'[s] = tx[s]
  <2> DEFINE t == [IdleTx EXCEPT !.pc = "lock", !.what = what, !.left = n]
  <2>1. t.ckpt = NoCheckpoint BY DEF IdleTx
  <2>2. tx' = [tx EXCEPT ![o] = t] BY <1>3 DEF Request
  <2> HIDE DEF t
  <2> QED BY <1>1, <2>1, <2>2
<1>4. ASSUME NEW q \in Rows, ReleaseRow(o, q)
      PROVE  tx'[o].ckpt = tx[o].ckpt /\ \A s \in Operators \ {o} : tx'[s] = tx[s]
  BY <1>1, <1>4 DEF ReleaseRow, TxType
<1>5. ASSUME NEW q \in Rows, ReleaseSent(o, q)
      PROVE  tx'[o].ckpt = tx[o].ckpt /\ \A s \in Operators \ {o} : tx'[s] = tx[s]
  BY <1>1, <1>5 DEF ReleaseSent, TxType
<1> DEFINE a == Advance(tx[o])
<1>6. ASSUME NEW q \in Rows,
             \/ Refuse(o, q) \/ Discard(o, q)
             \/ ReleaseFailed(o, q) \/ ReleaseUnsaved(o, q) \/ ReleaseSaved(o, q)
      PROVE  a \in TxType /\ a.ckpt = tx[o].ckpt
  <2>1. tx[o].left # 0
    BY <1>6 DEF Refuse, Discard, Take, ReleaseFailed, ReleaseSaved,
        ReleaseUnsaved, CoreInv, TxOK
  <2> QED BY <2>1, AdvanceFacts
<1>7. ASSUME NEW q \in Rows,
             Refuse(o, q) \/ ReleaseFailed(o, q) \/ ReleaseUnsaved(o, q)
      PROVE  tx'[o].ckpt = tx[o].ckpt /\ \A s \in Operators \ {o} : tx'[s] = tx[s]
  <2>1. a.ckpt = tx[o].ckpt BY <1>6, <1>7
  <2>2. tx' = [tx EXCEPT ![o] = a] BY <1>7 DEF Refuse, ReleaseFailed,
          ReleaseUnsaved
  <2> HIDE DEF a
  <2> QED BY <1>1, <2>1, <2>2
<1>8. ASSUME NEW q \in Rows, Discard(o, q)
      PROVE  tx'[o].ckpt = tx[o].ckpt /\ \A s \in Operators \ {o} : tx'[s] = tx[s]
  <2>1. a \in TxType /\ a.ckpt = tx[o].ckpt BY <1>6, <1>8
  <2>2. tx' = [tx EXCEPT ![o] = [a EXCEPT !.marks[q] = "discarded"]]
    BY <1>8 DEF Discard
  <2> HIDE DEF a
  <2> QED BY <1>1, <2>1, <2>2 DEF TxType
<1>9. ASSUME NEW q \in Rows, ReleaseSaved(o, q)
      PROVE  /\ tx'[o].ckpt = tx[o].ckpt \/ tx'[o].ckpt = rows[q].last
             /\ \A s \in Operators \ {o} : tx'[s] = tx[s]
  <2>1. a \in TxType BY <1>6, <1>9
  <2>2. PICK n \in {tx[o].ckpt, rows[q].last} :
          tx' = [tx EXCEPT ![o] = [a EXCEPT !.marks[q] = "released",
                                            !.wrote = TRUE, !.ckpt = n]]
    <3>1. tx' = [tx EXCEPT ![o] =
                   [a EXCEPT !.marks[q] = "released", !.wrote = TRUE,
                             !.ckpt = IF rows[q].last = tx[o].before
                                        THEN tx[o].ckpt ELSE rows[q].last]]
      BY <1>9 DEF ReleaseSaved
    <3> HIDE DEF a
    <3> QED BY <3>1
  <2> HIDE DEF a
  <2> QED BY <1>1, <2>1, <2>2 DEF TxType
<1>10. (\E q \in Rows : Busy(o, q)) \/ OperatorCrash(o) \/ Commit(o) => Unlock(o)
  BY DEF Busy, OperatorCrash, Commit
<1>11. ASSUME NotFound(o)
       PROVE  tx'[o].ckpt = tx[o].ckpt /\ \A s \in Operators \ {o} : tx'[s] = tx[s]
  <2>1. tx[o].left # 0 BY <1>11 DEF NotFound, CoreInv, TxOK
  <2>2. a.ckpt = tx[o].ckpt BY <2>1, AdvanceFacts
  <2>3. tx' = [tx EXCEPT ![o] = a] BY <1>11 DEF NotFound
  <2> HIDE DEF a
  <2> QED BY <1>1, <2>2, <2>3
<1> QED BY <1>2, <1>3, <1>4, <1>5, <1>7, <1>8, <1>9, <1>10, <1>11
        DEF OperatorStep, RowStep

\* A request's step: it takes the cursor to the end of a row it has sent.
LEMMA OperatorCover ==
  ASSUME CoreInv, CoverInv, DeliveriesGrow, NEW o \in Operators, OperatorStep(o)
  PROVE  CoverInv'
<1>1. run' = run
  BY DEF OperatorStep, RowStep, Request, NotFound, Refuse, Discard, ReleaseRow, Busy,
      ReleaseSent, ReleaseFailed, ReleaseSaved, ReleaseUnsaved, Commit,
      OperatorCrash
<1>2. CoverRuns' BY <1>1, CoverStays DEF CoverRuns
<1>3. Commit(o) \/ UNCHANGED <<rows, checkpoint>>
  BY DEF OperatorStep, RowStep, Request, NotFound, Refuse, Discard, ReleaseRow, Busy,
      ReleaseSent, ReleaseFailed, ReleaseSaved, ReleaseUnsaved, OperatorCrash
<1>4. CoverRows'
  <2> SUFFICES ASSUME NEW q \in Rows, rows'[q].status # "none"
               PROVE  rows'[q].first >= 1 /\ CoveredBy(delivered', rows'[q].first - 1)
    BY DEF CoverRows
  <2>1. rows[q].status # "none" /\ rows'[q].first = rows[q].first
    BY <1>3, CommittedRows
  <2> QED BY <2>1, CoverStays
<1>5. CoveredBy(delivered', checkpoint')
  <2>1. CASE checkpoint' = checkpoint BY <2>1, CoverStays
  <2>2. CASE Commit(o) /\ checkpoint' = tx[o].ckpt /\ tx[o].ckpt # NoCheckpoint
    BY <2>2, CoveredStays DEF CoverInv, CoverTxs
  <2> QED BY <1>3, <2>1, <2>2 DEF Commit
<1>6. ASSUME NEW q \in Rows, ReleaseSaved(o, q)
      PROVE  CoveredBy(delivered', rows[q].last)
  <2>1. tx[o].pc = "save" /\ q = tx[o].row BY <1>6 DEF ReleaseSaved
  <2>2. rows[q].status = "quarantined" /\ Whole(q) BY <2>1 DEF CoreInv, TxOK
  <2>3. rows[q].route \in Routes BY <2>2 DEF CoreInv, RoutesOK
  <2>4. rows[q].first \in Nat /\ rows[q].last \in Nat BY CoreTypes DEF RowType
  <2>5. rows[q].first >= 1 /\ CoveredBy(delivered, rows[q].first - 1)
    BY <2>2 DEF CoverInv, CoverRows
  <2>6. rows[q].first..rows[q].last \subseteq delivered[rows[q].route]
    BY <2>2 DEF Whole
  <2>7. CoveredBy(delivered, rows[q].last)
    BY <2>3, <2>4, <2>5, <2>6, CoveredFurther
  <2> QED BY <2>7, CoveredStays
<1>7. CoverTxs'
  <2> SUFFICES ASSUME NEW s \in Operators, tx'[s].ckpt # NoCheckpoint
               PROVE  CoveredBy(delivered', tx'[s].ckpt)
    BY DEF CoverTxs
  <2>1. CASE tx'[s].ckpt = tx[s].ckpt BY <2>1, CoverStays
  <2>2. CASE tx'[s].ckpt # tx[s].ckpt
    <3>1. s = o BY <2>2, RequestCursor
    <3>2. PICK q \in Rows : ReleaseSaved(o, q) /\ tx'[o].ckpt = rows[q].last
      BY <2>2, <3>1, RequestCursor
    <3> QED BY <1>6, <3>1, <3>2
  <2> QED BY <2>1, <2>2
<1> QED BY <1>2, <1>4, <1>5, <1>7 DEF CoverInv

\* Without backfills CoverInv holds throughout.
LEMMA CoverInvariant == ASSUME Backfill = {} PROVE Spec => []CoverInv
<1>1. CoreInv /\ CoverInv /\ [Next]_vars => CoverInv'
  <2> SUFFICES ASSUME CoreInv, CoverInv, [Next]_vars PROVE CoverInv' OBVIOUS
  <2>1. DeliveriesGrow BY CoreStep
  <2>2. CASE UNCHANGED vars
    BY <2>2 DEF vars, CoverInv, CoverRuns, CoverRows, CoverTxs, CoveredBy
  <2> QED BY <2>1, <2>2, RunCover, OperatorCover DEF Next
<1> QED BY <1>1, CoverInit, CoreInvariant, PTL DEF Spec

\* The cursor never passes an event that no destination accepted, whether a
\* run moves it (_flush_pending_writes) or a release does
\* (_update_checkpoint_after_release), while no backfill fills rows.
THEOREM CursorDelivered == ASSUME Backfill = {} PROVE Spec => []CursorNeedsDelivery
<1>1. CoverInv => CursorNeedsDelivery
  BY DEF CoverInv, CoveredBy, CursorNeedsDelivery
<1> QED BY <1>1, CoverInvariant, PTL

-----------------------------------------------------------------------------
(***************************************************************************)
(* The record: what a run holds back from a route is in a row of the       *)
(* route, as far as a row reaches.                                         *)
(***************************************************************************)

\* Row q is one that the transaction of run p sees.
SeenBy(p, q) ==
    rows[q].status # "none" /\ (rows[q].status = "staged" => rows[q].by = p)

\* Row q holds the batch of run p for route r, as much of it as a row takes.
Holds(p, r, q) ==
    /\ SeenBy(p, q)
    /\ rows[q].route = r
    /\ rows[q].first = run[p].first
    /\ rows[q].last = SnapshotEnd(run[p].first, run[p].last)

RecordOf(p) ==
    run[p].pc = "fanout" =>
      \A r \in run[p].held : \E q \in Rows : Holds(p, r, q)

RecordInv == \A p \in Runners : RecordOf(p)

\* The rows that run p sees are kept, with the events they hold.
RowsKept(p) ==
    \A q \in Rows :
      SeenBy(p, q) =>
        /\ SeenBy(p, q)'
        /\ rows'[q].route = rows[q].route
        /\ rows'[q].first = rows[q].first
        /\ rows'[q].last = rows[q].last

\* No step takes a row from a run, save the end of that run itself.
LEMMA KeepsRows ==
  ASSUME CoreInv, Next, NEW p \in Runners, ~AbandonRun(p)
  PROVE  RowsKept(p)
<1>1. CASE rows' = rows BY <1>1 DEF RowsKept, SeenBy
<1>2. ASSUME NEW s \in Runners, NEW b \in BOOLEAN, s = p => b,
             rows' = EndStaged(s, b)
      PROVE  RowsKept(p)
  BY <1>2, StagedRows DEF RowsKept, SeenBy
<1>3. ASSUME NEW s \in Runners, NEW r \in Routes, RouteQuarantined(s, r)
      PROVE  RowsKept(p)
  <2>1. PICK q \in Rows : /\ rows[q].status = "none"
                          /\ \A k \in Rows \ {q} : rows'[k] = rows[k]
    BY <1>3, CoreTypes DEF RouteQuarantined
  <2> QED BY <2>1 DEF RowsKept, SeenBy
<1>4. ASSUME NEW o \in Operators, Commit(o) PROVE RowsKept(p)
  BY <1>4, CommittedRows DEF RowsKept, SeenBy, Decided
<1>5. ASSUME NEW s \in Runners, RunStep(s) PROVE RowsKept(p)
  <2>1. CASE Flush(s) BY <1>2, <2>1 DEF Flush
  <2>2. CASE AbandonRun(s) BY <1>2, <2>2 DEF AbandonRun
  <2> QED BY <1>1, <1>3, <1>5, <2>1, <2>2
          DEF RunStep, Load, Begin, RouteSent, RouteUnsent
<1>6. ASSUME NEW o \in Operators, OperatorStep(o) PROVE RowsKept(p)
  BY <1>1, <1>4, <1>6 DEF OperatorStep, RowStep, Request, NotFound, Refuse, Discard,
      ReleaseRow, Busy, ReleaseSent, ReleaseFailed, ReleaseSaved,
      ReleaseUnsaved, OperatorCrash
<1> QED BY <1>5, <1>6 DEF Next

\* The run of p goes on, with the routes it holds back on record.
LEMMA RecordKept ==
  ASSUME NEW p \in Runners, RecordOf(p), RowsKept(p), run[p].pc = "fanout",
         run'[p].first = run[p].first, run'[p].last = run[p].last,
         \A r \in run'[p].held \ run[p].held : \E q \in Rows : Holds(p, r, q)'
  PROVE  RecordOf(p)'
<1>1. \A r \in run[p].held : \E q \in Rows : Holds(p, r, q)'
  BY DEF RecordOf, Holds, RowsKept
<1> QED BY <1>1 DEF RecordOf

\* RecordInv is inductive.
LEMMA RecordStep ==
  ASSUME CoreInv, RecordInv, Next
  PROVE  RecordInv'
<1> SUFFICES ASSUME NEW p \in Runners PROVE RecordOf(p)'
  BY DEF RecordInv
<1>1. RecordOf(p) BY DEF RecordInv
<1>2. run \in [Runners -> RunType] /\ run[p] \in RunType BY CoreTypes
<1>3. CASE run'[p].pc # "fanout" BY <1>3 DEF RecordOf
<1>4. ASSUME run' = [run EXCEPT ![p] = IdleRun] PROVE RecordOf(p)'
  BY <1>2, <1>3, <1>4, IdleRecords
<1>5. ASSUME ~AbandonRun(p), run'[p] = run[p] PROVE RecordOf(p)'
  <2>1. RowsKept(p) BY <1>5, KeepsRows
  <2> QED BY <1>1, <1>3, <1>5, <2>1, RecordKept
<1>6. CASE RunStep(p)
  <2>1. CASE Load(p)
    BY <1>2, <1>3, <2>1 DEF Load, RunType
  <2>2. CASE Begin(p)
    <3>1. CASE run' = [run EXCEPT ![p] = IdleRun] BY <1>4, <3>1
    <3>2. CASE run' # [run EXCEPT ![p] = IdleRun]
      <4>1. PICK lo, hi \in 1..MaxEvent :
              run' = [run EXCEPT ![p] = [IdleRun EXCEPT
                        !.pc = "fanout", !.first = lo, !.last = hi,
                        !.todo = Routes]]
        BY <2>2, <3>2 DEF Begin
      <4> DEFINE x == [IdleRun EXCEPT !.pc = "fanout", !.first = lo,
                                      !.last = hi, !.todo = Routes]
      <4>2. x.held = {} BY DEF IdleRun
      <4>3. run'[p] = x BY <1>2, <4>1
      <4> HIDE DEF x
      <4> QED BY <4>1, <4>2, <4>3 DEF RecordOf
    <3> QED BY <3>1, <3>2
  <2>3. CASE Flush(p) \/ AbandonRun(p) BY <1>4, <2>3 DEF Flush, AbandonRun
  <2>4. ASSUME NEW r \in Routes, AtRoute(p, r), ~AbandonRun(p),
               run'[p].first = run[p].first, run'[p].last = run[p].last,
               run'[p].held = run[p].held
        PROVE  RecordOf(p)'
    <3>1. RowsKept(p) BY <2>4, KeepsRows
    <3> QED BY <1>1, <2>4, <3>1, RecordKept DEF AtRoute
  <2>5. ASSUME NEW r \in Routes, RouteSent(p, r), ~AbandonRun(p) PROVE RecordOf(p)'
    <3>1. /\ run'[p].first = run[p].first /\ run'[p].last = run[p].last
          /\ run'[p].held = run[p].held
      BY <1>2, <2>5 DEF RouteSent, RunType
    <3> QED BY <2>4, <2>5, <3>1 DEF RouteSent
  <2>6. ASSUME NEW r \in Routes, NEW b \in BOOLEAN, RouteUnsent(p, r, b),
               ~AbandonRun(p)
        PROVE  RecordOf(p)'
    <3>1. /\ run'[p].first = run[p].first /\ run'[p].last = run[p].last
          /\ run'[p].held = run[p].held
      BY <1>2, <2>6 DEF RouteUnsent, RunType
    <3> QED BY <2>4, <2>6, <3>1 DEF RouteUnsent
  <2>7. ASSUME NEW r \in Routes, RouteQuarantined(p, r), ~AbandonRun(p)
        PROVE  RecordOf(p)'
    <3>1. run[p].pc = "fanout" BY <2>7 DEF RouteQuarantined, AtRoute
    <3>2. /\ run'[p].first = run[p].first /\ run'[p].last = run[p].last
          /\ run'[p].held = run[p].held \cup {r}
      BY <1>2, <2>7 DEF RouteQuarantined, RunType
    <3>4. PICK q \in Rows, st \in {"staged", "quarantined"} :
            rows' = [rows EXCEPT ![q] =
                       [status |-> st, route |-> r, first |-> run[p].first,
                        last |-> SnapshotEnd(run[p].first, run[p].last),
                        by |-> p]]
      BY <2>7 DEF RouteQuarantined
    <3>5. /\ rows'[q].status = st /\ rows'[q].by = p /\ rows'[q].route = r
          /\ rows'[q].first = run[p].first
          /\ rows'[q].last = SnapshotEnd(run[p].first, run[p].last)
      BY <3>4, CoreTypes
    <3>6. Holds(p, r, q)' BY <3>2, <3>5 DEF Holds, SeenBy, SnapshotEnd
    <3>7. RowsKept(p) BY <2>7, KeepsRows
    <3> QED BY <1>1, <3>1, <3>2, <3>6, <3>7, RecordKept
  <2> QED BY <1>6, <2>1, <2>2, <2>3, <2>5, <2>6, <2>7 DEF RunStep
<1>7. CASE AbandonRun(p) BY <1>6, <1>7 DEF RunStep
<1>8. ASSUME NEW s \in Runners \ {p}, RunStep(s) PROVE run'[p] = run[p]
  BY <1>2, <1>8 DEF RunStep, Load, Begin, Flush, AbandonRun, RouteSent,
                    RouteQuarantined, RouteUnsent
<1>9. ASSUME NEW o \in Operators, OperatorStep(o) PROVE run'[p] = run[p]
  BY <1>9 DEF OperatorStep, RowStep, Request, NotFound, Refuse, Discard, ReleaseRow,
      Busy, ReleaseSent, ReleaseFailed, ReleaseSaved, ReleaseUnsaved, Commit,
      OperatorCrash
<1> QED BY <1>5, <1>6, <1>7, <1>8, <1>9 DEF Next

\* What a flush that moves the cursor leaves on record.
LEMMA FlushRecords ==
  ASSUME CoreInv, RecordInv, Next, NEW p \in Runners, PassesBatch(p),
         NEW r \in run[p].held, NEW e \in run[p].first..run[p].last,
         e < run[p].first + KeepMax
  PROVE  p \notin Backfill /\ OnRecord(r, e)'
<1>1. run \in [Runners -> RunType] /\ run[p] \in RunType BY CoreTypes
<1>2. Flush(p) /\ Advances(p)
  <2>1. ASSUME NEW s \in Runners, RunStep(s) PROVE Flush(s) /\ Advances(s)
    BY <2>1 DEF RunStep, Load, Begin, Flush, AbandonRun, RouteSent,
                RouteQuarantined, RouteUnsent, PassesBatch
  <2>2. ASSUME NEW o \in Operators, OperatorStep(o) PROVE run' = run
    BY <2>2 DEF OperatorStep, RowStep, Request, NotFound, Refuse, Discard, ReleaseRow,
        Busy, ReleaseSent, ReleaseFailed, ReleaseSaved, ReleaseUnsaved,
        Commit, OperatorCrash
  <2>3. PICK s \in Runners : Flush(s) /\ Advances(s)
    BY <2>1, <2>2 DEF Next, PassesBatch
  <2>4. s = p BY <1>1, <2>3 DEF Flush, PassesBatch
  <2> QED BY <2>3, <2>4
<1>3. p \notin Backfill /\ rows' = EndStaged(p, TRUE)
  BY <1>2 DEF Flush, Advances
<1>4. PICK q \in Rows : Holds(p, r, q)
  BY DEF RecordInv, RecordOf, PassesBatch
<1>5. /\ rows'[q].status \notin {"none", "staged"}
      /\ rows'[q].route = rows[q].route
      /\ rows'[q].first = rows[q].first
      /\ rows'[q].last = rows[q].last
  <2>1. \/ /\ EndStaged(p, TRUE)[q] = rows[q]
           /\ ~(rows[q].status = "staged" /\ rows[q].by = p)
        \/ /\ EndStaged(p, TRUE)[q].status = "quarantined"
           /\ EndStaged(p, TRUE)[q].route = rows[q].route
           /\ EndStaged(p, TRUE)[q].first = rows[q].first
           /\ EndStaged(p, TRUE)[q].last = rows[q].last
    BY StagedRows
  <2> QED BY <1>3, <1>4, <2>1 DEF Holds, SeenBy
<1>6. e \in run[p].first..SnapshotEnd(run[p].first, run[p].last)
  <2>1. run[p].first \in Nat /\ run[p].last \in Nat BY <1>1 DEF RunType
  <2> QED BY <2>1, QuarantineAssumption DEF SnapshotEnd
<1> QED BY <1>3, <1>4, <1>5, <1>6 DEF Holds, OnRecord

\* RecordInv holds throughout.
LEMMA RecordInvariant == Spec => []RecordInv
<1>1. Init => RecordInv BY IdleRecords DEF Init, RecordInv, RecordOf
<1>2. CoreInv /\ RecordInv /\ [Next]_vars => RecordInv'
  <2> SUFFICES ASSUME CoreInv, RecordInv, [Next]_vars PROVE RecordInv' OBVIOUS
  <2>1. CASE UNCHANGED vars
    BY <2>1 DEF vars, RecordInv, RecordOf, Holds, SeenBy
  <2> QED BY <2>1, RecordStep
<1> QED BY <1>1, <1>2, CoreInvariant, PTL DEF Spec

\* When a run moves the cursor past a batch that a quarantine kept from a
\* route, the first _MAX_EVENTS events of the batch are in committed rows of
\* the route (quarantine_route_batch, _flush_pending_writes).
THEOREM HeldOnRecord == Spec => QuarantinedOnRecord
<1> DEFINE A == \A p \in Runners :
                  PassesBatch(p) =>
                    \A r \in run[p].held, e \in run[p].first..run[p].last :
                      e < run[p].first + KeepMax => OnRecord(r, e)'
<1>1. CoreInv /\ RecordInv /\ [Next]_vars => [A]_vars
  <2> SUFFICES ASSUME CoreInv, RecordInv, Next PROVE A OBVIOUS
  <2> QED BY FlushRecords
<1> QED BY <1>1, RecordInvariant, CoreInvariant, PTL DEF Spec,
        QuarantinedOnRecord

\* A batch is chosen when a run begins and stays what it is.
LEMMA SameBatch ==
  ASSUME CoreInv, [Next]_vars, NEW p \in Runners, run'[p].pc = "fanout",
         ~Begin(p)
  PROVE  /\ run[p].pc = "fanout"
         /\ run'[p].first = run[p].first /\ run'[p].last = run[p].last
<1>1. run \in [Runners -> RunType] /\ run[p] \in RunType BY CoreTypes
<1>2. ASSUME NEW s \in Runners, RunStep(s)
      PROVE  run'[p].pc = run[p].pc /\ run'[p].first = run[p].first
             /\ run'[p].last = run[p].last
  <2>1. CASE s # p
    BY <1>1, <1>2, <2>1 DEF RunStep, Load, Begin, Flush, AbandonRun,
                            RouteSent, RouteQuarantined, RouteUnsent
  <2>2. CASE Flush(p) \/ AbandonRun(p)
    BY <1>1, <2>2, IdleRecords DEF Flush, AbandonRun
  <2>3. CASE Load(p) BY <1>1, <2>3 DEF Load, RunType
  <2>4. CASE \E r \in Routes : RouteSent(p, r)
    BY <1>1, <2>4 DEF RouteSent, RunType
  <2>5. CASE \E r \in Routes : RouteQuarantined(p, r)
    BY <1>1, <2>5 DEF RouteQuarantined, RunType
  <2>6. CASE \E r \in Routes, b \in BOOLEAN : RouteUnsent(p, r, b)
    BY <1>1, <2>6 DEF RouteUnsent, RunType
  <2> QED BY <1>2, <2>1, <2>2, <2>3, <2>4, <2>5, <2>6 DEF RunStep
<1>3. ASSUME NEW o \in Operators, OperatorStep(o) PROVE run' = run
  BY <1>3 DEF OperatorStep, RowStep, Request, NotFound, Refuse, Discard, ReleaseRow,
      Busy, ReleaseSent, ReleaseFailed, ReleaseSaved, ReleaseUnsaved, Commit,
      OperatorCrash
<1> QED BY <1>2, <1>3 DEF Next, vars

\* The batch a run begins with.
LEMMA NewBatch ==
  ASSUME CoreInv, NEW p \in Runners, Begin(p), run'[p].pc = "fanout"
  PROVE  /\ run'[p].first \in 1..MaxEvent /\ run'[p].last \in 1..MaxEvent
         /\ p \notin Backfill => run'[p].last < run'[p].first + Page
<1>1. run \in [Runners -> RunType] BY CoreTypes
<1>2. run' # [run EXCEPT ![p] = IdleRun] BY <1>1, IdleRecords
<1>3. PICK lo, hi \in 1..MaxEvent :
        /\ p \notin Backfill => hi < lo + Page
        /\ run' = [run EXCEPT ![p] = [IdleRun EXCEPT
                     !.pc = "fanout", !.first = lo, !.last = hi,
                     !.todo = Routes]]
  BY <1>2 DEF Begin
<1> DEFINE x == [IdleRun EXCEPT !.pc = "fanout", !.first = lo,
                                !.last = hi, !.todo = Routes]
<1>4. x.first = lo /\ x.last = hi BY DEF IdleRun
<1>5. run'[p] = x BY <1>1, <1>3
<1> HIDE DEF x
<1> QED BY <1>3, <1>4, <1>5

\* A run that is not a backfill fetches at most Page events.
BatchesFit ==
    \A p \in Runners \ Backfill :
      run[p].pc = "fanout" => run[p].last < run[p].first + Page

\* No batch of a run is longer than a page.
LEMMA BatchInvariant == Spec => []BatchesFit
<1>1. Init => BatchesFit BY IdleRecords DEF Init, BatchesFit
<1>2. CoreInv /\ BatchesFit /\ [Next]_vars => BatchesFit'
  BY SameBatch, NewBatch DEF BatchesFit
<1> QED BY <1>1, <1>2, CoreInvariant, PTL DEF Spec

\* Where a batch fits in a row (_MAX_EVENTS), all of the batch is on record
\* when the cursor passes it.
THEOREM WholeBatchOnRecord ==
  ASSUME Page <= KeepMax
  PROVE  Spec => [][\A p \in Runners :
                      PassesBatch(p) =>
                        \A r \in run[p].held, e \in run[p].first..run[p].last :
                          OnRecord(r, e)']_vars
<1> DEFINE A == \A p \in Runners :
                  PassesBatch(p) =>
                    \A r \in run[p].held, e \in run[p].first..run[p].last :
                      OnRecord(r, e)'
<1>1. CoreInv /\ RecordInv /\ BatchesFit /\ [Next]_vars => [A]_vars
  <2> SUFFICES ASSUME CoreInv, RecordInv, BatchesFit, Next,
                      NEW p \in Runners, PassesBatch(p),
                      NEW r \in run[p].held, NEW e \in run[p].first..run[p].last
               PROVE  OnRecord(r, e)'
    OBVIOUS
  <2>1. run[p].first \in Nat /\ run[p].last \in Nat BY CoreTypes DEF RunType
  <2>2. run[p].first \in run[p].first..run[p].last
        /\ run[p].first < run[p].first + KeepMax
    BY <2>1, QuarantineAssumption
  <2>3. p \notin Backfill BY <2>2, FlushRecords
  <2>4. run[p].last < run[p].first + Page
    BY <2>3 DEF BatchesFit, PassesBatch
  <2>5. e < run[p].first + KeepMax BY <2>1, <2>4, QuarantineAssumption
  <2> QED BY <2>5, FlushRecords
<1> QED BY <1>1, RecordInvariant, BatchInvariant, CoreInvariant, PTL DEF Spec

-----------------------------------------------------------------------------
(***************************************************************************)
(* The contract of Relay.  BoundInv says that batches, rows and cursors    *)
(* stay within the source log; CoverInv has the rest.                      *)
(***************************************************************************)

BoundInv ==
    /\ \A p \in Runners :
         run[p].pc = "fanout" => run[p].first >= 1 /\ run[p].last <= MaxEvent
    /\ \A q \in Rows :
         rows[q].status # "none" =>
           rows[q].first >= 1 /\ rows[q].last <= MaxEvent
    /\ \A o \in Operators :
         tx[o].ckpt # NoCheckpoint => tx[o].ckpt <= MaxEvent

\* A row takes no more than the batch.
LEMMA SnapshotWithin ==
  ASSUME NEW first \in Nat, NEW last \in Nat
  PROVE  SnapshotEnd(first, last) <= last
BY QuarantineAssumption DEF SnapshotEnd

\* The rows stay within the source log.
LEMMA RowsBound ==
  ASSUME CoreInv, BoundInv, [Next]_vars,
         NEW q \in Rows, rows'[q].status # "none"
  PROVE  rows'[q].first >= 1 /\ rows'[q].last <= MaxEvent
<1>1. ASSUME rows[q].status # "none", rows'[q].first = rows[q].first,
             rows'[q].last = rows[q].last
      PROVE  rows'[q].first >= 1 /\ rows'[q].last <= MaxEvent
  BY <1>1 DEF BoundInv
<1>2. ASSUME NEW p \in Runners, NEW b \in BOOLEAN, rows' = EndStaged(p, b)
      PROVE  rows'[q].first >= 1 /\ rows'[q].last <= MaxEvent
  BY <1>1, <1>2, StagedRows, IdleRecords
<1>3. ASSUME NEW p \in Runners, NEW r \in Routes, RouteQuarantined(p, r)
      PROVE  rows'[q].first >= 1 /\ rows'[q].last <= MaxEvent
  <2>1. run[p].pc = "fanout" /\ run[p].first \in Nat /\ run[p].last \in Nat
    BY <1>3, CoreTypes DEF RouteQuarantined, AtRoute, RunType
  <2>2. /\ run[p].first >= 1
        /\ SnapshotEnd(run[p].first, run[p].last) <= MaxEvent
    <3>1. SnapshotEnd(run[p].first, run[p].last) \in Nat
      BY <2>1, QuarantineAssumption DEF SnapshotEnd
    <3> QED BY <2>1, <3>1, SnapshotWithin, QuarantineAssumption DEF BoundInv
  <2>3. \/ rows'[q] = rows[q]
        \/ /\ rows'[q].first = run[p].first
           /\ rows'[q].last = SnapshotEnd(run[p].first, run[p].last)
    BY <1>3, CoreTypes DEF RouteQuarantined
  <2> QED BY <1>1, <2>2, <2>3
<1>4. ASSUME NEW p \in Runners, RunStep(p)
      PROVE  rows'[q].first >= 1 /\ rows'[q].last <= MaxEvent
  BY <1>1, <1>2, <1>3, <1>4
     DEF RunStep, Load, Begin, Flush, AbandonRun, RouteSent, RouteUnsent
<1>5. ASSUME NEW o \in Operators, OperatorStep(o)
      PROVE  rows'[q].first >= 1 /\ rows'[q].last <= MaxEvent
  <2>1. CASE Commit(o) BY <1>1, <2>1, CommittedRows
  <2> QED BY <1>1, <1>5, <2>1 DEF OperatorStep, RowStep, Request, NotFound, Refuse,
          Discard, ReleaseRow, Busy, ReleaseSent, ReleaseFailed, ReleaseSaved,
          ReleaseUnsaved, OperatorCrash
<1> QED BY <1>1, <1>4, <1>5 DEF Next, vars

\* The cursor a request will commit is the end of a row it has sent.
LEMMA CursorsBound ==
  ASSUME CoreInv, BoundInv, [Next]_vars,
         NEW o \in Operators, tx'[o].ckpt # NoCheckpoint
  PROVE  tx'[o].ckpt <= MaxEvent
<1>1. CASE tx'[o].ckpt = tx[o].ckpt BY <1>1 DEF BoundInv
<1>2. CASE tx'[o].ckpt # tx[o].ckpt
  <2>1. ASSUME NEW p \in Runners, RunStep(p) PROVE tx' = tx
    BY <2>1 DEF RunStep, Load, Begin, Flush, AbandonRun, RouteSent,
                RouteQuarantined, RouteUnsent, opVars
  <2>2. PICK s \in Operators : OperatorStep(s)
    BY <1>2, <2>1 DEF Next, vars
  <2>3. PICK q \in Rows : ReleaseSaved(o, q) /\ tx'[o].ckpt = rows[q].last
    BY <1>2, <2>2, RequestCursor
  <2>4. tx[o].pc = "save" /\ q = tx[o].row BY <2>3 DEF ReleaseSaved
  <2>5. rows[q].status = "quarantined" BY <2>4 DEF CoreInv, TxOK
  <2> QED BY <2>3, <2>5 DEF BoundInv
<1> QED BY <1>1, <1>2

\* BoundInv holds throughout, backfills or not.
LEMMA BoundInvariant == Spec => []BoundInv
<1>1. Init => BoundInv BY IdleRecords DEF Init, BoundInv
<1>2. CoreInv /\ BoundInv /\ [Next]_vars => BoundInv'
  <2> SUFFICES ASSUME CoreInv, BoundInv, [Next]_vars PROVE BoundInv' OBVIOUS
  <2>1. ASSUME NEW p \in Runners, run'[p].pc = "fanout"
        PROVE  run'[p].first >= 1 /\ run'[p].last <= MaxEvent
    <3>1. CASE Begin(p) BY <2>1, <3>1, NewBatch, QuarantineAssumption
    <3>2. CASE ~Begin(p) BY <2>1, <3>2, SameBatch DEF BoundInv
    <3> QED BY <3>1, <3>2
  <2> QED BY <2>1, RowsBound, CursorsBound DEF BoundInv
<1> QED BY <1>1, <1>2, CoreInvariant, PTL DEF Spec

\* A run's step is a step of the contract, or nothing to it.
LEMMA RunRelays ==
  ASSUME CoreInv, BoundInv, CoverInv, CoverInv', NEW p \in Runners, RunStep(p)
  PROVE  Contract!Next \/ UNCHANGED <<checkpoint, delivered>>
<1>1. ASSUME NEW r \in Routes, RouteSent(p, r) PROVE Contract!Next
  <2>1. run[p].pc = "fanout" /\ run[p].first \in Nat /\ run[p].last \in Nat
    BY <1>1, CoreTypes DEF RouteSent, AtRoute, RunType
  <2>2. run[p].first..run[p].last \in SUBSET (1..MaxEvent)
    BY <2>1, QuarantineAssumption DEF BoundInv
  <2>3. Contract!Accept(r) BY <1>1, <2>2 DEF RouteSent, Contract!Accept
  <2> QED BY <2>3 DEF Contract!Next
<1>2. ASSUME Flush(p), checkpoint' # checkpoint PROVE Contract!Next
  <2>1. run[p].pc = "fanout" /\ checkpoint' = run[p].last
    BY <1>2 DEF Flush
  <2>2. checkpoint' \in 0..MaxEvent
    BY <2>1, CoreTypes, QuarantineAssumption DEF BoundInv, RunType
  <2>3. delivered' = delivered BY <1>2 DEF Flush
  <2>4. \A e \in 1..checkpoint' : Contract!Accepted(e)
    BY <2>3 DEF CoverInv, CoveredBy, Contract!Accepted
  <2>5. Contract!Move BY <2>2, <2>3, <2>4 DEF Contract!Move
  <2> QED BY <2>5 DEF Contract!Next
<1> QED BY <1>1, <1>2 DEF RunStep, Load, Begin, Flush, AbandonRun,
                          RouteQuarantined, RouteUnsent

\* So is a step of a request.
LEMMA RequestRelays ==
  ASSUME CoreInv, BoundInv, CoverInv, CoverInv',
         NEW o \in Operators, OperatorStep(o)
  PROVE  Contract!Next \/ UNCHANGED <<checkpoint, delivered>>
<1>1. ASSUME NEW q \in Rows, ReleaseSent(o, q) PROVE Contract!Next
  <2>1. tx[o].pc = "send" /\ q = tx[o].row BY <1>1 DEF ReleaseSent
  <2>2. rows[q].status = "quarantined" BY <2>1 DEF CoreInv, TxOK
  <2>3. rows[q].route \in Routes BY <2>2 DEF CoreInv, RoutesOK
  <2>4. rows[q].first \in Nat /\ rows[q].last \in Nat BY CoreTypes DEF RowType
  <2>5. rows[q].first..rows[q].last \in SUBSET (1..MaxEvent)
    BY <2>2, <2>4, QuarantineAssumption DEF BoundInv
  <2>6. Contract!Accept(rows[q].route)
    BY <1>1, <2>5 DEF ReleaseSent, Contract!Accept
  <2> QED BY <2>3, <2>6 DEF Contract!Next
<1>2. ASSUME Commit(o), checkpoint' # checkpoint PROVE Contract!Next
  <2>1. tx[o].ckpt # NoCheckpoint /\ checkpoint' = tx[o].ckpt
    BY <1>2 DEF Commit
  <2>2. checkpoint' \in 0..MaxEvent
    BY <2>1, CoreTypes, QuarantineAssumption DEF BoundInv, TxType
  <2>3. delivered' = delivered BY <1>2 DEF Commit
  <2>4. \A e \in 1..checkpoint' : Contract!Accepted(e)
    BY <2>3 DEF CoverInv, CoveredBy, Contract!Accepted
  <2>5. Contract!Move BY <2>2, <2>3, <2>4 DEF Contract!Move
  <2> QED BY <2>5 DEF Contract!Next
<1>3. Commit(o) => delivered' = delivered BY DEF Commit
<1> QED BY <1>1, <1>2, <1>3
        DEF OperatorStep, RowStep, Request, NotFound, Refuse, Discard, ReleaseRow,
            Busy, ReleaseFailed, ReleaseSaved, ReleaseUnsaved, OperatorCrash

\* Runs and releases together, each moving the cursor in a transaction of its
\* own, implement the contract of a stream, while no backfill fills rows.
THEOREM ReleasesImplementRelay ==
  ASSUME Backfill = {} PROVE Spec => ImplementsRelay
<1>1. Init => Contract!Init
  BY QuarantineAssumption DEF Init, Contract!Init
<1>2. CoreInv /\ BoundInv /\ CoverInv /\ CoverInv' /\ [Next]_vars =>
        [Contract!Next]_(Contract!relayVars)
  <2> SUFFICES ASSUME CoreInv, BoundInv, CoverInv, CoverInv', [Next]_vars
               PROVE  Contract!Next \/ UNCHANGED <<checkpoint, delivered>>
    BY DEF Contract!relayVars
  <2> QED BY RunRelays, RequestRelays DEF Next, vars
<1> QED BY <1>1, <1>2, BoundInvariant, CoverInvariant, CoreInvariant, PTL
        DEF Spec, ImplementsRelay, Contract!Spec
=============================================================================
