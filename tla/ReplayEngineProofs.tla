-------------------------- MODULE ReplayEngineProofs --------------------------
(***************************************************************************)
(* Proofs about ReplayEngine, for any number of requests and attempts.     *)
(*                                                                         *)
(* The checked properties speak of what happened at the destination and of *)
(* two senders.  ReplayInv ties both to the row: as long as nothing lapsed *)
(* a send in hand owns the row's claim (FlightInv), a row is claimed anew  *)
(* at most once (OnceInv), and only an unflagged first send finds the      *)
(* destination without the payload (FlagInv).                              *)
(***************************************************************************)
EXTENDS ReplayEngine, FiniteSetTheorems, TLAPS

\* From the claim to the end of the second transaction.
InHand == {"sending", "sent", "finishing"}

\* A request that did not load the row early decides on the row it locked.
ViewInv ==
    \A p \in Requesters :
      req[p].pc = "locked" /\ req[p].kind \notin Preloaded =>
        req[p].view.status = row.status

\* Attempt identities are drawn before they are used.
AttemptInv ==
    /\ keys \subseteq 1..attempts
    /\ row.attempt <= attempts
    /\ row.status = "replaying" => row.attempt >= 1
    /\ \A p \in Requesters :
         /\ req[p].view.attempt <= attempts
         /\ req[p].view.status = "replaying" => req[p].view.attempt >= 1
         /\ req[p].pc \in InHand => req[p].attempt \in 1..attempts

\* A send without an error has arrived.
ArrivalInv ==
    /\ again => keys # {}
    /\ \A p \in Requesters :
         req[p].pc \in {"sent", "finishing"} /\ ~req[p].error => keys # {}

\* A send in hand is alone, and the row shows its claim or was discarded.
FlightInv ==
    lapses \cap {"overdue", "stale_view"} = {} =>
      /\ \A p, q \in Requesters :
           req[p].pc \in InHand /\ req[q].pc \in InHand => p = q
      /\ \A p \in Requesters :
           req[p].pc \in InHand =>
             (row.status = "replaying" /\ row.fresh) \/ row.status = "discarded"

\* One identity serves until a send is reported as failed.
OnceInv ==
    lapses \cap {"failed", "stale_view"} = {} =>
      /\ attempts <= 1
      /\ row.status # "failed"
      /\ row.status = "pending" => attempts = 0

\* A second arrival is a flagged one.
FlagInv ==
    lapses = {} =>
      /\ \A p \in Requesters :
           /\ req[p].pc = "sending" /\ ~req[p].uncertain => keys = {}
           /\ req[p].pc \in InHand /\ again => req[p].uncertain
      /\ again /\ row.status = "replayed" => row.uncertain

ReplayInv ==
    /\ ReplayTypeOK
    /\ ViewInv
    /\ AttemptInv
    /\ ArrivalInv
    /\ ReplayedWasDelivered
    /\ FlightInv
    /\ OnceInv
    /\ FlagInv

-----------------------------------------------------------------------------

\* The initial state.
LEMMA ReplayInit == Init => ReplayInv
<1> SUFFICES ASSUME Init PROVE ReplayInv OBVIOUS
<1> USE ReplayAssumption DEF Init
<1>1. NewRow \in RowType BY DEF NewRow, RowType
<1>2. IdleReq \in ReqType BY <1>1 DEF IdleReq, ReqType, Kinds
<1>3. ReplayTypeOK
  <2>1. \A p \in Requesters : lock = p <=> req[p].pc \in {"locked", "finishing"}
    BY DEF IdleReq
  <2>2. keys \in SUBSET (1..MaxAttempts) /\ lapses \in SUBSET Lapses /\ again \in BOOLEAN
    OBVIOUS
  <2> QED BY <1>1, <1>2, <2>1, <2>2 DEF ReplayTypeOK
<1>4. ViewInv /\ AttemptInv BY DEF ViewInv, AttemptInv, IdleReq, NewRow, InHand
<1>5. ArrivalInv /\ ReplayedWasDelivered /\ FlightInv /\ OnceInv /\ FlagInv
  BY DEF ArrivalInv, ReplayedWasDelivered, FlightInv, OnceInv, FlagInv,
         IdleReq, NewRow, InHand
<1> QED BY <1>3, <1>4, <1>5 DEF ReplayInv

\* A request goes on as r, and touches neither the row nor the destination.
LEMMA QuietStep ==
  ASSUME ReplayInv, NEW p \in Requesters, NEW r \in ReqType,
         req' = [req EXCEPT ![p] = r],
         UNCHANGED <<row, attempts, destVars, lapses>>,
         lock' \in Requesters \cup {Nobody},
         \A q \in Requesters \ {p} : lock' = q <=> lock = q,
         lock' = p <=> r.pc \in {"locked", "finishing"},
         r.pc \in InHand =>
           /\ r.pc = "finishing"
           /\ req[p].pc = "sent"
           /\ r.attempt = req[p].attempt
           /\ r.uncertain = req[p].uncertain
           /\ r.error = req[p].error,
         r.pc = "locked" /\ r.kind \notin Preloaded => r.view.status = row.status,
         r.view.attempt <= attempts,
         r.view.status = "replaying" => r.view.attempt >= 1
  PROVE  ReplayInv'
<1>1. req \in [Requesters -> ReqType] BY DEF ReplayInv, ReplayTypeOK
<1>2. req'[p] = r /\ \A q \in Requesters \ {p} : req'[q] = req[q] BY <1>1
<1>3. keys' = keys /\ again' = again BY DEF destVars
<1>4. ReplayTypeOK' BY <1>1, <1>2, <1>3 DEF ReplayInv, ReplayTypeOK
<1>5. ViewInv' BY <1>2 DEF ReplayInv, ViewInv
<1>6. AttemptInv' BY <1>2, <1>3 DEF ReplayInv, AttemptInv, InHand
<1>7. ArrivalInv' BY <1>2, <1>3 DEF ReplayInv, ArrivalInv, InHand
<1>8. ReplayedWasDelivered' BY <1>3 DEF ReplayInv, ReplayedWasDelivered
<1>9. FlightInv' BY <1>2 DEF ReplayInv, FlightInv, InHand
<1>10. OnceInv' BY DEF ReplayInv, OnceInv
<1>11. FlagInv' BY <1>2, <1>3 DEF ReplayInv, FlagInv, InHand
<1> QED BY <1>4, <1>5, <1>6, <1>7, <1>8, <1>9, <1>10, <1>11 DEF ReplayInv

\* Records of a request.
LEMMA ReqRecords ==
  ASSUME ReplayInv, NEW p \in Requesters
  PROVE  /\ IdleReq \in ReqType
         /\ IdleReq.pc = "idle" /\ IdleReq.view = NewRow
         /\ NewRow \in RowType /\ NewRow.attempt = 0 /\ NewRow.status = "pending"
         /\ req[p] \in ReqType
         /\ row \in RowType
         /\ req \in [Requesters -> ReqType]
<1>1. NewRow \in RowType /\ NewRow.attempt = 0 /\ NewRow.status = "pending"
  BY ReplayAssumption DEF NewRow, RowType
<1>2. IdleReq \in ReqType /\ IdleReq.pc = "idle" /\ IdleReq.view = NewRow
  BY <1>1, ReplayAssumption DEF IdleReq, ReqType, Kinds
<1> QED BY <1>1, <1>2 DEF ReplayInv, ReplayTypeOK

\* A request that gives up.
LEMMA LeaveInv ==
  ASSUME ReplayInv, NEW p \in Requesters, Leave(p),
         UNCHANGED <<row, attempts, destVars, lapses>>
  PROVE  ReplayInv'
<1>1. req' = [req EXCEPT ![p] = IdleReq] BY DEF Leave
<1>2. /\ lock' \in Requesters \cup {Nobody}
      /\ \A q \in Requesters \ {p} : lock' = q <=> lock = q
      /\ lock' # p
  BY ReplayAssumption DEF Leave, ReplayInv, ReplayTypeOK
<1>3. attempts >= 0 BY ReplayAssumption DEF ReplayInv, ReplayTypeOK
<1> QED BY <1>1, <1>2, <1>3, ReqRecords, QuietStep DEF InHand

\* Arriving, and the locks of both transactions.
LEMMA LockingInv ==
  ASSUME ReplayInv, NEW p \in Requesters,
         (\E k \in Kinds : Arrive(p, k)) \/ LockRow(p) \/ Relock(p)
  PROVE  ReplayInv'
<1>1. UNCHANGED <<row, attempts, destVars, lapses>>
  BY DEF Arrive, LockRow, Relock
<1>2. lock \in Requesters \cup {Nobody} /\ attempts \in Nat
  BY ReplayAssumption DEF ReplayInv, ReplayTypeOK
<1>3. ASSUME NEW k \in Kinds, Arrive(p, k) PROVE ReplayInv'
  <2> DEFINE v == IF k \in Preloaded THEN row ELSE NewRow
  <2> DEFINE r == [IdleReq EXCEPT !.pc = "begin", !.kind = k, !.view = v]
  <2>1. req' = [req EXCEPT ![p] = r] /\ req[p].pc = "idle" /\ lock' = lock
    BY <1>3 DEF Arrive
  <2>2. v \in RowType BY ReqRecords
  <2>3. r \in ReqType /\ r.pc = "begin" /\ r.view = v
    BY <2>2, ReqRecords DEF ReqType
  <2>4. v.attempt <= attempts /\ (v.status = "replaying" => v.attempt >= 1)
    BY <1>2, ReqRecords DEF ReplayInv, AttemptInv
  <2>5. lock # p BY <2>1 DEF ReplayInv, ReplayTypeOK
  <2> HIDE DEF r, v
  <2> QED BY <1>1, <1>2, <2>1, <2>3, <2>4, <2>5, QuietStep DEF InHand
<1>4. CASE LockRow(p)
  <2> DEFINE v == IF req[p].kind \in Preloaded THEN req[p].view ELSE row
  <2> DEFINE r == [req[p] EXCEPT !.pc = "locked", !.view = v]
  <2>1. req[p].pc = "begin" /\ lock = Nobody /\ lock' = p
    BY <1>4 DEF LockRow
  <2>2. req' = [req EXCEPT ![p] = r] BY <1>4, ReqRecords DEF LockRow
  <2>3. v \in RowType BY ReqRecords DEF ReqType
  <2>4. r \in ReqType /\ r.pc = "locked" /\ r.view = v /\ r.kind = req[p].kind
    BY <2>3, ReqRecords DEF ReqType
  <2>5. v.attempt <= attempts /\ (v.status = "replaying" => v.attempt >= 1)
    BY DEF ReplayInv, AttemptInv
  <2>6. r.kind \notin Preloaded => r.view = row BY <2>4
  <2> HIDE DEF r, v
  <2> QED BY <1>1, <2>1, <2>2, <2>4, <2>5, <2>6, ReplayAssumption, QuietStep
          DEF InHand
<1>5. CASE Relock(p)
  <2>1. CASE lock = Nobody
    <3> DEFINE r == [req[p] EXCEPT !.pc = "finishing"]
    <3>1. req[p].pc = "sent" /\ lock' = p BY <1>5, <2>1 DEF Relock
    <3>2. req' = [req EXCEPT ![p] = r] BY <1>5, <2>1, ReqRecords DEF Relock
    <3>3. /\ r \in ReqType /\ r.pc = "finishing" /\ r.attempt = req[p].attempt
          /\ r.uncertain = req[p].uncertain /\ r.error = req[p].error
          /\ r.view = req[p].view
      BY ReqRecords DEF ReqType
    <3>4. /\ req[p].view.attempt <= attempts
          /\ req[p].view.status = "replaying" => req[p].view.attempt >= 1
      BY DEF ReplayInv, AttemptInv
    <3> HIDE DEF r
    <3> QED BY <1>1, <2>1, <3>1, <3>2, <3>3, <3>4, ReplayAssumption, QuietStep
            DEF InHand
  <2>2. CASE lock # Nobody BY <1>1, <1>5, <2>2, LeaveInv DEF Relock
  <2> QED BY <2>1, <2>2
<1> QED BY <1>3, <1>4, <1>5

\* The payload is sent: it may arrive without the request learning of it.
LEMMA SendInv ==
  ASSUME ReplayInv, NEW p \in Requesters, Send(p)
  PROVE  ReplayInv'
<1>1. PICK arrives \in BOOLEAN, error \in BOOLEAN :
        /\ ~error => arrives
        /\ keys' = IF arrives THEN keys \cup {req[p].attempt} ELSE keys
        /\ again' = (again \/ (arrives /\ keys # {}))
        /\ req' = [req EXCEPT ![p].pc = "sent", ![p].error = error]
  BY DEF Send
<1>2. req[p].pc = "sending" /\ UNCHANGED <<row, lock, attempts, lapses>>
  BY DEF Send
<1> DEFINE r == [req[p] EXCEPT !.pc = "sent", !.error = error]
<1>3. req' = [req EXCEPT ![p] = r] BY <1>1, ReqRecords
<1>4. /\ r \in ReqType /\ r.pc = "sent" /\ r.error = error
      /\ r.attempt = req[p].attempt /\ r.uncertain = req[p].uncertain
      /\ r.view = req[p].view
  BY ReqRecords DEF ReqType
<1>5. req'[p] = r /\ \A q \in Requesters \ {p} : req'[q] = req[q]
  BY <1>3, ReqRecords
<1> HIDE DEF r
<1>6. req[p].attempt \in 1..attempts
  BY <1>2 DEF ReplayInv, AttemptInv, InHand
<1>7. keys \subseteq keys' /\ keys' \subseteq 1..attempts
  BY <1>1, <1>6 DEF ReplayInv, AttemptInv
<1>8. ReplayTypeOK'
  <2>1. attempts \in 0..MaxAttempts BY DEF ReplayInv, ReplayTypeOK
  <2>2. keys' \in SUBSET (1..MaxAttempts) BY <1>7, <2>1, ReplayAssumption
  <2>3. again' \in BOOLEAN BY <1>1 DEF ReplayInv, ReplayTypeOK
  <2>4. req' \in [Requesters -> ReqType] BY <1>3, <1>4, ReqRecords
  <2>5. \A q \in Requesters : lock' = q <=> req'[q].pc \in {"locked", "finishing"}
    BY <1>2, <1>4, <1>5 DEF ReplayInv, ReplayTypeOK
  <2> QED BY <1>2, <2>2, <2>3, <2>4, <2>5 DEF ReplayInv, ReplayTypeOK
<1>9. ViewInv' BY <1>2, <1>4, <1>5 DEF ReplayInv, ViewInv
<1>10. AttemptInv'
  BY <1>2, <1>4, <1>5, <1>6, <1>7 DEF ReplayInv, AttemptInv, InHand
<1>11. again' => keys' # {} BY <1>1, <1>7 DEF ReplayInv, ArrivalInv
<1>12. ~error => keys' # {} BY <1>1
<1>13. ArrivalInv' BY <1>4, <1>5, <1>7, <1>11, <1>12 DEF ReplayInv, ArrivalInv
<1>14. ReplayedWasDelivered' BY <1>2, <1>7 DEF ReplayInv, ReplayedWasDelivered
<1>15. FlightInv' BY <1>2, <1>4, <1>5 DEF ReplayInv, FlightInv, InHand
<1>16. OnceInv' BY <1>2 DEF ReplayInv, OnceInv
<1>17. FlagInv'
  <2> SUFFICES ASSUME lapses = {}
               PROVE  /\ \A q \in Requesters :
                           /\ req'[q].pc # "sending"
                           /\ req'[q].pc \in InHand /\ again' => req'[q].uncertain
                      /\ again' /\ row.status = "replayed" => row.uncertain
    BY <1>2 DEF FlagInv
  <2>1. \A q \in Requesters \ {p} : req[q].pc \notin InHand
    BY <1>2 DEF ReplayInv, FlightInv, InHand
  <2>2. again' => req[p].uncertain
    BY <1>1, <1>2 DEF ReplayInv, FlagInv, InHand
  <2>3. row.status # "replayed" BY <1>2 DEF ReplayInv, FlightInv, InHand
  <2> QED BY <1>4, <1>5, <2>1, <2>2, <2>3 DEF InHand
<1> QED BY <1>8, <1>9, <1>10, <1>13, <1>14, <1>15, <1>16, <1>17 DEF ReplayInv

-----------------------------------------------------------------------------
(***************************************************************************)
(* The actions that write the row.                                         *)
(***************************************************************************)

\* The row as SetRow leaves it.
LEMMA SetRowType ==
  ASSUME NEW s \in {"pending", "replaying", "replayed", "failed", "discarded"},
         NEW a \in 0..MaxAttempts, NEW u \in BOOLEAN, SetRow(s, a, u)
  PROVE  /\ row' \in RowType
         /\ row'.status = s
         /\ row'.attempt = a
         /\ row'.uncertain = u
         /\ row'.fresh = (s = "replaying")
BY DEF SetRow, RowType

\* While the row is locked nobody else looks at it.
LEMMA OnlyOneLocked ==
  ASSUME ReplayInv, NEW p \in Requesters,
         req[p].pc \in {"locked", "finishing"}
  PROVE  /\ lock = p
         /\ \A q \in Requesters \ {p} : req[q].pc \notin {"locked", "finishing"}
BY DEF ReplayInv, ReplayTypeOK

\* A claim, with identity a: new ones are drawn for a row that was pending or
\* failed when it was looked at, old ones belong to a stale claim.
LEMMA ClaimKeepsInv ==
  ASSUME ReplayInv, NEW p \in Requesters, ClaimNew(p) \/ ClaimStale(p)
  PROVE  ReplayInv'
<1> DEFINE a == IF ClaimNew(p) THEN attempts + 1 ELSE req[p].view.attempt
<1> DEFINE u == ~ClaimNew(p)
<1> DEFINE s == IF ClaimNew(p) THEN "replaying" ELSE row.status
<1> DEFINE r == [IdleReq EXCEPT !.pc = "sending", !.attempt = a, !.uncertain = u]
<1>1. /\ req[p].pc = "locked" /\ keys' = keys /\ again' = again
      /\ ClaimNew(p) => req[p].view.status \in {"pending", "failed"}
                        /\ attempts < MaxAttempts /\ attempts' = attempts + 1
      /\ ~ClaimNew(p) => req[p].view.status = "replaying" /\ ~req[p].view.fresh
                         /\ attempts' = attempts
  BY DEF ClaimNew, ClaimStale, destVars
<1>2. attempts \in 0..MaxAttempts /\ attempts' \in 0..MaxAttempts
      /\ attempts <= attempts'
  BY <1>1, ReplayAssumption DEF ReplayInv, ReplayTypeOK
<1>3. a \in 1..attempts'
  <2>1. req[p].view.attempt \in 0..MaxAttempts
    BY ReqRecords DEF ReqType, RowType
  <2>2. /\ req[p].view.attempt <= attempts
        /\ req[p].view.status = "replaying" => req[p].view.attempt >= 1
    BY DEF ReplayInv, AttemptInv
  <2> QED BY <1>1, <1>2, <2>1, <2>2
<1>4. SetRow(s, a, u) /\ Sending(p, a, u)
  BY <1>1 DEF ClaimNew, ClaimStale
<1>5. s \in {"pending", "replaying", "replayed", "failed", "discarded"}
  BY ReqRecords DEF RowType
<1>6. u \in BOOLEAN OBVIOUS
<1> HIDE DEF a, u, s
<1>7. a \in 0..MaxAttempts BY <1>2, <1>3, ReplayAssumption
<1>8. /\ row' \in RowType /\ row'.status = s /\ row'.attempt = a
      /\ row'.uncertain = u /\ row'.fresh = (s = "replaying")
  BY <1>4, <1>5, <1>6, <1>7, SetRowType
<1>9. /\ req' = [req EXCEPT ![p] = r]
      /\ lock' = Nobody
      /\ lapses' = lapses \cup (IF SameClaim(req[p].view, row)
                                  THEN {} ELSE {"stale_view"})
  BY <1>4 DEF Sending
<1>10. /\ r \in ReqType /\ r.pc = "sending" /\ r.attempt = a /\ r.uncertain = u
       /\ r.view = NewRow
  BY <1>6, <1>7, ReqRecords DEF ReqType, IdleReq
<1>11. req'[p] = r /\ \A q \in Requesters \ {p} : req'[q] = req[q]
  BY <1>9, ReqRecords
<1> HIDE DEF r
<1>12. \A q \in Requesters \ {p} : req[q].pc \notin {"locked", "finishing"}
  BY <1>1, OnlyOneLocked
<1>13. ReplayTypeOK'
  <2>1. req' \in [Requesters -> ReqType] BY <1>9, <1>10, ReqRecords
  <2>2. lapses' \in SUBSET Lapses BY <1>9 DEF ReplayInv, ReplayTypeOK, Lapses
  <2>3. \A q \in Requesters : lock' = q <=> req'[q].pc \in {"locked", "finishing"}
    BY <1>9, <1>10, <1>11, <1>12, ReplayAssumption
  <2> QED BY <1>1, <1>2, <1>8, <1>9, <2>1, <2>2, <2>3 DEF ReplayInv, ReplayTypeOK
<1>14. ViewInv' BY <1>10, <1>11, <1>12 DEF ViewInv
<1>15. AttemptInv'
  <2>1. keys' \subseteq 1..attempts'
    BY <1>1, <1>2, ReplayAssumption DEF ReplayInv, AttemptInv
  <2>2. row'.attempt <= attempts' /\ row'.attempt >= 1 BY <1>2, <1>3, <1>8
  <2>3. ASSUME NEW q \in Requesters
        PROVE  /\ req'[q].view.attempt <= attempts'
               /\ req'[q].view.status = "replaying" => req'[q].view.attempt >= 1
               /\ req'[q].pc \in InHand => req'[q].attempt \in 1..attempts'
    <3>1. CASE q = p BY <1>2, <1>3, <1>10, <1>11, <3>1, ReqRecords
    <3>2. CASE q # p
      <4>1. req[q].view.attempt \in Nat /\ req[q].attempt \in Nat
        BY ReqRecords, ReplayAssumption DEF ReqType, RowType
      <4> QED BY <1>2, <1>11, <3>2, <4>1, ReplayAssumption DEF ReplayInv, AttemptInv
    <3> QED BY <3>1, <3>2
  <2> QED BY <2>1, <2>2, <2>3 DEF AttemptInv
<1>16. ArrivalInv' BY <1>1, <1>10, <1>11 DEF ReplayInv, ArrivalInv
<1>17. row'.status = "replayed" => row.status = "replayed"
  BY <1>8 DEF s
<1>18. ReplayedWasDelivered'
  BY <1>1, <1>17 DEF ReplayInv, ReplayedWasDelivered
<1>19. ASSUME "stale_view" \notin lapses'
       PROVE  /\ lapses' = lapses
              /\ req[p].view.status = row.status
              /\ row.fresh => req[p].view.fresh
  BY <1>9, <1>19 DEF SameClaim
<1>20. FlightInv'
  <2> SUFFICES ASSUME lapses' \cap {"overdue", "stale_view"} = {}
               PROVE  /\ \A q \in Requesters \ {p} : req'[q].pc \notin InHand
                      /\ row'.status = "replaying" /\ row'.fresh
    BY DEF FlightInv
  <2>1. lapses' = lapses /\ req[p].view.status = row.status
        /\ (row.fresh => req[p].view.fresh)
    BY <1>19
  <2>2. \A q \in Requesters : req[q].pc \notin InHand
    BY <1>1, <2>1 DEF ReplayInv, FlightInv
  <2>3. s = "replaying" BY <1>1, <2>1 DEF s
  <2> QED BY <1>8, <1>11, <2>2, <2>3
<1>21. OnceInv'
  <2> SUFFICES ASSUME lapses' \cap {"failed", "stale_view"} = {}
               PROVE  attempts' <= 1 /\ row'.status = "replaying"
    BY DEF OnceInv
  <2>1. lapses' = lapses /\ req[p].view.status = row.status BY <1>19
  <2>2. attempts <= 1 /\ row.status # "failed"
        /\ (row.status = "pending" => attempts = 0)
    BY <2>1 DEF ReplayInv, OnceInv
  <2>3. s = "replaying" BY <1>1, <2>1 DEF s
  <2> QED BY <1>1, <1>8, <2>1, <2>2, <2>3
<1>22. FlagInv'
  <2> SUFFICES ASSUME lapses' = {}
               PROVE  /\ \A q \in Requesters :
                           /\ req'[q].pc = "sending" /\ ~req'[q].uncertain =>
                                keys' = {}
                           /\ req'[q].pc \in InHand /\ again' => req'[q].uncertain
                      /\ again' /\ row'.status = "replayed" => row'.uncertain
    BY DEF FlagInv
  <2>1. /\ lapses = {} /\ req[p].view.status = row.status
        /\ row.fresh => req[p].view.fresh
    BY <1>19
  <2>2. \A q \in Requesters : req[q].pc \notin InHand
    BY <1>1, <2>1 DEF ReplayInv, FlightInv
  <2>3. ClaimNew(p) => keys = {}
    <3>1. ClaimNew(p) => attempts = 0 BY <1>1, <2>1 DEF ReplayInv, OnceInv
    <3> QED BY <3>1 DEF ReplayInv, AttemptInv
  <2>4. ClaimNew(p) => ~again BY <2>3 DEF ReplayInv, ArrivalInv
  <2>5. u \/ ClaimNew(p) BY DEF u
  <2>6. row'.status # "replayed" BY <1>1, <1>8, <2>1 DEF s
  <2> QED BY <1>1, <1>10, <1>11, <2>2, <2>3, <2>4, <2>5, <2>6 DEF InHand
<1> QED BY <1>13, <1>14, <1>15, <1>16, <1>18, <1>20, <1>21, <1>22 DEF ReplayInv

\* The row is settled or fails: by a discard, or by the result of a send.
LEMMA EndInv ==
  ASSUME ReplayInv, NEW p \in Requesters, Discard(p) \/ Finish(p)
  PROVE  ReplayInv'
<1>1. /\ req[p].pc \in {"locked", "finishing"}
      /\ req' = [req EXCEPT ![p] = IdleReq]
      /\ keys' = keys /\ again' = again /\ attempts' = attempts
  BY DEF Discard, Finish, Leave, destVars
<1>2. lock = p /\ \A q \in Requesters \ {p} : req[q].pc \notin {"locked", "finishing"}
  BY <1>1, OnlyOneLocked
<1>3. lock' = Nobody BY <1>2 DEF Discard, Finish, Leave
<1>4. req'[p] = IdleReq /\ \A q \in Requesters \ {p} : req'[q] = req[q]
  BY <1>1, ReqRecords
<1>5. \/ row' = row /\ lapses' = lapses
      \/ /\ SetRow("discarded", row.attempt, row.uncertain)
         /\ lapses' = lapses
      \/ /\ req[p].pc = "finishing" /\ ~req[p].error
         /\ SetRow("replayed", req[p].attempt, req[p].uncertain)
         /\ lapses' = lapses
      \/ /\ req[p].pc = "finishing" /\ req[p].error
         /\ SetRow("failed", req[p].attempt, TRUE)
         /\ lapses' = lapses \cup {"failed"}
  <2>0. req[p].error \in BOOLEAN /\ req[p].uncertain \in BOOLEAN
    BY ReqRecords DEF ReqType
  <2>1. CASE Discard(p) BY <2>1 DEF Discard
  <2>2. CASE Finish(p) /\ row.status \in Terminal BY <2>2 DEF Finish
  <2>3. CASE Finish(p) /\ row.status \notin Terminal /\ req[p].error
    <3>1. SetRow("failed", req[p].attempt, req[p].error \/ req[p].uncertain)
      BY <2>3 DEF Finish
    <3>2. (req[p].error \/ req[p].uncertain) = TRUE BY <2>0, <2>3
    <3>3. lapses' = lapses \cup {"failed"} BY <2>3 DEF Finish
    <3> QED BY <2>3, <3>1, <3>2, <3>3 DEF Finish
  <2>4. CASE Finish(p) /\ row.status \notin Terminal /\ ~req[p].error
    <3>1. SetRow("replayed", req[p].attempt, req[p].error \/ req[p].uncertain)
      BY <2>4 DEF Finish
    <3>2. (req[p].error \/ req[p].uncertain) = req[p].uncertain BY <2>0, <2>4
    <3>3. lapses' = lapses BY <2>4 DEF Finish
    <3> QED BY <2>4, <3>1, <3>2, <3>3 DEF Finish
  <2> QED BY <2>1, <2>2, <2>3, <2>4
<1>6. /\ row' \in RowType
      /\ \/ row' = row /\ lapses' = lapses
         \/ row'.status = "discarded" /\ row'.attempt = row.attempt /\ lapses' = lapses
         \/ /\ req[p].pc = "finishing" /\ ~req[p].error
            /\ row'.status = "replayed" /\ row'.attempt = req[p].attempt
            /\ row'.uncertain = req[p].uncertain
            /\ lapses' = lapses
         \/ /\ req[p].pc = "finishing"
            /\ row'.status = "failed" /\ row'.attempt = req[p].attempt
            /\ lapses' = lapses \cup {"failed"}
  <2>1. /\ row.attempt \in 0..MaxAttempts /\ row.uncertain \in BOOLEAN
        /\ req[p].attempt \in 0..MaxAttempts /\ req[p].uncertain \in BOOLEAN
        /\ row \in RowType
    BY ReqRecords DEF RowType, ReqType
  <2> QED BY <1>5, <2>1, SetRowType
<1>7. ReplayTypeOK'
  <2>1. req' \in [Requesters -> ReqType] BY <1>1, ReqRecords
  <2>2. lapses' \in SUBSET Lapses BY <1>6 DEF ReplayInv, ReplayTypeOK, Lapses
  <2>3. \A q \in Requesters : lock' = q <=> req'[q].pc \in {"locked", "finishing"}
    BY <1>2, <1>3, <1>4, ReqRecords, ReplayAssumption
  <2> QED BY <1>1, <1>3, <1>6, <2>1, <2>2, <2>3 DEF ReplayInv, ReplayTypeOK
<1>8. ViewInv' BY <1>2, <1>4, ReqRecords DEF ViewInv
<1>9. AttemptInv'
  <2>1. attempts \in Nat BY ReplayAssumption DEF ReplayInv, ReplayTypeOK
  <2>2. req[p].pc = "finishing" => req[p].attempt \in 1..attempts
    BY DEF ReplayInv, AttemptInv, InHand
  <2>3. row'.attempt <= attempts /\ (row'.status = "replaying" => row'.attempt >= 1)
    BY <1>6, <2>1, <2>2 DEF ReplayInv, AttemptInv
  <2>4. \A q \in Requesters :
          /\ req'[q].view.attempt <= attempts
          /\ req'[q].view.status = "replaying" => req'[q].view.attempt >= 1
          /\ req'[q].pc \in InHand => req'[q].attempt \in 1..attempts
    BY <1>4, <2>1, ReqRecords DEF ReplayInv, AttemptInv, InHand
  <2> QED BY <1>1, <2>3, <2>4 DEF ReplayInv, AttemptInv
<1>10. ArrivalInv' BY <1>1, <1>4, ReqRecords DEF ReplayInv, ArrivalInv
<1>11. ReplayedWasDelivered'
  BY <1>1, <1>6 DEF ReplayInv, ReplayedWasDelivered, ArrivalInv
<1>12. FlightInv'
  <2> SUFFICES ASSUME lapses' \cap {"overdue", "stale_view"} = {}
               PROVE  /\ \A q, o \in Requesters :
                           req'[q].pc \in InHand /\ req'[o].pc \in InHand => q = o
                      /\ \A q \in Requesters :
                           req'[q].pc \in InHand =>
                             \/ row'.status = "replaying" /\ row'.fresh
                             \/ row'.status = "discarded"
    BY DEF FlightInv
  <2>1. lapses \cap {"overdue", "stale_view"} = {} BY <1>6
  <2>2. req[p].pc = "finishing" => \A q \in Requesters : req'[q].pc \notin InHand
    BY <1>4, <2>1, ReqRecords DEF ReplayInv, FlightInv, InHand
  <2> QED BY <1>4, <1>6, <2>1, <2>2, ReqRecords DEF ReplayInv, FlightInv, InHand
<1>13. OnceInv' BY <1>1, <1>6 DEF ReplayInv, OnceInv
<1>14. FlagInv'
  <2> SUFFICES ASSUME lapses' = {}
               PROVE  /\ \A q \in Requesters :
                           /\ req'[q].pc = "sending" /\ ~req'[q].uncertain =>
                                keys' = {}
                           /\ req'[q].pc \in InHand /\ again' => req'[q].uncertain
                      /\ again' /\ row'.status = "replayed" => row'.uncertain
    BY DEF FlagInv
  <2>1. lapses = {} BY <1>6
  <2> QED BY <1>1, <1>4, <1>6, <2>1, ReqRecords DEF ReplayInv, FlagInv, InHand
<1> QED BY <1>7, <1>8, <1>9, <1>10, <1>11, <1>12, <1>13, <1>14 DEF ReplayInv

\* A claim ages: nobody is at it, or it is overdue.
LEMMA AgeInv ==
  ASSUME ReplayInv, ClaimAges
  PROVE  ReplayInv'
<1>1. /\ UNCHANGED <<lock, req, attempts>> /\ keys' = keys /\ again' = again
      /\ row' = [row EXCEPT !.fresh = FALSE]
      /\ lapses' = lapses \cup (IF \E p \in Requesters : req[p].pc \in InHand
                                  THEN {"overdue"} ELSE {})
  BY DEF ClaimAges, destVars, InHand
<1>2. row \in RowType BY DEF ReplayInv, ReplayTypeOK
<1>3. /\ row' \in RowType
      /\ row'.status = row.status
      /\ row'.attempt = row.attempt
      /\ row'.uncertain = row.uncertain
  BY <1>1, <1>2 DEF RowType
<1>4. ReplayTypeOK' BY <1>1, <1>3 DEF ReplayInv, ReplayTypeOK, Lapses
<1>5. ViewInv' /\ AttemptInv' BY <1>1, <1>3 DEF ReplayInv, ViewInv, AttemptInv
<1>6. ArrivalInv' /\ ReplayedWasDelivered'
  BY <1>1, <1>3 DEF ReplayInv, ArrivalInv, ReplayedWasDelivered
<1>7. FlightInv' BY <1>1, <1>3 DEF ReplayInv, FlightInv
<1>8. OnceInv' BY <1>1, <1>3 DEF ReplayInv, OnceInv
<1>9. FlagInv' BY <1>1, <1>3 DEF ReplayInv, FlagInv
<1> QED BY <1>4, <1>5, <1>6, <1>7, <1>8, <1>9 DEF ReplayInv

\* ReplayInv is inductive.
LEMMA ReplayStep == ReplayInv /\ [Next]_vars => ReplayInv'
<1> SUFFICES ASSUME ReplayInv, [Next]_vars PROVE ReplayInv' OBVIOUS
<1>1. CASE ClaimAges BY <1>1, AgeInv
<1>2. ASSUME NEW p \in Requesters,
             (\E k \in Kinds : Arrive(p, k)) \/ LockRow(p) \/ Relock(p)
      PROVE  ReplayInv'
  BY <1>2, LockingInv
<1>3. ASSUME NEW p \in Requesters, RowBusy(p) \/ Refuse(p) \/ Crash(p)
      PROVE  ReplayInv'
  BY <1>3, LeaveInv DEF RowBusy, Refuse, Crash
<1>4. ASSUME NEW p \in Requesters, ClaimNew(p) \/ ClaimStale(p) PROVE ReplayInv'
  BY <1>4, ClaimKeepsInv
<1>5. ASSUME NEW p \in Requesters, Discard(p) \/ Finish(p) PROVE ReplayInv'
  BY <1>5, EndInv
<1>6. ASSUME NEW p \in Requesters, Send(p) PROVE ReplayInv'
  BY <1>6, SendInv
<1>7. CASE UNCHANGED vars
  BY <1>7 DEF vars, destVars, ReplayInv, ReplayTypeOK, ViewInv, AttemptInv,
              ArrivalInv, ReplayedWasDelivered, FlightInv, OnceInv, FlagInv
<1> QED BY <1>1, <1>2, <1>3, <1>4, <1>5, <1>6, <1>7 DEF Next

-----------------------------------------------------------------------------
(***************************************************************************)
(* Theorems.                                                               *)
(***************************************************************************)

\* The inductive invariant holds in every reachable state.
THEOREM ReplayInvariant == Spec => []ReplayInv
BY ReplayInit, ReplayStep, PTL DEF Spec

\* Every variable keeps its type, and only a request inside a transaction
\* holds the row (_lock_replay_event_row).
THEOREM ReplayTypeCorrect == Spec => []ReplayTypeOK
<1>1. ReplayInv => ReplayTypeOK BY DEF ReplayInv
<1> QED BY <1>1, ReplayInvariant, PTL

\* A row says "replayed" only when the destination took the payload
\* (execute_replay_event).
THEOREM ReplayedDelivered == Spec => []ReplayedWasDelivered
<1>1. ReplayInv => ReplayedWasDelivered BY DEF ReplayInv
<1> QED BY <1>1, ReplayInvariant, PTL

\* Two requests send together only after a claim outlived its time-out or a
\* request decided on a row it had loaded before the lock.
THEOREM SendersSeparated == Spec => []ClaimSeparatesSenders
<1>1. ReplayInv => ClaimSeparatesSenders
  BY DEF ReplayInv, FlightInv, InHand, ClaimSeparatesSenders
<1> QED BY <1>1, ReplayInvariant, PTL

\* Crashes and lost results alone never make the destination see two
\* idempotency keys (_commit_replay_claim reuses the attempt identity).
THEOREM KeyReused == Spec => []RecoveryReusesKey
<1>1. ReplayInv => RecoveryReusesKey
  <2> SUFFICES ASSUME ReplayInv, lapses \cap {"failed", "stale_view"} = {}
               PROVE  ~(Cardinality(keys) > 1)
    BY DEF RecoveryReusesKey
  <2>1. attempts <= 1 /\ attempts \in Nat
    BY ReplayAssumption DEF ReplayInv, OnceInv, ReplayTypeOK
  <2>2. keys \subseteq {1} BY <2>1 DEF ReplayInv, AttemptInv
  <2>3. keys = {} \/ keys = {1} BY <2>2
  <2>4. Cardinality({}) = 0 BY FS_EmptySet
  <2>5. Cardinality({1}) = 1 BY FS_Singleton
  <2> QED BY <2>3, <2>4, <2>5
<1> QED BY <1>1, ReplayInvariant, PTL

\* When crashes and lost results alone brought the payload twice to the
\* destination, the replayed row says prior_delivery_uncertain.
THEOREM RecoveryFlagged == Spec => []RecoveryIsFlagged
<1>1. ReplayInv => RecoveryIsFlagged
  BY DEF ReplayInv, FlagInv, RecoveryIsFlagged
<1> QED BY <1>1, ReplayInvariant, PTL

\* A replayed or discarded row changes its status only by a request that
\* loaded the row before it had the lock.
THEOREM SettledUndone == Spec => SettledUndoneOnlyByStaleView
<1> DEFINE Undone ==
      row.status \in Terminal /\ row'.status # row.status =>
        \E p \in Requesters :
          req[p].pc = "locked" /\ req[p].kind \in Preloaded
<1>1. ReplayInv /\ [Next]_vars => [Undone]_vars
  <2> SUFFICES ASSUME ReplayInv, Next, row.status \in Terminal,
                      row'.status # row.status
               PROVE  Undone
    OBVIOUS
  <2>1. row \in RowType BY DEF ReplayInv, ReplayTypeOK
  <2>2. ~ClaimAges BY <2>1 DEF ClaimAges, RowType
  <2>3. ASSUME NEW p \in Requesters, ClaimStale(p) PROVE FALSE
    <3>1. SetRow(row.status, req[p].view.attempt, TRUE) BY <2>3 DEF ClaimStale
    <3> QED BY <3>1 DEF SetRow
  <2>4. ASSUME NEW p \in Requesters, ClaimNew(p) PROVE Undone
    BY <2>4 DEF ClaimNew, ReplayInv, ViewInv, Terminal
  <2>5. ASSUME NEW p \in Requesters, Discard(p) PROVE Undone
    BY <2>5 DEF Discard, ReplayInv, ViewInv, Preloaded
  <2>6. \A p \in Requesters : ~Finish(p) BY DEF Finish
  <2>7. row' # row OBVIOUS
  <2> QED
    BY <2>2, <2>3, <2>4, <2>5, <2>6, <2>7
       DEF Next, Arrive, LockRow, RowBusy, Refuse, Send, Relock, Crash
<1> QED BY <1>1, ReplayInvariant, PTL DEF Spec, SettledUndoneOnlyByStaleView

\* "discarded replay events cannot be replayed" (execute_replay_event) holds
\* as long as no request in flight loaded the row before it locked it: the
\* governance and quarantine endpoints are the only way around it.
THEOREM SettledFinalWithoutPreload ==
  Spec /\ [](\A p \in Requesters : req[p].kind \notin Preloaded) =>
    SettledIsFinal
<1> DEFINE Fresh == \A p \in Requesters : req[p].kind \notin Preloaded
           Undone == row.status \in Terminal /\ row'.status # row.status =>
                       \E p \in Requesters :
                         req[p].pc = "locked" /\ req[p].kind \in Preloaded
           Final == row.status \in Terminal => row'.status = row.status
<1>1. Fresh /\ [Undone]_vars => [Final]_vars
  OBVIOUS
<1>2. Spec => [][Undone]_vars
  BY SettledUndone DEF SettledUndoneOnlyByStaleView
<1> HIDE DEF Undone
<1>3. Spec /\ []Fresh => [][Final]_vars
  BY <1>1, <1>2, PTL
<1> QED BY <1>3 DEF SettledIsFinal
=============================================================================
