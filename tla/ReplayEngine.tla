----------------------------- MODULE ReplayEngine -----------------------------
(***************************************************************************)
(* Replaying and discarding one row of stream_replay_events.               *)
(*                                                                         *)
(* A replay locks the row (FOR UPDATE NOWAIT), writes a claim with an      *)
(* attempt identity, commits, sends the stored payload without the lock,   *)
(* locks the row again and writes the result.  A claim older than          *)
(* REPLAY_CLAIM_STALE_AFTER_SECONDS may be claimed again, under the same   *)
(* identity, and so under the same idempotency key at the destination.     *)
(*                                                                         *)
(* Requests come in four kinds.  "direct" (the runtime endpoint and the    *)
(* governance bulk endpoint) and "discard" read the row when they lock it. *)
(* "governance" and "quarantine" have loaded the row into their session    *)
(* BEFORE they lock it, and a locking SELECT does not refresh an object    *)
(* the session already holds: they decide on the row they loaded.          *)
(***************************************************************************)
EXTENDS Naturals, FiniteSets

CONSTANTS
    Requesters,   \* requests in flight, on any process
    MaxAttempts,  \* bound on the attempt identities (uuid4) drawn
    Nobody        \* the row is not locked

ASSUME ReplayAssumption ==
    /\ MaxAttempts \in Nat
    /\ Nobody \notin Requesters

VARIABLES
    row,       \* the committed row
    lock,      \* the request whose transaction holds the row
    req,       \* [Requesters -> the request in hand]
    attempts,  \* attempt identities drawn so far
    keys,      \* attempts whose payload reached the destination
    again,     \* it reached the destination more than once
    lapses     \* history: what has gone wrong so far

destVars == <<keys, again>>

vars == <<row, lock, req, attempts, destVars, lapses>>

Terminal == {"replayed", "discarded"}

Kinds == {"direct", "governance", "quarantine", "discard"}

\* Kinds that decide on the row as it was before the lock.
Preloaded == {"governance", "quarantine"}

\* fresh: claimed_at is recent.  attempt 0: no attempt yet.
NewRow == [status |-> "pending", attempt |-> 0, uncertain |-> FALSE,
           fresh |-> FALSE]

IdleReq ==
    [pc |-> "idle", kind |-> "direct", view |-> NewRow, attempt |-> 0,
     uncertain |-> FALSE, error |-> FALSE]

\* record_replay_event leaves a pending row.
Init ==
    /\ row = NewRow
    /\ lock = Nobody
    /\ req = [p \in Requesters |-> IdleReq]
    /\ attempts = 0
    /\ keys = {}
    /\ again = FALSE
    /\ lapses = {}

\* A row that is not claimed has no use for the age of its claim.
SetRow(status, attempt, uncertain) ==
    row' = [status |-> status, attempt |-> attempt, uncertain |-> uncertain,
            fresh |-> status = "replaying"]

\* Mutant of Leave: the transaction is not ended.
LeaveLocked(p) ==
    /\ req' = [req EXCEPT ![p] = IdleReq]
    /\ UNCHANGED lock

Leave(p) ==
    /\ req' = [req EXCEPT ![p] = IdleReq]
    /\ lock' = IF lock = p THEN Nobody ELSE lock

-----------------------------------------------------------------------------
(***************************************************************************)
(* The first transaction.                                                  *)
(***************************************************************************)

\* The quarantine action looks for a pending row.
Arrive(p, k) ==
    /\ req[p].pc = "idle"
    /\ k = "quarantine" => row.status = "pending"
    /\ req' = [req EXCEPT ![p] = [IdleReq EXCEPT
                                    !.pc = "begin",
                                    !.kind = k,
                                    !.view = IF k \in Preloaded THEN row
                                                                ELSE NewRow]]
    /\ UNCHANGED <<row, lock, attempts, destVars, lapses>>

\* _lock_replay_event_row.
LockRow(p) ==
    /\ req[p].pc = "begin"
    /\ lock = Nobody
    /\ lock' = p
    /\ req' = [req EXCEPT ![p].pc = "locked",
                          ![p].view = IF req[p].kind \in Preloaded
                                        THEN @ ELSE row]
    /\ UNCHANGED <<row, attempts, destVars, lapses>>

\* NOWAIT: ReplayInProgressError.  The quarantine action has stamped the row
\* with an UPDATE before, and that one waits.
RowBusy(p) ==
    /\ req[p].pc = "begin"
    /\ req[p].kind # "quarantine"
    /\ lock # Nobody
    /\ Leave(p)
    /\ UNCHANGED <<row, attempts, destVars, lapses>>

\* The status does not allow the request, or (replay only) the payload is
\* empty, the destination is missing, disabled or rate limited.
Refuse(p) ==
    /\ req[p].pc = "locked"
    /\ req[p].kind = "discard" => req[p].view.status \in Terminal
    /\ Leave(p)
    /\ UNCHANGED <<row, attempts, destVars, lapses>>

\* v was the row's state, but for the age of its claim.
SameClaim(v, w) ==
    /\ v.status = w.status
    /\ v.attempt = w.attempt
    /\ w.fresh => v.fresh

Sending(p, attempt, uncertain) ==
    /\ req' = [req EXCEPT ![p] = [IdleReq EXCEPT
                                    !.pc = "sending",
                                    !.attempt = attempt,
                                    !.uncertain = uncertain]]
    /\ lock' = Nobody
    /\ lapses' = lapses \cup (IF SameClaim(req[p].view, row)
                                THEN {} ELSE {"stale_view"})

\* _commit_replay_claim of a pending or failed row: a new identity.
ClaimNew(p) ==
    /\ req[p].pc = "locked"
    /\ req[p].kind # "discard"
    /\ req[p].view.status \in {"pending", "failed"}
    /\ attempts < MaxAttempts
    /\ attempts' = attempts + 1
    /\ SetRow("replaying", attempts', FALSE)
    /\ Sending(p, attempts', FALSE)
    /\ UNCHANGED destVars

\* Mutant of ClaimStale: the recovery draws a new identity.
ClaimStaleNewKey(p) ==
    /\ req[p].pc = "locked"
    /\ req[p].kind # "discard"
    /\ req[p].view.status = "replaying"
    /\ ~req[p].view.fresh
    /\ attempts < MaxAttempts
    /\ attempts' = attempts + 1
    /\ SetRow(row.status, attempts', TRUE)
    /\ Sending(p, attempts', TRUE)
    /\ UNCHANGED destVars

\* Mutant of ClaimStale: a fresh claim is taken over too.
ClaimStaleAtOnce(p) ==
    /\ req[p].pc = "locked"
    /\ req[p].kind # "discard"
    /\ req[p].view.status = "replaying"
    /\ SetRow(row.status, req[p].view.attempt, TRUE)
    /\ Sending(p, req[p].view.attempt, TRUE)
    /\ UNCHANGED <<attempts, destVars>>

\* Mutant of ClaimStale: the takeover is not flagged.
ClaimStaleUnflagged(p) ==
    /\ req[p].pc = "locked"
    /\ req[p].kind # "discard"
    /\ req[p].view.status = "replaying"
    /\ ~req[p].view.fresh
    /\ SetRow(row.status, req[p].view.attempt, FALSE)
    /\ Sending(p, req[p].view.attempt, FALSE)
    /\ UNCHANGED <<attempts, destVars>>

\* _commit_replay_claim of a stale claim: the same identity, flagged.  The
\* status column is not written, "replaying" being what was loaded.
ClaimStale(p) ==
    /\ req[p].pc = "locked"
    /\ req[p].kind # "discard"
    /\ req[p].view.status = "replaying"
    /\ ~req[p].view.fresh
    /\ SetRow(row.status, req[p].view.attempt, TRUE)
    /\ Sending(p, req[p].view.attempt, TRUE)
    /\ UNCHANGED <<attempts, destVars>>

Discard(p) ==
    /\ req[p].pc = "locked"
    /\ req[p].kind = "discard"
    /\ req[p].view.status \notin Terminal
    /\ SetRow("discarded", row.attempt, row.uncertain)
    /\ Leave(p)
    /\ UNCHANGED <<attempts, destVars, lapses>>

-----------------------------------------------------------------------------
(***************************************************************************)
(* The send, and the second transaction.                                   *)
(***************************************************************************)

\* An error may be reported although the payload arrived.
Send(p) ==
    /\ req[p].pc = "sending"
    /\ \E arrives \in BOOLEAN, error \in BOOLEAN :
         /\ ~error => arrives
         /\ keys' = IF arrives THEN keys \cup {req[p].attempt} ELSE keys
         /\ again' = (again \/ (arrives /\ keys # {}))
         /\ req' = [req EXCEPT ![p].pc = "sent", ![p].error = error]
    /\ UNCHANGED <<row, lock, attempts, lapses>>

\* NOWAIT again: when the row is busy the result is lost, and the claim stays
\* until it is stale.
Relock(p) ==
    /\ req[p].pc = "sent"
    /\ IF lock = Nobody
         THEN /\ lock' = p
              /\ req' = [req EXCEPT ![p].pc = "finishing"]
         ELSE Leave(p)
    /\ UNCHANGED <<row, attempts, destVars, lapses>>

\* Mutant of Finish: the send's error is not looked at.
FinishAsReplayed(p) ==
    /\ req[p].pc = "finishing"
    /\ IF row.status \in Terminal
         THEN UNCHANGED <<row, lapses>>
         ELSE /\ SetRow("replayed", req[p].attempt, req[p].uncertain)
              /\ UNCHANGED lapses
    /\ Leave(p)
    /\ UNCHANGED <<attempts, destVars>>

\* Mutant of Finish: the row is not looked at again after the send.
FinishBlindly(p) ==
    /\ req[p].pc = "finishing"
    /\ SetRow(IF req[p].error THEN "failed" ELSE "replayed",
              req[p].attempt, req[p].error \/ req[p].uncertain)
    /\ lapses' = lapses \cup (IF req[p].error THEN {"failed"} ELSE {})
    /\ Leave(p)
    /\ UNCHANGED <<attempts, destVars>>

\* A row settled meanwhile is left alone.  Whether the claim is still this
\* request's own is not checked.
Finish(p) ==
    /\ req[p].pc = "finishing"
    /\ IF row.status \in Terminal
         THEN UNCHANGED <<row, lapses>>
         ELSE /\ SetRow(IF req[p].error THEN "failed" ELSE "replayed",
                        req[p].attempt, req[p].error \/ req[p].uncertain)
              /\ lapses' = lapses \cup (IF req[p].error THEN {"failed"}
                                                        ELSE {})
    /\ Leave(p)
    /\ UNCHANGED <<attempts, destVars>>

\* The claim reaches its time-out; overdue when somebody is still at it.
ClaimAges ==
    /\ row.fresh
    /\ row' = [row EXCEPT !.fresh = FALSE]
    /\ lapses' = lapses \cup
                   (IF \E p \in Requesters :
                         req[p].pc \in {"sending", "sent", "finishing"}
                      THEN {"overdue"} ELSE {})
    /\ UNCHANGED <<lock, req, attempts, destVars>>

\* The process dies; its transaction is rolled back.
Crash(p) ==
    /\ req[p].pc # "idle"
    /\ Leave(p)
    /\ UNCHANGED <<row, attempts, destVars, lapses>>

Next ==
    \/ ClaimAges
    \/ \E p \in Requesters :
         \/ \E k \in Kinds : Arrive(p, k)
         \/ LockRow(p)
         \/ RowBusy(p)
         \/ Refuse(p)
         \/ ClaimNew(p)
         \/ ClaimStale(p)
         \/ Discard(p)
         \/ Send(p)
         \/ Relock(p)
         \/ Finish(p)
         \/ Crash(p)

Spec == Init /\ [][Next]_vars

-----------------------------------------------------------------------------
(***************************************************************************)
(* Properties.                                                             *)
(***************************************************************************)

RowType ==
    [status : {"pending", "replaying", "replayed", "failed", "discarded"},
     attempt : 0..MaxAttempts, uncertain : BOOLEAN, fresh : BOOLEAN]

ReqType ==
    [pc : {"idle", "begin", "locked", "sending", "sent", "finishing"},
     kind : Kinds, view : RowType, attempt : 0..MaxAttempts,
     uncertain : BOOLEAN, error : BOOLEAN]

Lapses == {"stale_view", "failed", "overdue"}

\* Every variable keeps its type, and only a request inside a transaction
\* holds the row (_lock_replay_event_row).
ReplayTypeOK ==
    /\ row \in RowType
    /\ lock \in Requesters \cup {Nobody}
    /\ req \in [Requesters -> ReqType]
    /\ attempts \in 0..MaxAttempts
    /\ keys \in SUBSET (1..MaxAttempts)
    /\ again \in BOOLEAN
    /\ lapses \in SUBSET Lapses
    /\ \A p \in Requesters :
         lock = p <=> req[p].pc \in {"locked", "finishing"}

\* A row says "replayed" only when the destination took the payload, whatever
\* crashes, takeovers and late results came before (execute_replay_event).
ReplayedWasDelivered == row.status = "replayed" => keys # {}

\* The claim keeps senders apart: two requests send at the same time only
\* after one outlived its claim's time-out, or after a request decided on a
\* row it had loaded before the lock.
ClaimSeparatesSenders ==
    \A p, q \in Requesters :
      p # q /\ req[p].pc = "sending" /\ req[q].pc = "sending" =>
        lapses \cap {"overdue", "stale_view"} # {}

\* "Recovery reuses the same attempt identity" (replay/service.py): after
\* crashes and lost results alone, whatever reached the destination carries
\* one idempotency key.  A second key needs a send that was reported as
\* failed, or a row loaded before the lock.
RecoveryReusesKey ==
    Cardinality(keys) > 1 => lapses \cap {"failed", "stale_view"} # {}

\* "exposes prior_delivery_uncertain": when nothing but crashes and lost
\* results made the destination see the payload twice, the replayed row says
\* that an earlier delivery may have happened.
RecoveryIsFlagged ==
    again /\ row.status = "replayed" /\ lapses = {} => row.uncertain

\* A row that was replayed or discarded stays so, unless a request acts on a
\* view of it that it loaded before the lock.
SettledUndoneOnlyByStaleView ==
    [][row.status \in Terminal /\ row'.status # row.status =>
         \E p \in Requesters :
           req[p].pc = "locked" /\ req[p].kind \in Preloaded]_vars

-----------------------------------------------------------------------------
(***************************************************************************)
(* A promise the code does not keep.                                       *)
(***************************************************************************)

\* "discarded replay events cannot be replayed" (execute_replay_event, and
\* the same for replayed ones).
SettledIsFinal ==
    [][row.status \in Terminal => row'.status = row.status]_vars
=============================================================================
