------------------------- MODULE NotificationDelivery -------------------------
(***************************************************************************)
(* What the governance notification outbox promises about one event.       *)
(*                                                                         *)
(* An event is recorded together with one job per configured channel.      *)
(* Each job is settled once, for good: SENT, after its channel took the    *)
(* message at least once, or DEAD.  The event's own status is at every     *)
(* moment the verdict over its jobs.  How often a channel receives the     *)
(* message is not promised.                                                *)
(***************************************************************************)

CONSTANT Channels  \* email, webhook

VARIABLES
    outcome,   \* [Channels -> Outcomes]
    received,  \* channels that took the message at least once
    verdict    \* governance_notification_events.status, "none" before it

vars == <<outcome, received, verdict>>

Outcomes == {"none", "OPEN", "SENT", "DEAD"}

\* The status of an event whose jobs have the outcomes o.
Verdict(o) ==
    IF \A c \in Channels : o[c] = "none" THEN "FAILED"
    ELSE IF \A c \in Channels : o[c] \in {"none", "SENT"} THEN "SENT"
    ELSE IF \E c \in Channels : o[c] = "DEAD" THEN "FAILED"
    ELSE "PENDING"

Init ==
    /\ outcome = [c \in Channels |-> "none"]
    /\ received = {}
    /\ verdict = "none"

\* The event and its jobs appear in one step; without a configured channel
\* the event has failed at once.
Record(S) ==
    /\ verdict = "none"
    /\ outcome' = [c \in Channels |-> IF c \in S THEN "OPEN" ELSE "none"]
    /\ verdict' = Verdict(outcome')
    /\ UNCHANGED received

Receive(c) ==
    /\ verdict # "none"
    /\ received' = received \cup {c}
    /\ UNCHANGED <<outcome, verdict>>

\* Some open jobs are settled, and with them the event.
Settle(o) ==
    /\ verdict # "none"
    /\ outcome' = o
    /\ \A c \in Channels :
         \/ o[c] = outcome[c]
         \/ outcome[c] = "OPEN" /\ o[c] = "DEAD"
         \/ outcome[c] = "OPEN" /\ o[c] = "SENT" /\ c \in received
    /\ verdict' = Verdict(o)
    /\ UNCHANGED received

Next ==
    \/ \E S \in SUBSET Channels : Record(S)
    \/ \E c \in Channels : Receive(c)
    \/ \E o \in [Channels -> Outcomes] : Settle(o)

Spec == Init /\ [][Next]_vars
=============================================================================
