-------------------------------- MODULE Relay --------------------------------
(***************************************************************************)
(* What a stream promises, whoever moves its cursor: a source log that     *)
(* grows, destinations that accept events of it, and a cursor that stands  *)
(* only where every event behind it was accepted by some route.  A         *)
(* destination's acceptance and a move of the cursor are never one step,   *)
(* and the acceptance comes first.  A cursor may move back.                *)
(***************************************************************************)
EXTENDS Naturals

CONSTANT
    Routes       \* the routes of the stream

VARIABLES
    log,         \* length of the source log
    cursor,      \* the stream's checkpoint
    got          \* [Routes -> events the route's destination accepted]

relayVars == <<log, cursor, got>>

Init ==
    /\ log \in Nat
    /\ cursor = 0
    /\ got = [r \in Routes |-> {}]

\* The source appends an event.
Grow ==
    /\ log' = log + 1
    /\ UNCHANGED <<cursor, got>>

\* The destination of one route accepts events that the source has.
Accept(r) ==
    /\ \E S \in SUBSET (1..log) : got' = [got EXCEPT ![r] = @ \cup S]
    /\ UNCHANGED <<log, cursor>>

\* Somebody has the event.
Accepted(e) == \E r \in Routes : e \in got[r]

\* The cursor is written.
Move ==
    /\ cursor' \in 0..log
    /\ \A e \in 1..cursor' : Accepted(e)
    /\ UNCHANGED <<log, got>>

Next == Grow \/ Move \/ \E r \in Routes : Accept(r)

Spec == Init /\ [][Next]_relayVars
=============================================================================
