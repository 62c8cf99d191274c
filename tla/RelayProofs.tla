----------------------------- MODULE RelayProofs -----------------------------
(***************************************************************************)
(* What the contract Relay gives to whoever relies on it, without looking  *)
(* at runs and releases: RunsImplementRelay (StreamRunProofs) and          *)
(* ReleasesImplementRelay (QuarantineProofs) carry it over to them.        *)
(***************************************************************************)
EXTENDS Relay, TLAPS

\* The cursor is a place of the log, destinations have events of the log, and
\* somebody has each event behind the cursor.
RelayInv ==
    /\ log \in Nat
    /\ cursor \in 0..log
    /\ got \in [Routes -> SUBSET (1..log)]
    /\ \A e \in 1..cursor : Accepted(e)

\* Nothing that a destination accepted is lost again, and nothing that the
\* source has not produced is ever accepted, wherever the cursor goes.
Accumulates ==
    /\ log <= log'
    /\ \A r \in Routes : got[r] \subseteq got'[r] /\ got'[r] \subseteq 1..log'

LEMMA RelayInit == Init => RelayInv
BY DEF Init, RelayInv

LEMMA RelayStep == RelayInv /\ [Next]_relayVars => RelayInv'
<1> SUFFICES ASSUME RelayInv, [Next]_relayVars PROVE RelayInv'
  OBVIOUS
<1> USE DEF RelayInv, Accepted
<1>1. CASE Grow
  BY <1>1 DEF Grow
<1>2. CASE Move
  BY <1>2 DEF Move
<1>3. ASSUME NEW r \in Routes, Accept(r) PROVE RelayInv'
  <2>1. PICK S \in SUBSET (1..log) : got' = [got EXCEPT ![r] = @ \cup S]
    BY <1>3 DEF Accept
  <2>2. log' = log /\ cursor' = cursor
    BY <1>3 DEF Accept
  <2>3. \A q \in Routes : got[q] \subseteq got'[q]
    BY <2>1
  <2> QED BY <2>1, <2>2, <2>3
<1>4. CASE UNCHANGED relayVars
  BY <1>4 DEF relayVars
<1> QED BY <1>1, <1>2, <1>3, <1>4 DEF Next

\* Every event behind the cursor was accepted by the destination of some
\* route, at every moment and however often the cursor moved back and forth.
THEOREM RelayedBehindCursor == Spec => []RelayInv
BY RelayInit, RelayStep, PTL DEF Spec

\* Deliveries are never retracted, and never run ahead of the source.
THEOREM DeliveriesAccumulate == Spec => [][Accumulates]_relayVars
<1>1. RelayInv /\ RelayInv' /\ [Next]_relayVars => [Accumulates]_relayVars
  <2> SUFFICES ASSUME RelayInv, RelayInv', [Next]_relayVars
               PROVE  [Accumulates]_relayVars
    OBVIOUS
  <2> USE DEF RelayInv, Accumulates
  <2>1. CASE Grow
    BY <2>1 DEF Grow
  <2>2. CASE Move
    BY <2>2 DEF Move
  <2>3. ASSUME NEW r \in Routes, Accept(r) PROVE Accumulates
    BY <2>3 DEF Accept
  <2> QED BY <2>1, <2>2, <2>3 DEF Next
<1> QED BY <1>1, RelayedBehindCursor, PTL DEF Spec
=============================================================================
