----------------------------- MODULE WindowLog -----------------------------
(***************************************************************************)
(* What a sliding window promises, with no trace of how it is stored: the  *)
(* log of every instant at which a request was admitted, never forgotten.  *)
(* A request is admitted iff fewer than Limit logged instants lie in the   *)
(* window of length Window that ends now.                                  *)
(***************************************************************************)
EXTENDS Integers, FiniteSets

CONSTANTS Limit, Window, MaxClock

VARIABLES
    clock,
    log,        \* the instants of the admissions
    verdict     \* the last decision: "none" before the first one

vars == <<clock, log, verdict>>

InWindow == {s \in log : s > clock - Window}

Init ==
    /\ clock = 0
    /\ log = {}
    /\ verdict = "none"

Tick ==
    /\ clock < MaxClock
    /\ clock' = clock + 1
    /\ UNCHANGED <<log, verdict>>

Admit ==
    /\ Cardinality(InWindow) < Limit
    /\ log' = log \union {clock}
    /\ verdict' = "allow"
    /\ UNCHANGED clock

Refuse ==
    /\ Cardinality(InWindow) >= Limit
    /\ verdict' = "deny"
    /\ UNCHANGED <<clock, log>>

Next == Tick \/ Admit \/ Refuse

Spec == Init /\ [][Next]_vars
=============================================================================
