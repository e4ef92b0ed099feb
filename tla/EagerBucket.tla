---------------------------- MODULE EagerBucket ----------------------------
(***************************************************************************)
(* What a token bucket promises, with no trace of how it is stored: a      *)
(* level that gains RefillRate tokens at every second, never above         *)
(* Capacity, and loses one token for every request it admits.  A request   *)
(* is refused only when the level is zero.  The limiter in TokenBucket     *)
(* keeps no such level: it computes it when a request arrives.             *)
(***************************************************************************)
EXTENDS Integers

CONSTANTS Capacity, RefillRate, MaxClock

VARIABLES
    clock,      \* seconds
    level,      \* tokens in the bucket
    verdict     \* the last decision: "none" before the first one

vars == <<clock, level, verdict>>

AtMost(bound, n) == IF n <= bound THEN n ELSE bound

Init ==
    /\ clock = 0
    /\ level = Capacity
    /\ verdict = "none"

\* A second passes and the bucket gains RefillRate tokens.
Refill ==
    /\ clock < MaxClock
    /\ clock' = clock + 1
    /\ level' = AtMost(Capacity, level + RefillRate)
    /\ UNCHANGED verdict

Admit ==
    /\ level >= 1
    /\ level' = level - 1
    /\ verdict' = "allow"
    /\ UNCHANGED clock

Refuse ==
    /\ level = 0
    /\ verdict' = "deny"
    /\ UNCHANGED <<clock, level>>

Next == Refill \/ Admit \/ Refuse

Spec == Init /\ [][Next]_vars
=============================================================================
