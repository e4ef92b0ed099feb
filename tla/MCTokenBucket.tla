---------------------------- MODULE MCTokenBucket ----------------------------
(* Small instances of TokenBucket for TLC. *)
EXTENDS TokenBucket, TLC

CONSTANTS c1, c2, low, high

TwoCalls == {c1, c2}
CallSymmetry == Permutations(TwoCalls)

\* One rule, of 2 tokens and 1 a second, and one refilled faster.
OneRule == {low}
OneCapacity == [r \in OneRule |-> 2]
OneRate == [r \in OneRule |-> 1]

\* Two routes of one user, whose rules differ and share the user's bucket.
TwoRules == {low, high}
TwoCapacities == (low :> 1) @@ (high :> 2)
TwoRates == (low :> 2) @@ (high :> 1)

=============================================================================
