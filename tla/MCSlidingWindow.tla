--------------------------- MODULE MCSlidingWindow ---------------------------
(* Small instances of SlidingWindow for TLC. *)
EXTENDS SlidingWindow, FiniteSetsExt, TLC

CONSTANTS c1, c2, short, long

TwoCalls == {c1, c2}
CallSymmetry == Permutations(TwoCalls)

\* One rule, of 2 requests in 3 units of time.
OneRule == {long}
OneLimit == [r \in OneRule |-> 2]
OneWindow == [r \in OneRule |-> 3]

\* Two routes of one user, whose rules differ and share the user's set.
TwoRules == {short, long}
TwoLimits == (short :> 2) @@ (long :> 1)
TwoWindows == (short :> 4) @@ (long :> 5)
SameLimits == (short :> 1) @@ (long :> 1)

\* "Precise time-based limiting using Redis sorted sets": no more requests of
\* a rule are admitted in any of its windows than its limit says.
RuleLimit ==
    \A r \in Rules, t \in Times :
        MapThenSumSet(LAMBDA s : granted[r][s],
                      {s \in Times : s <= t /\ s > t - Window[r]})
            <= Limit[r]
=============================================================================
