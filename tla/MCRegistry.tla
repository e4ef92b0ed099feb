---------------------------- MODULE MCRegistry ----------------------------
(* Small instances of Registry for TLC. *)
EXTENDS Registry, TLC

CONSTANTS default, c1, s1, s2, r1, r2

TwoNames == {default, c1}
TwoServers == {s1, s2}
TwoCallers == {r1, r2}
Symmetry == Permutations(TwoServers) \union Permutations(TwoCallers)
=============================================================================
