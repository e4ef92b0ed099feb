--------------------------- MODULE MCCheckService ---------------------------
(* Small instances of CheckService for TLC. *)
EXTENDS CheckService, TLC

CONSTANTS h1, h2, u1, star, r1

TwoHandlers == {h1, h2}
OneUser == {u1}
TwoRoutes == {star, r1}
HandlerSymmetry == Permutations(TwoHandlers)
=============================================================================
