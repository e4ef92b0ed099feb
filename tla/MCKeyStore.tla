---------------------------- MODULE MCKeyStore ----------------------------
(* Small instances of KeyStore for TLC: the master key of the client       *)
(* "default", another client, and keys not yet generated.                  *)
EXTENDS KeyStore, TLC

CONSTANTS c1, c2, k1, k2, k3, h1, h2

TwoClients == {c1, c2}
ThreeKeys == {k1, k2, k3}
TwoHandlers == {h1, h2}
MasterKey == k1 :> Row(c1, TRUE) @@ k2 :> NoKey @@ k3 :> NoKey
\* api_keys as scripts/setup.sql creates it, and with updated_at.
RepositorySchema == {FALSE}
BothSchemas == BOOLEAN
Symmetry == Permutations(TwoHandlers) \union Permutations({k2, k3})
=============================================================================
