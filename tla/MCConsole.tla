----------------------------- MODULE MCConsole -----------------------------
(* Small instances of Console for TLC. *)
EXTENDS Console, TLC

CONSTANTS master, k1, n1, n2, default, acme, search, padded, blank, s1, s2

AllKeys == {master, k1, n1, n2}
Admins == {master}
AllNames == {default, acme}
AllRoutes == {Star, search, padded, blank}
TrimRoutes == (padded :> search) @@ (blank :> NoRoute)
              @@ [r \in {Star, search} |-> r]
TwoSlots == {s1, s2}
Symmetry == Permutations({n1, n2}) \union Permutations(TwoSlots)

Limit(pages, owner, names, change, failure, switch) ==
    [pages |-> pages, owner |-> owner, routes |-> {Star}, names |-> names,
     changes |-> change, failures |-> failure, switches |-> switch]

AllPages == {"overview", "keys", "rules", "clients"}
MasterOnly == master :> default
TwoClients == MasterOnly @@ (k1 :> acme)

SmallLimits ==
    { \* From page to page, with one change and a registration;
      Limit(AllPages, MasterOnly, {acme}, 1, 0, 0),
      \* as two users, with another tab;
      Limit(AllPages, TwoClients, {}, 0, 0, 1),
      \* two users who change the tables of one page;
      Limit({"keys"}, TwoClients, {}, 1, 0, 0),
      Limit({"rules"}, TwoClients, {}, 1, 0, 1),
      \* a rule with blanks around its route;
      [Limit({"rules"}, MasterOnly, {}, 1, 0, 0)
         EXCEPT !.routes = {Star, padded}],
      \* two changes on a page;
      Limit({"keys"}, MasterOnly, {}, 2, 0, 0),
      \* and each page when a request fails.
      Limit({"keys"}, MasterOnly, {acme}, 1, 1, 0),
      Limit({"clients"}, MasterOnly, {acme}, 1, 1, 0),
      Limit({"rules"}, MasterOnly, {}, 1, 1, 0),
      Limit({"overview"}, MasterOnly, {}, 1, 1, 0) }
=============================================================================
