------------------------------ MODULE KeyStore ------------------------------
(***************************************************************************)
(* The life of API keys: the handlers of /admin/keys (handlers/admin.go)   *)
(* behind the authentication middleware (middleware/auth.go), and the      *)
(* statements on the table api_keys (storage/apikeys_crud.go, apikeys.go). *)
(*                                                                         *)
(* A request authenticates, checks that the key it names is its client's,  *)
(* and then creates, rotates, revokes or deletes.  None of this is a       *)
(* transaction: every statement is a step, others interleave, a statement  *)
(* may fail after the database has executed it, and a handler may die      *)
(* between any two.  A rotation takes three statements and, when the last  *)
(* fails, a fourth to undo the second.                                     *)
(***************************************************************************)
EXTENDS Integers, FiniteSets

CONSTANTS
    Clients,      \* names of clients
    Keys,         \* hashes of keys: each is generated at most once
    Handlers,     \* goroutines serving /admin/keys
    Holdings,     \* Holdings[k], the row of a key there at the start, or NoKey
    Schemas,      \* whether api_keys has the column that two UPDATEs set: in
                  \* scripts/setup.sql it does not, the statements assume it
    MaxLapses,    \* bound on the keys that expire
    MaxFailures   \* bound on failures

Key == [client : Clients, admin : BOOLEAN, active : BOOLEAN, late : BOOLEAN]
NoKey == [client |-> "none"]

ASSUME KeyStoreAssumption ==
    /\ Holdings \in [Keys -> Key \union {NoKey}]
    /\ \A k \in Keys : Holdings[k] # NoKey => Holdings[k].active
    /\ Schemas \subseteq BOOLEAN
    /\ MaxLapses \in Nat
    /\ MaxFailures \in Nat
    /\ "none" \notin Clients

VARIABLES
    clients,    \* the table clients
    keys,       \* the table api_keys: keys[k], NoKey if there is no row
    request,    \* what each handler is doing
    failures,
    hasUpdatedAt, \* the schema of the database
    \* History:
    minted,     \* keys generated so far
    told,       \* keys whose plain text was sent to the caller
    holders,    \* clients of such keys
    withdrawn   \* clients who lost a key to a revocation or a deletion, or to
                \* an UPDATE that was executed and reported as failed

vars == <<clients, keys, request, failures, hasUpdatedAt,
          minted, told, holders, withdrawn>>

\* A request: the client and the privilege its key gave it when it was
\* authenticated, the key it is about, the key it creates.
Free == [phase |-> "free"]
Asked(op, phase, k, target) ==
    [phase |-> phase, op |-> op, client |-> keys[k].client,
     admin |-> keys[k].admin, target |-> target]

Request ==
    {Free}
    \union [phase : {"owner", "act"}, op : {"rotate", "revoke", "delete"},
            client : Clients, admin : BOOLEAN, target : Keys]
    \union [phase : {"insert"}, op : {"create", "rotate"}, client : Clients,
            admin : BOOLEAN, target : Keys, row : Key]
    \union [phase : {"update", "cleanup", "reply"}, op : {"create", "rotate"},
            client : Clients, admin : BOOLEAN, target : Keys, new : Keys]

Init ==
    /\ clients = Clients
    /\ keys = Holdings
    /\ request = [h \in Handlers |-> Free]
    /\ failures = 0
    /\ hasUpdatedAt \in Schemas
    /\ minted = {k \in Keys : Holdings[k] # NoKey}
    /\ told = minted
    /\ holders = {Holdings[k].client : k \in minted}
    /\ withdrawn = {}

Goto(h, q) == request' = [request EXCEPT ![h] = q]
Fail == failures < MaxFailures /\ failures' = failures + 1
History == <<minted, told, holders, withdrawn>>

-----------------------------------------------------------------------------
(* The statements. *)

Row(client, admin) ==
    [client |-> client, admin |-> admin, active |-> TRUE, late |-> FALSE]

\* INSERT: the client must exist, by the foreign key.
Inserted(n, row) ==
    /\ row.client \in clients
    /\ n \notin minted
    /\ keys' = [keys EXCEPT ![n] = row]
    /\ minted' = minted \union {n}
    /\ UNCHANGED withdrawn

Withdraw(k) ==
    withdrawn' = IF keys[k] = NoKey THEN withdrawn
                                    ELSE withdrawn \union {keys[k].client}

\* Mutant of Deactivated: a key that is gone comes back as an inactive row.
DeactivatedAnyway(k) ==
    /\ keys' = [keys EXCEPT ![k] = [client |-> keys[k].client, admin |-> FALSE,
                                    active |-> FALSE, late |-> FALSE]]
    /\ UNCHANGED minted

\* UPDATE SET is_active = false: no row may match.
Deactivated(k) ==
    /\ keys' = IF keys[k] = NoKey
                 THEN keys
                 ELSE [keys EXCEPT ![k] = [keys[k] EXCEPT !.active = FALSE]]
    /\ UNCHANGED minted

Deleted(k) ==
    /\ keys' = [keys EXCEPT ![k] = NoKey]
    /\ UNCHANGED minted

-----------------------------------------------------------------------------
(* The middleware and the checks before the work. *)

\* ValidateAPIKey and the age check of the middleware.
Valid(k) == keys[k] # NoKey /\ keys[k].active /\ ~ keys[k].late

\* Bound: requests that will generate a key are accepted while there are keys
\* left for all of them.
Awaiting ==
    {h \in Handlers : /\ request[h].phase \in {"owner", "act", "insert"}
                      /\ request[h].op \in {"create", "rotate"}}
KeysLeft == Cardinality(Awaiting) < Cardinality(Keys \ minted)

\* A key may be created for one's own client; an administrator creates any.
AskCreate(h, k, client, admin) ==
    /\ request[h] = Free
    /\ Valid(k)
    /\ KeysLeft
    /\ keys[k].admin \/ (client = keys[k].client /\ ~ admin)
    /\ Goto(h, [phase |-> "insert", op |-> "create", client |-> keys[k].client,
                admin |-> keys[k].admin, target |-> k,
                row |-> Row(client, admin)])
    /\ UNCHANGED <<clients, keys, failures, History>>

Ask(h, k, op, target) ==
    /\ request[h] = Free
    /\ Valid(k)
    /\ target \in minted
    /\ op = "rotate" => KeysLeft
    /\ Goto(h, Asked(op, IF keys[k].admin THEN "act" ELSE "owner", k, target))
    /\ UNCHANGED <<clients, keys, failures, History>>

\* Mutant of CheckOwner: the search for the key does not end in a refusal.
CheckNothing(h) ==
    /\ request[h].phase = "owner"
    /\ Goto(h, [request[h] EXCEPT !.phase = "act"])
    /\ UNCHANGED <<clients, keys, failures, History>>

\* The key must be among those ListAPIKeys returns for the caller's client.
CheckOwner(h) ==
    LET q == request[h]
    IN  /\ q.phase = "owner"
        /\ Goto(h, IF keys[q.target].client = q.client
                     THEN [q EXCEPT !.phase = "act"]
                     ELSE Free)
        /\ UNCHANGED <<clients, keys, failures, History>>

-----------------------------------------------------------------------------
(* CreateAPIKey, by itself or as the second statement of a rotation. *)

\* RotateAPIKey reads the old row, if it is active.
ReadOld(h) ==
    LET q == request[h]
        old == keys[q.target]
    IN  /\ q.phase = "act" /\ q.op = "rotate"
        /\ Goto(h, IF old # NoKey /\ old.active
                     THEN [phase |-> "insert", op |-> "rotate",
                           client |-> q.client, admin |-> q.admin,
                           target |-> q.target,
                           row |-> Row(old.client, old.admin)]
                     ELSE Free)
        /\ UNCHANGED <<clients, keys, failures, History>>

Created(q, phase, n) ==
    [phase |-> phase, op |-> q.op, client |-> q.client, admin |-> q.admin,
     target |-> q.target, new |-> n]

Insert(h, n) ==
    LET q == request[h]
    IN  /\ q.phase = "insert"
        /\ Inserted(n, q.row)
        /\ Goto(h, Created(q, IF q.op = "create" THEN "reply" ELSE "update", n))
        /\ UNCHANGED <<clients, failures, told, holders>>

\* The client is gone.
InsertRefused(h) ==
    /\ request[h].phase = "insert"
    /\ request[h].row.client \notin clients
    /\ Goto(h, Free)
    /\ UNCHANGED <<clients, keys, failures, History>>

\* The statement fails, executed or not, and so does the request.
InsertFails(h) ==
    /\ request[h].phase = "insert"
    /\ Fail
    /\ (\E n \in Keys : Inserted(n, request[h].row))
       \/ UNCHANGED <<keys, minted, withdrawn>>
    /\ Goto(h, Free)
    /\ UNCHANGED <<clients, told, holders>>

-----------------------------------------------------------------------------
(* The end of a rotation. *)

\* Mutant of Deactivate: whatever the UPDATE did, the new key is removed.
DeactivateUndone(h) ==
    LET q == request[h]
    IN  /\ q.phase = "update"
        /\ IF hasUpdatedAt THEN Deactivated(q.target)
                           ELSE UNCHANGED <<keys, minted>>
        /\ Goto(h, [q EXCEPT !.phase = "cleanup"])
        /\ UNCHANGED <<clients, failures, told, holders, withdrawn>>

\* Mutant of Deactivate: the error is returned without removing the new key.
DeactivateLeaves(h) ==
    LET q == request[h]
    IN  /\ q.phase = "update"
        /\ IF hasUpdatedAt THEN Deactivated(q.target)
                           ELSE UNCHANGED <<keys, minted>>
        /\ Goto(h, IF hasUpdatedAt THEN [q EXCEPT !.phase = "reply"] ELSE Free)
        /\ UNCHANGED <<clients, failures, told, holders, withdrawn>>

\* The UPDATE names the column updated_at.
Deactivate(h) ==
    LET q == request[h]
    IN  /\ q.phase = "update"
        /\ IF hasUpdatedAt THEN Deactivated(q.target)
                           ELSE UNCHANGED <<keys, minted>>
        /\ Goto(h, [q EXCEPT !.phase = IF hasUpdatedAt THEN "reply"
                                                       ELSE "cleanup"])
        /\ UNCHANGED <<clients, failures, told, holders, withdrawn>>

\* The UPDATE fails, executed or not: if it was, the cleanup that follows takes
\* the new key away after the old one, and the client counts as withdrawn.
DeactivateFails(h) ==
    LET q == request[h]
    IN  /\ q.phase = "update"
        /\ Fail
        /\ \/ hasUpdatedAt /\ Deactivated(q.target) /\ Withdraw(q.target)
           \/ UNCHANGED <<keys, minted, withdrawn>>
        /\ Goto(h, [q EXCEPT !.phase = "cleanup"])
        /\ UNCHANGED <<clients, told, holders>>

\* Mutant of Cleanup: the old key is deleted instead of the new one.
CleanupOld(h) ==
    /\ request[h].phase = "cleanup"
    /\ Deleted(request[h].target)
    /\ Goto(h, Free)
    /\ UNCHANGED <<clients, failures, told, holders, withdrawn>>

\* The new key is deleted; the handler does not look at the outcome.
Cleanup(h) ==
    /\ request[h].phase = "cleanup"
    /\ Deleted(request[h].new)
    /\ Goto(h, Free)
    /\ UNCHANGED <<clients, failures, told, holders, withdrawn>>

CleanupFails(h) ==
    /\ request[h].phase = "cleanup"
    /\ Fail
    /\ Goto(h, Free)
    /\ UNCHANGED <<clients, keys, History>>

Reply(h) ==
    /\ request[h].phase = "reply"
    /\ told' = told \union {request[h].new}
    /\ holders' = (holders \union {keys[request[h].new].client}) \ {"none"}
    /\ Goto(h, Free)
    /\ UNCHANGED <<clients, keys, failures, minted, withdrawn>>

-----------------------------------------------------------------------------
(* RevokeAPIKey and DeleteAPIKeyByHash: one statement each. *)

Revoke(h) ==
    LET q == request[h]
    IN  /\ q.phase = "act" /\ q.op = "revoke"
        /\ IF hasUpdatedAt
             THEN Deactivated(q.target) /\ Withdraw(q.target)
             ELSE UNCHANGED <<keys, minted, withdrawn>>
        /\ Goto(h, Free)
        /\ UNCHANGED <<clients, failures, told, holders>>

Delete(h) ==
    LET q == request[h]
    IN  /\ q.phase = "act" /\ q.op = "delete"
        /\ Deleted(q.target) /\ Withdraw(q.target)
        /\ Goto(h, Free)
        /\ UNCHANGED <<clients, failures, told, holders>>

-----------------------------------------------------------------------------
(* The rest of the world. *)

\* A handler dies with its server, or its client does not get the answer; an
\* UPDATE or DELETE of a revocation or deletion fails without being executed.
Drop(h) ==
    /\ request[h] # Free
    /\ Fail
    /\ Goto(h, Free)
    /\ UNCHANGED <<clients, keys, History>>

Late == {k \in Keys : keys[k] # NoKey /\ keys[k].late}

\* A key passes its expires_at or the MaxKeyAge of the middleware.
Lapse(k) ==
    /\ keys[k] # NoKey /\ ~ keys[k].late
    /\ Cardinality(Late) < MaxLapses
    /\ keys' = [keys EXCEPT ![k] = [keys[k] EXCEPT !.late = TRUE]]
    /\ UNCHANGED <<clients, request, failures, History>>

\* DeleteClientHandler: the foreign key takes the client's keys with it.
DeleteClient(c) ==
    /\ c \in clients
    /\ clients' = clients \ {c}
    /\ keys' = [k \in Keys |-> IF keys[k].client = c THEN NoKey ELSE keys[k]]
    /\ UNCHANGED <<request, failures, History>>

Work(h) ==
    /\ \/ CheckOwner(h) \/ ReadOld(h)
       \/ \E n \in Keys : Insert(h, n)
       \/ InsertRefused(h) \/ Deactivate(h) \/ Cleanup(h) \/ Reply(h)
       \/ Revoke(h) \/ Delete(h)
    /\ UNCHANGED hasUpdatedAt

Environment ==
    /\ \/ \E h \in Handlers, k \in Keys :
            \/ \E c \in Clients, admin \in BOOLEAN : AskCreate(h, k, c, admin)
            \/ \E op \in {"rotate", "revoke", "delete"}, t \in Keys :
                 Ask(h, k, op, t)
       \/ \E h \in Handlers :
            InsertFails(h) \/ DeactivateFails(h) \/ CleanupFails(h) \/ Drop(h)
       \/ \E k \in Keys : Lapse(k)
       \/ \E c \in Clients : DeleteClient(c)
    /\ UNCHANGED hasUpdatedAt

Next == Environment \/ \E h \in Handlers : Work(h)

Spec == Init /\ [][Next]_vars

\* A handler runs on: what it asks the database is answered or fails.
FairSpec == Spec /\ \A h \in Handlers : WF_vars(Work(h))

-----------------------------------------------------------------------------
(* Properties. *)

TypeOK ==
    /\ clients \subseteq Clients
    /\ keys \in [Keys -> Key \union {NoKey}]
    /\ request \in [Handlers -> Request]
    /\ failures \in 0 .. MaxFailures
    /\ hasUpdatedAt \in BOOLEAN
    /\ minted \subseteq Keys
    /\ told \subseteq minted
    /\ holders \subseteq Clients
    /\ withdrawn \subseteq Clients

KeysOf(c) == {k \in Keys : keys[k].client = c}
Active(c) == {k \in KeysOf(c) : keys[k].active}
Rotating(c) ==
    {h \in Handlers : /\ request[h].phase \in {"update", "cleanup", "reply"}
                      /\ keys[request[h].new].client = c}

\* No rotation takes a client's last key away.  Whatever rotations overlap,
\* fail or die half-way, a client who was given a key has an active one until
\* somebody revokes or deletes a key of his, or the answer of an UPDATE is lost:
\* the old key goes only when a new one is there to stay.
AccessKept ==
    \A c \in (clients \intersect holders) \ withdrawn : Active(c) # {}

\* And while nothing fails he has been told one of them, once no rotation is
\* under way.
AccessTold ==
    failures = 0 =>
        \A c \in (clients \intersect holders) \ withdrawn :
            Rotating(c) = {} => Active(c) \intersect told # {}

\* Keys that nobody was told of and no handler is about to tell or remove.
Unclaimed ==
    {k \in Keys : /\ keys[k] # NoKey
                  /\ k \notin told
                  /\ \A h \in Handlers :
                       request[h].phase \in {"update", "cleanup", "reply"} =>
                         request[h].new # k}

\* A failed request leaves no key behind that nobody knows, but for one per
\* failure of the database or death of a handler.
UnclaimedBounded == Cardinality(Unclaimed) <= failures

\* Only administrators and the key's own client take a key away, though the
\* handler checks this some statements before it acts.
OwnKeysOnly ==
    [][\A k \in Keys :
          /\ keys[k] # NoKey /\ keys[k].active
          /\ keys'[k] = NoKey \/ ~ keys'[k].active
          => \/ keys[k].client \notin clients'
             \/ \E h \in Handlers :
                  /\ request'[h] # request[h]
                  /\ request[h].admin \/ request[h].client = keys[k].client]_vars

-----------------------------------------------------------------------------
(* What the repository says and the code does not do. *)

\* "RevokeAPIKey deactivates an API key", "RotateAPIKey creates a new key and
\* deactivates the old one": with the schema of the repository, the UPDATE of
\* either leaves the key inactive when nothing fails.
KeysAreDeactivated ==
    [][\A h \in Handlers :
          /\ Revoke(h) \/ Deactivate(h)
          /\ keys[request[h].target] # NoKey
          => ~ keys'[request[h].target].active]_vars

=============================================================================
