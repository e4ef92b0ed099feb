--------------------------- MODULE KeyStoreProofs ---------------------------
(***************************************************************************)
(* KeyStore for any clients, keys, handlers and failures: only             *)
(* administrators and the owner take a key away, a failed request leaves   *)
(* at most one unknown key behind, and no rotation takes away the last     *)
(* key of a client.                                                        *)
(***************************************************************************)
EXTENDS KeyStore, FiniteSetTheorems, TLAPS

-----------------------------------------------------------------------------
(* The forms of a request. *)

Acting ==
    [phase : {"owner", "act"}, op : {"rotate", "revoke", "delete"},
     client : Clients, admin : BOOLEAN, target : Keys]
Inserting ==
    [phase : {"insert"}, op : {"create", "rotate"}, client : Clients,
     admin : BOOLEAN, target : Keys, row : Key]
Holding ==
    [phase : {"update", "cleanup", "reply"}, op : {"create", "rotate"},
     client : Clients, admin : BOOLEAN, target : Keys, new : Keys]

LEMMA Forms ==
    /\ Request = {Free} \union Acting \union Inserting \union Holding
    /\ Free.phase = "free"
    /\ \A q \in Acting : q.phase \in {"owner", "act"} /\ q # Free
    /\ \A q \in Inserting : q.phase = "insert" /\ q # Free
    /\ \A q \in Holding : q.phase \in {"update", "cleanup", "reply"} /\ q # Free
<1>1. Request = {Free} \union Acting \union Inserting \union Holding
  BY DEF Request, Acting, Inserting, Holding
<1>2. Free.phase = "free"
  BY DEF Free
<1>3. \A q \in Acting : q.phase \in {"owner", "act"}
  BY DEF Acting
<1>4. \A q \in Inserting : q.phase = "insert"
  BY DEF Inserting
<1>5. \A q \in Holding : q.phase \in {"update", "cleanup", "reply"}
  BY DEF Holding
<1> QED
  BY <1>1, <1>2, <1>3, <1>4, <1>5

\* Which form a request has by its phase.
LEMMA ByPhase ==
    ASSUME TypeOK, NEW h \in Handlers
    PROVE  /\ request[h].phase \in {"owner", "act"} => request[h] \in Acting
           /\ request[h].phase = "insert" => request[h] \in Inserting
           /\ request[h].phase \in {"update", "cleanup", "reply"} =>
                request[h] \in Holding
           /\ request[h] \in {Free} \union Acting \union Inserting \union Holding
  BY Forms DEF TypeOK

\* A row is there exactly if it has a client.
LEMMA Rows ==
    /\ NoKey.client = "none" /\ NoKey \notin Key /\ "none" \notin Clients
    /\ \A r \in Key : /\ r # NoKey /\ r.client \in Clients /\ r.client # "none"
                      /\ r.active \in BOOLEAN /\ r.admin \in BOOLEAN
                      /\ r.late \in BOOLEAN
<1>1. NoKey.client = "none" /\ "none" \notin Clients
  BY KeyStoreAssumption DEF NoKey, KeyStoreAssumption
<1>2. \A r \in Key : /\ r.client \in Clients /\ r.active \in BOOLEAN
                     /\ r.admin \in BOOLEAN /\ r.late \in BOOLEAN
  BY DEF Key
<1> QED
  BY <1>1, <1>2

\* Only keys that were generated have rows, are asked for or are handed over,
\* and no two requests create the same.
Generated ==
    /\ \A k \in Keys : keys[k] # NoKey => k \in minted
    /\ \A h \in Handlers : request[h] # Free => request[h].target \in minted
    /\ \A h \in Handlers :
         request[h].phase \in {"update", "cleanup", "reply"} =>
           request[h].new \in minted
    /\ \A g, h \in Handlers :
         /\ request[g].phase \in {"update", "cleanup", "reply"}
         /\ request[h].phase \in {"update", "cleanup", "reply"}
         /\ request[g].new = request[h].new
         => g = h

TypeInv == TypeOK /\ Generated

\* A step of handler h that leaves it with the request q.
LEMMA RequestFrame ==
    ASSUME TypeInv, NEW h \in Handlers, NEW q \in Request, Goto(h, q),
           minted \subseteq minted',
           \A k \in Keys : keys'[k] # NoKey => k \in minted',
           q # Free => q.target \in minted',
           q.phase \in {"update", "cleanup", "reply"} =>
             /\ q.new \in minted'
             /\ \A g \in Handlers \ {h} :
                  request[g].phase \in {"update", "cleanup", "reply"} =>
                    request[g].new # q.new
    PROVE  request' \in [Handlers -> Request] /\ Generated'
<1>1. request \in [Handlers -> Request]
  BY DEF TypeInv, TypeOK
<1>2. request'[h] = q /\ \A g \in Handlers \ {h} : request'[g] = request[g]
  BY <1>1 DEF Goto
<1>3. request' \in [Handlers -> Request]
  BY <1>1 DEF Goto
<1>4. \A g \in Handlers : request'[g] # Free => request'[g].target \in minted'
  BY <1>2 DEF TypeInv, Generated
<1>5. \A g \in Handlers :
        request'[g].phase \in {"update", "cleanup", "reply"} =>
          request'[g].new \in minted'
  BY <1>2 DEF TypeInv, Generated
<1>6. \A f, g \in Handlers :
        /\ request'[f].phase \in {"update", "cleanup", "reply"}
        /\ request'[g].phase \in {"update", "cleanup", "reply"}
        /\ request'[f].new = request'[g].new
        => f = g
  <2> SUFFICES ASSUME NEW f \in Handlers, NEW g \in Handlers,
                      request'[f].phase \in {"update", "cleanup", "reply"},
                      request'[g].phase \in {"update", "cleanup", "reply"},
                      request'[f].new = request'[g].new,
                      f # g
               PROVE  FALSE
    OBVIOUS
  <2>1. CASE f = h
    BY <1>2, <2>1
  <2>2. CASE g = h
    BY <1>2, <2>2
  <2>3. CASE f # h /\ g # h
    BY <1>2, <2>3 DEF TypeInv, Generated
  <2> QED
    BY <2>1, <2>2, <2>3
<1> QED
  BY <1>3, <1>4, <1>5, <1>6 DEF Generated

\* The statements keep the table in form.
LEMMA Tables ==
    ASSUME TypeInv, NEW k \in Keys
    PROVE  /\ Deactivated(k) =>
                /\ keys' \in [Keys -> Key \union {NoKey}]
                /\ \A j \in Keys : keys'[j] # NoKey => keys[j] # NoKey
           /\ Deleted(k) =>
                /\ keys' \in [Keys -> Key \union {NoKey}]
                /\ \A j \in Keys : keys'[j] # NoKey => keys[j] # NoKey
           /\ Withdraw(k) => withdrawn' \subseteq Clients
           /\ \A row \in Key : Inserted(k, row) =>
                /\ keys' \in [Keys -> Key \union {NoKey}]
                /\ minted' \subseteq Keys /\ minted \subseteq minted'
                /\ \A j \in Keys : keys'[j] # NoKey => j \in minted'
<1>1. keys \in [Keys -> Key \union {NoKey}] /\ minted \subseteq Keys
  BY DEF TypeInv, TypeOK
<1>2. \A r \in Key : [r EXCEPT !.active = FALSE] \in Key
  BY DEF Key
<1>3. Deactivated(k) =>
        /\ keys' \in [Keys -> Key \union {NoKey}]
        /\ \A j \in Keys : keys'[j] # NoKey => keys[j] # NoKey
  BY <1>1, <1>2 DEF Deactivated
<1>4. Deleted(k) =>
        /\ keys' \in [Keys -> Key \union {NoKey}]
        /\ \A j \in Keys : keys'[j] # NoKey => keys[j] # NoKey
  BY <1>1 DEF Deleted
<1>5. Withdraw(k) => withdrawn' \subseteq Clients
  BY <1>1, Rows DEF Withdraw, TypeInv, TypeOK
<1>6. \A row \in Key : Inserted(k, row) =>
        /\ keys' \in [Keys -> Key \union {NoKey}]
        /\ minted' \subseteq Keys /\ minted \subseteq minted'
        /\ \A j \in Keys : keys'[j] # NoKey => j \in minted'
  BY <1>1 DEF Inserted, TypeInv, Generated
<1> QED
  BY <1>3, <1>4, <1>5, <1>6

LEMMA AskStep ==
    ASSUME TypeInv, NEW h \in Handlers, NEW k \in Keys,
           \/ \E c \in Clients, admin \in BOOLEAN : AskCreate(h, k, c, admin)
           \/ \E op \in {"rotate", "revoke", "delete"}, t \in Keys :
                Ask(h, k, op, t),
           UNCHANGED hasUpdatedAt
    PROVE  TypeInv'
<1>1. keys[k] \in Key /\ k \in minted
  BY Rows DEF AskCreate, Ask, Valid, TypeInv, TypeOK, Generated
<1>2. UNCHANGED <<clients, keys, failures, minted, told, holders, withdrawn>>
  BY DEF AskCreate, Ask, History
<1>3. ASSUME NEW q \in Request, Goto(h, q), q.target \in minted,
             q.phase \notin {"update", "cleanup", "reply"}
      PROVE  TypeInv'
  <2>1. request' \in [Handlers -> Request] /\ Generated'
    BY <1>2, <1>3, RequestFrame DEF TypeInv, Generated
  <2> QED
    BY <1>2, <2>1 DEF TypeInv, TypeOK
<1>4. ASSUME NEW c \in Clients, NEW admin \in BOOLEAN, AskCreate(h, k, c, admin)
      PROVE  TypeInv'
  <2> DEFINE q == [phase |-> "insert", op |-> "create", client |-> keys[k].client,
                   admin |-> keys[k].admin, target |-> k, row |-> Row(c, admin)]
  <2>1. Row(c, admin) \in Key
    BY DEF Row, Key
  <2>2. q \in Inserting
    BY <1>1, <2>1, Rows DEF Inserting
  <2> QED
    BY <1>1, <1>3, <1>4, <2>2, Forms DEF AskCreate
<1>5. ASSUME NEW op \in {"rotate", "revoke", "delete"}, NEW t \in Keys,
             Ask(h, k, op, t)
      PROVE  TypeInv'
  <2> DEFINE q == Asked(op, IF keys[k].admin THEN "act" ELSE "owner", k, t)
  <2>1. q \in Acting /\ q.target = t
    BY <1>1, Rows DEF Acting, Asked
  <2> QED
    BY <1>3, <1>5, <2>1, Forms DEF Ask
<1> QED
  BY <1>4, <1>5

\* A step that ends a request.
LEMMA FreeStep ==
    ASSUME TypeInv, NEW h \in Handlers, Goto(h, Free),
           minted \subseteq minted',
           \A k \in Keys : keys'[k] # NoKey => k \in minted'
    PROVE  request' \in [Handlers -> Request] /\ Generated'
  BY Forms, RequestFrame

\* A step that only ends a request, or fails.
LEMMA QuietStep ==
    ASSUME TypeInv, NEW h \in Handlers, Goto(h, Free), UNCHANGED hasUpdatedAt,
           UNCHANGED <<clients, keys, History>>,
           Fail \/ UNCHANGED failures
    PROVE  TypeInv'
<1>1. request' \in [Handlers -> Request] /\ Generated'
  BY FreeStep DEF TypeInv, Generated, History
<1> QED
  BY <1>1, KeyStoreAssumption
  DEF TypeInv, TypeOK, Fail, History, KeyStoreAssumption

LEMMA CheckOwnerStep ==
    ASSUME TypeInv, NEW h \in Handlers, CheckOwner(h), UNCHANGED hasUpdatedAt
    PROVE  TypeInv'
<1> DEFINE q == request[h]
           act == [q EXCEPT !.phase = "act"]
<1>1. q \in Acting /\ q # Free
  BY ByPhase, Forms DEF CheckOwner, TypeInv
<1>2. act \in Acting /\ act.target = q.target
  BY <1>1 DEF Acting
<1>3. CASE Goto(h, Free)
  BY <1>3, QuietStep DEF CheckOwner
<1>4. CASE Goto(h, act)
  <2>1. act \in Request /\ act.phase \notin {"update", "cleanup", "reply"}
    BY <1>2, Forms
  <2>2. act.target \in minted
    BY <1>1, <1>2 DEF TypeInv, Generated
  <2>3. UNCHANGED <<clients, keys, failures, minted, told, holders, withdrawn>>
    BY DEF CheckOwner, History
  <2>4. request' \in [Handlers -> Request] /\ Generated'
    BY <1>4, <2>1, <2>2, <2>3, RequestFrame DEF TypeInv, Generated
  <2> QED
    BY <2>3, <2>4 DEF TypeInv, TypeOK
<1> QED
  BY <1>3, <1>4 DEF CheckOwner

LEMMA ReadOldStep ==
    ASSUME TypeInv, NEW h \in Handlers, ReadOld(h), UNCHANGED hasUpdatedAt
    PROVE  TypeInv'
<1> DEFINE q == request[h]
           old == keys[q.target]
           read == [phase |-> "insert", op |-> "rotate", client |-> q.client,
                    admin |-> q.admin, target |-> q.target,
                    row |-> Row(old.client, old.admin)]
<1>1. q \in Acting /\ q # Free
  BY ByPhase, Forms DEF ReadOld, TypeInv
<1>2. q.target \in Keys /\ q.target \in minted
  BY <1>1 DEF Acting, TypeInv, Generated
<1>3. CASE Goto(h, Free)
  BY <1>3, QuietStep DEF ReadOld
<1>4. CASE old # NoKey /\ Goto(h, read)
  <2>1. old \in Key
    BY <1>2, <1>4 DEF TypeInv, TypeOK
  <2>2. Row(old.client, old.admin) \in Key
    BY <2>1, Rows DEF Row, Key
  <2>3. read \in Inserting
    BY <1>1, <2>2 DEF Inserting, Acting
  <2>4. read \in Request /\ read.phase = "insert" /\ read.target \in minted
    BY <1>2, <2>3, Forms
  <2>5. UNCHANGED <<clients, keys, failures, minted, told, holders, withdrawn>>
    BY DEF ReadOld, History
  <2> HIDE DEF read
  <2>6. request' \in [Handlers -> Request] /\ Generated'
    BY <1>4, <2>4, <2>5, RequestFrame DEF TypeInv, Generated
  <2> QED
    BY <2>5, <2>6 DEF TypeInv, TypeOK
<1> QED
  BY <1>3, <1>4 DEF ReadOld

\* What an INSERT leaves behind.
LEMMA InsertForm ==
    ASSUME TypeInv, NEW h \in Handlers, NEW n \in Keys, Insert(h, n)
    PROVE  LET q == Created(request[h], IF request[h].op = "create"
                                          THEN "reply" ELSE "update", n)
           IN  /\ Goto(h, q)
               /\ q \in Holding
               /\ q.new = n /\ q.target = request[h].target
               /\ request[h] \in Inserting /\ request[h] # Free
               /\ n \notin minted
<1>1. request[h] \in Inserting /\ request[h] # Free
  BY ByPhase, Forms DEF Insert, TypeInv
<1> QED
  BY <1>1 DEF Insert, Inserted, Created, Inserting, Holding

LEMMA InsertStep ==
    ASSUME TypeInv, NEW h \in Handlers, NEW n \in Keys, Insert(h, n),
           UNCHANGED hasUpdatedAt
    PROVE  TypeInv'
<1> DEFINE q == Created(request[h], IF request[h].op = "create"
                                      THEN "reply" ELSE "update", n)
<1>1. /\ Goto(h, q) /\ q \in Holding
      /\ q.new = n /\ q.target = request[h].target
      /\ request[h] \in Inserting /\ request[h] # Free
      /\ n \notin minted
  BY InsertForm
<1> HIDE DEF q
<1>2. request[h].row \in Key
  BY <1>1 DEF Inserting
<1>3. /\ keys' \in [Keys -> Key \union {NoKey}]
      /\ minted' \subseteq Keys /\ minted \subseteq minted' /\ n \in minted'
      /\ \A j \in Keys : keys'[j] # NoKey => j \in minted'
      /\ UNCHANGED withdrawn
  BY <1>2, Tables DEF Insert, Inserted
<1>4. q \in Request /\ q.target \in minted'
  BY <1>1, <1>3, Forms DEF TypeInv, Generated
<1>5. \A g \in Handlers :
        request[g].phase \in {"update", "cleanup", "reply"} =>
          request[g].new # q.new
  BY <1>1 DEF TypeInv, Generated
<1>6. request' \in [Handlers -> Request] /\ Generated'
  BY <1>1, <1>3, <1>4, <1>5, RequestFrame
<1> QED
  BY <1>3, <1>6 DEF Insert, TypeInv, TypeOK

LEMMA InsertFailsStep ==
    ASSUME TypeInv, NEW h \in Handlers, InsertFails(h), UNCHANGED hasUpdatedAt
    PROVE  TypeInv'
<1>1. request[h].row \in Key
  BY ByPhase DEF InsertFails, TypeInv, Inserting
<1>2. CASE UNCHANGED <<keys, minted, withdrawn>>
  BY <1>2, QuietStep DEF InsertFails, History
<1>3. ASSUME NEW n \in Keys, Inserted(n, request[h].row)
      PROVE  TypeInv'
  <2>1. /\ keys' \in [Keys -> Key \union {NoKey}]
        /\ minted' \subseteq Keys /\ minted \subseteq minted'
        /\ \A j \in Keys : keys'[j] # NoKey => j \in minted'
        /\ UNCHANGED withdrawn
    BY <1>1, <1>3, Tables DEF Inserted
  <2>2. request' \in [Handlers -> Request] /\ Generated'
    BY <2>1, FreeStep DEF InsertFails
  <2> QED
    BY <2>1, <2>2, KeyStoreAssumption
    DEF InsertFails, Fail, TypeInv, TypeOK, KeyStoreAssumption
<1> QED
  BY <1>2, <1>3 DEF InsertFails

\* A request that holds a new key and moves on without a change of its keys.
LEMMA HoldingStep ==
    ASSUME TypeInv, NEW h \in Handlers, request[h] \in Holding,
           NEW phase \in {"update", "cleanup", "reply"},
           Goto(h, [request[h] EXCEPT !.phase = phase]),
           UNCHANGED minted,
           \A k \in Keys : keys'[k] # NoKey => keys[k] # NoKey
    PROVE  request' \in [Handlers -> Request] /\ Generated'
<1> DEFINE q == [request[h] EXCEPT !.phase = phase]
<1>1. q \in Holding /\ q.target = request[h].target /\ q.new = request[h].new
  BY DEF Holding
<1>2. request[h] # Free /\ request[h].phase \in {"update", "cleanup", "reply"}
  BY Forms
<1>3. q.target \in minted /\ q.new \in minted
  BY <1>1, <1>2 DEF TypeInv, Generated
<1>4. \A g \in Handlers \ {h} :
        request[g].phase \in {"update", "cleanup", "reply"} =>
          request[g].new # q.new
  BY <1>1, <1>2 DEF TypeInv, Generated
<1>5. \A k \in Keys : keys'[k] # NoKey => k \in minted
  BY DEF TypeInv, Generated
<1>6. q \in Request
  BY <1>1, Forms
<1> HIDE DEF q
<1>7. Goto(h, q)
  BY DEF q
<1> QED
  BY <1>3, <1>4, <1>5, <1>6, <1>7, RequestFrame

LEMMA DeactivateStep ==
    ASSUME TypeInv, NEW h \in Handlers, Deactivate(h) \/ DeactivateFails(h),
           UNCHANGED hasUpdatedAt
    PROVE  TypeInv'
<1>1. request[h] \in Holding /\ request[h].target \in Keys
  BY ByPhase DEF Deactivate, DeactivateFails, TypeInv, Holding
<1>2. /\ keys' \in [Keys -> Key \union {NoKey}]
      /\ \A k \in Keys : keys'[k] # NoKey => keys[k] # NoKey
  BY <1>1, Tables DEF Deactivate, DeactivateFails, TypeInv, TypeOK
<1>3. UNCHANGED <<clients, minted, told, holders>> /\ withdrawn' \subseteq Clients
  BY <1>1, Tables
  DEF Deactivate, DeactivateFails, Deactivated, TypeInv, TypeOK
<1>4. \/ Goto(h, [request[h] EXCEPT !.phase = "reply"])
      \/ Goto(h, [request[h] EXCEPT !.phase = "cleanup"])
  BY DEF Deactivate, DeactivateFails
<1>5. request' \in [Handlers -> Request] /\ Generated'
  BY <1>1, <1>2, <1>3, <1>4, HoldingStep
<1>6. failures' \in 0 .. MaxFailures
  BY KeyStoreAssumption
  DEF Deactivate, DeactivateFails, Fail, TypeInv, TypeOK, KeyStoreAssumption
<1> QED
  BY <1>2, <1>3, <1>5, <1>6 DEF TypeInv, TypeOK

\* The other statements that take a key away.
LEMMA RemovalStep ==
    ASSUME TypeInv, NEW h \in Handlers, Cleanup(h) \/ Revoke(h) \/ Delete(h),
           UNCHANGED hasUpdatedAt
    PROVE  TypeInv'
<1>1. \E k \in Keys :
        /\ Deleted(k) \/ Deactivated(k) \/ UNCHANGED <<keys, minted>>
        /\ Withdraw(k) \/ UNCHANGED withdrawn
  <2>1. Cleanup(h) => request[h].new \in Keys
    BY ByPhase DEF Cleanup, TypeInv, Holding
  <2>2. Revoke(h) \/ Delete(h) => request[h].target \in Keys
    BY ByPhase DEF Revoke, Delete, TypeInv, Acting
  <2> QED
    BY <2>1, <2>2 DEF Cleanup, Revoke, Delete
<1>2. /\ keys' \in [Keys -> Key \union {NoKey}]
      /\ \A k \in Keys : keys'[k] # NoKey => keys[k] # NoKey
      /\ withdrawn' \subseteq Clients
      /\ UNCHANGED minted
  BY <1>1, Tables DEF Deleted, Deactivated, TypeInv, TypeOK
<1>3. Goto(h, Free) /\ UNCHANGED <<clients, failures, told, holders>>
  BY DEF Cleanup, Revoke, Delete
<1>4. request' \in [Handlers -> Request] /\ Generated'
  BY <1>2, <1>3, FreeStep DEF TypeInv, Generated
<1> QED
  BY <1>2, <1>3, <1>4 DEF TypeInv, TypeOK

LEMMA ReplyStep ==
    ASSUME TypeInv, NEW h \in Handlers, Reply(h), UNCHANGED hasUpdatedAt
    PROVE  TypeInv'
<1>1. request[h] \in Holding /\ request[h].new \in minted
  BY ByPhase DEF Reply, TypeInv, Generated
<1>2. request[h].new \in Keys
  BY <1>1 DEF Holding
<1>3. holders' \subseteq Clients
  BY <1>2, Rows DEF Reply, TypeInv, TypeOK
<1>4. request' \in [Handlers -> Request] /\ Generated'
  BY FreeStep DEF Reply, TypeInv, Generated
<1> QED
  BY <1>1, <1>3, <1>4 DEF Reply, TypeInv, TypeOK

LEMMA WorldStep ==
    ASSUME TypeInv,
           (\E k \in Keys : Lapse(k)) \/ (\E c \in Clients : DeleteClient(c)),
           UNCHANGED hasUpdatedAt
    PROVE  TypeInv'
<1>1. /\ keys' \in [Keys -> Key \union {NoKey}]
      /\ \A k \in Keys : keys'[k] # NoKey => keys[k] # NoKey
      /\ clients' \subseteq Clients
  <2>1. ASSUME NEW k \in Keys, Lapse(k)
        PROVE  /\ keys' \in [Keys -> Key \union {NoKey}]
               /\ \A j \in Keys : keys'[j] # NoKey => keys[j] # NoKey
    <3>1. \A r \in Key : [r EXCEPT !.late = TRUE] \in Key
      BY DEF Key
    <3> QED
      BY <2>1, <3>1 DEF Lapse, TypeInv, TypeOK
  <2>2. ASSUME NEW c \in Clients, DeleteClient(c)
        PROVE  /\ keys' \in [Keys -> Key \union {NoKey}]
               /\ \A j \in Keys : keys'[j] # NoKey => keys[j] # NoKey
    BY <2>2 DEF DeleteClient, TypeInv, TypeOK
  <2>3. clients' \subseteq Clients
    BY DEF Lapse, DeleteClient, TypeInv, TypeOK
  <2> QED
    BY <2>1, <2>2, <2>3
<1>2. UNCHANGED <<request, failures, minted, told, holders, withdrawn>>
  BY DEF Lapse, DeleteClient, History
<1> QED
  BY <1>1, <1>2 DEF TypeInv, TypeOK, Generated

LEMMA TypeStep == TypeInv /\ [Next]_vars => TypeInv'
<1> SUFFICES ASSUME TypeInv, [Next]_vars PROVE TypeInv'
  OBVIOUS
<1>1. CASE UNCHANGED vars
  BY <1>1 DEF vars, TypeInv, TypeOK, Generated
<1>2. ASSUME NEW h \in Handlers, Work(h)
      PROVE  TypeInv'
  <2>1. InsertRefused(h) => TypeInv'
    BY <1>2, QuietStep DEF Work, InsertRefused
  <2>2. UNCHANGED hasUpdatedAt
    BY <1>2 DEF Work
  <2>3. ASSUME NEW n \in Keys, Insert(h, n) PROVE TypeInv'
    BY <2>2, <2>3, InsertStep
  <2> QED
    BY <1>2, <2>1, <2>2, <2>3, CheckOwnerStep, ReadOldStep, DeactivateStep,
       RemovalStep, ReplyStep
    DEF Work
<1>3. CASE Environment
  <2>1. UNCHANGED hasUpdatedAt
    BY <1>3 DEF Environment
  <2>2. ASSUME NEW h \in Handlers, CleanupFails(h) \/ Drop(h) PROVE TypeInv'
    BY <2>1, <2>2, QuietStep DEF CleanupFails, Drop
  <2> QED
    BY <1>3, <2>1, <2>2, AskStep, InsertFailsStep, DeactivateStep, WorldStep
    DEF Environment
<1> QED
  BY <1>1, <1>2, <1>3 DEF Next

LEMMA TypeInit == Init => TypeInv
<1> SUFFICES ASSUME Init PROVE TypeInv
  OBVIOUS
<1> USE KeyStoreAssumption DEF KeyStoreAssumption, Init
<1>1. \A h \in Handlers : request[h] = Free
  OBVIOUS
<1>2. \A k \in minted : Holdings[k].client \in Clients
  BY Rows
<1>3. Generated
  BY <1>1, Forms DEF Generated
<1>4. TypeOK
  BY <1>2, Forms DEF TypeOK
<1> QED
  BY <1>3, <1>4 DEF TypeInv

\* The tables, the requests and their history keep their form.
THEOREM Typing == Spec => []TypeOK
<1>1. TypeInv => TypeOK
  BY DEF TypeInv
<1> QED
  BY <1>1, TypeInit, TypeStep, PTL DEF Spec

-----------------------------------------------------------------------------
(* Rows. *)

\* A row that was there is gone or still its client's, and no key that was
\* deactivated is active again.
Kept(k) ==
    keys'[k] # NoKey => /\ keys[k] # NoKey
                        /\ keys'[k].client = keys[k].client
                        /\ keys'[k].admin = keys[k].admin
                        /\ keys'[k].active => keys[k].active

LEMMA StatementKeeps ==
    ASSUME TypeInv, NEW k \in Keys
    PROVE  /\ Deactivated(k) \/ Deleted(k) => \A j \in Keys : Kept(j)
           /\ \A row : Inserted(k, row) => \A j \in minted : Kept(j)
           /\ UNCHANGED keys => \A j \in Keys : Kept(j)
<1>1. keys \in [Keys -> Key \union {NoKey}] /\ minted \subseteq Keys
  BY DEF TypeInv, TypeOK
<1>2. \A r \in Key : /\ [r EXCEPT !.active = FALSE].client = r.client
                     /\ [r EXCEPT !.active = FALSE].admin = r.admin
                     /\ ~ [r EXCEPT !.active = FALSE].active
  BY DEF Key
<1>3. Deactivated(k) => \A j \in Keys : Kept(j)
  BY <1>1, <1>2 DEF Deactivated, Kept
<1>4. Deleted(k) => \A j \in Keys : Kept(j)
  BY <1>1 DEF Deleted, Kept
<1>5. \A row : Inserted(k, row) => \A j \in minted : Kept(j)
  BY <1>1 DEF Inserted, Kept
<1> QED
  BY <1>3, <1>4, <1>5 DEF Kept

LEMMA RowsKept == TypeInv /\ [Next]_vars => \A j \in minted : Kept(j)
<1> SUFFICES ASSUME TypeInv, [Next]_vars PROVE \A j \in minted : Kept(j)
  OBVIOUS
<1>1. minted \subseteq Keys
  BY DEF TypeInv, TypeOK
<1>2. CASE UNCHANGED keys
  BY <1>1, <1>2 DEF Kept
<1>3. ASSUME NEW h \in Handlers, Work(h)
      PROVE  \A j \in minted : Kept(j)
  <2>1. CASE \E n \in Keys : Insert(h, n)
    BY <2>1, StatementKeeps DEF Insert
  <2>2. CASE Deactivate(h)
    <3>1. request[h].target \in Keys
      BY <2>2, ByPhase DEF Deactivate, TypeInv, Holding
    <3> QED
      BY <1>2, <2>2, <3>1, <1>1, StatementKeeps DEF Deactivate
  <2>3. CASE Cleanup(h)
    <3>1. request[h].new \in Keys
      BY <2>3, ByPhase DEF Cleanup, TypeInv, Holding
    <3> QED
      BY <2>3, <3>1, <1>1, StatementKeeps DEF Cleanup
  <2>4. CASE Revoke(h) \/ Delete(h)
    <3>1. request[h].target \in Keys
      BY <2>4, ByPhase DEF Revoke, Delete, TypeInv, Acting
    <3> QED
      BY <1>2, <2>4, <3>1, <1>1, StatementKeeps DEF Revoke, Delete
  <2>5. CASE CheckOwner(h) \/ ReadOld(h) \/ InsertRefused(h) \/ Reply(h)
    BY <1>2, <2>5 DEF CheckOwner, ReadOld, InsertRefused, Reply
  <2> QED
    BY <1>3, <2>1, <2>2, <2>3, <2>4, <2>5 DEF Work
<1>4. CASE Environment
  <2>1. ASSUME NEW h \in Handlers, InsertFails(h)
        PROVE  \A j \in minted : Kept(j)
    BY <1>2, <2>1, StatementKeeps DEF InsertFails
  <2>2. ASSUME NEW h \in Handlers, DeactivateFails(h)
        PROVE  \A j \in minted : Kept(j)
    <3>1. request[h].target \in Keys
      BY <2>2, ByPhase DEF DeactivateFails, TypeInv, Holding
    <3> QED
      BY <1>2, <2>2, <3>1, <1>1, StatementKeeps DEF DeactivateFails
  <2>3. ASSUME NEW k \in Keys, Lapse(k)
        PROVE  \A j \in minted : Kept(j)
    <3>1. \A r \in Key : /\ [r EXCEPT !.late = TRUE].client = r.client
                         /\ [r EXCEPT !.late = TRUE].admin = r.admin
                         /\ [r EXCEPT !.late = TRUE].active = r.active
      BY DEF Key
    <3> QED
      BY <1>1, <2>3, <3>1 DEF Lapse, Kept, TypeInv, TypeOK
  <2>4. ASSUME NEW c \in Clients, DeleteClient(c)
        PROVE  \A j \in minted : Kept(j)
    BY <1>1, <2>4 DEF DeleteClient, Kept
  <2>5. (\E h \in Handlers, k \in Keys :
            \/ \E c \in Clients, admin \in BOOLEAN : AskCreate(h, k, c, admin)
            \/ \E op \in {"rotate", "revoke", "delete"}, t \in Keys :
                 Ask(h, k, op, t))
        \/ (\E h \in Handlers : CleanupFails(h) \/ Drop(h))
        => UNCHANGED keys
    BY DEF AskCreate, Ask, CleanupFails, Drop
  <2> QED
    BY <1>2, <1>4, <2>1, <2>2, <2>3, <2>4, <2>5 DEF Environment
<1> QED
  BY <1>2, <1>3, <1>4 DEF Next, vars

-----------------------------------------------------------------------------
(* Who takes a key away. *)

OwnedBy(k, c) == keys[k] = NoKey \/ keys[k].client = c

\* Past the check, whatever a caller without privileges asked for is about the
\* keys of his own client.
Fits(q) ==
    ~ q.admin =>
      /\ \/ q.phase \in {"act", "update"}
         \/ q.phase = "insert" /\ q.op = "rotate"
         => OwnedBy(q.target, q.client)
      /\ q.phase = "insert" => q.row.client = q.client
      /\ q.phase \in {"update", "cleanup", "reply"} => OwnedBy(q.new, q.client)

Owned == \A h \in Handlers : Fits(request[h])

\* The handlers that do not move stay within their rights.
LEMMA OwnedFrame ==
    ASSUME TypeInv, Owned, [Next]_vars, NEW g \in Handlers,
           request'[g] = request[g]
    PROVE  Fits(request[g])'
<1> DEFINE q == request[g]
<1>1. \A j \in minted : keys'[j] = NoKey \/ keys'[j].client = keys[j].client
  BY RowsKept DEF Kept
<1>2. \A j \in minted : keys'[j] # NoKey => keys[j] # NoKey
  BY RowsKept DEF Kept
<1>3. q # Free => q.target \in minted
  BY DEF TypeInv, Generated
<1>4. q.phase \in {"update", "cleanup", "reply"} => q.new \in minted
  BY DEF TypeInv, Generated
<1>5. q = Free => q.phase = "free"
  BY Forms
<1> QED
  BY <1>1, <1>2, <1>3, <1>4, <1>5 DEF Owned, Fits, OwnedBy

\* Every step is one handler's, or nobody's.
LEMMA OneMoves ==
    ASSUME TypeInv, [Next]_vars
    PROVE  \/ request' = request
           \/ \E h \in Handlers : \E q : Goto(h, q)
  BY DEF Next, vars, Work, Environment, CheckOwner, ReadOld, Insert,
     InsertRefused, Deactivate, Cleanup, Reply, Revoke, Delete, AskCreate, Ask,
     InsertFails, DeactivateFails, CleanupFails, Drop, Lapse, DeleteClient

LEMMA GotoMoves ==
    ASSUME TypeInv, NEW h \in Handlers, NEW q, Goto(h, q)
    PROVE  request'[h] = q /\ \A g \in Handlers \ {h} : request'[g] = request[g]
  BY DEF Goto, TypeInv, TypeOK

LEMMA OwnedHandler ==
    ASSUME TypeInv, Owned, NEW h \in Handlers, Work(h), Next
    PROVE  Fits(request[h])'
<1> DEFINE q == request[h]
<1>f. Goto(h, Free) => Fits(request[h])'
  BY Forms, GotoMoves DEF Fits
<1>k. \A j \in minted : Kept(j)
  BY RowsKept
<1>1. CASE CheckOwner(h)
  <2>1. q \in Acting
    BY <1>1, ByPhase DEF CheckOwner, TypeInv
  <2>2. CASE Goto(h, [q EXCEPT !.phase = "act"]) /\ keys[q.target].client = q.client
    <3>1. request'[h] = [q EXCEPT !.phase = "act"]
      BY <2>2, GotoMoves
    <3>2. /\ request'[h].phase = "act" /\ request'[h].target = q.target
          /\ request'[h].client = q.client
      BY <2>1, <3>1 DEF Acting
    <3>3. keys' = keys
      BY <1>1 DEF CheckOwner
    <3> QED
      BY <2>2, <3>2, <3>3 DEF Fits, OwnedBy
  <2> QED
    BY <1>1, <1>f, <2>2 DEF CheckOwner
<1>2. CASE ReadOld(h)
  <2> DEFINE old == keys[q.target]
             read == [phase |-> "insert", op |-> "rotate", client |-> q.client,
                      admin |-> q.admin, target |-> q.target,
                      row |-> Row(old.client, old.admin)]
  <2>1. q.phase = "act" /\ keys' = keys
    BY <1>2 DEF ReadOld
  <2>2. CASE old # NoKey /\ Goto(h, read)
    <3>1. request'[h] = read
      BY <2>2, GotoMoves
    <3>2. read.row.client = old.client
      BY DEF Row
    <3>3. ~ q.admin => old.client = q.client
      BY <2>1, <2>2 DEF Owned, Fits, OwnedBy
    <3> QED
      BY <2>1, <3>1, <3>2, <3>3 DEF Fits, OwnedBy
  <2> QED
    BY <1>2, <1>f, <2>2 DEF ReadOld
<1>3. ASSUME NEW n \in Keys, Insert(h, n)
      PROVE  Fits(request[h])'
  <2> DEFINE r == Created(q, IF q.op = "create" THEN "reply" ELSE "update", n)
  <2>1. request'[h] = r /\ q \in Inserting /\ q # Free
    BY <1>3, InsertForm, GotoMoves
  <2>2. keys'[n] = q.row /\ \A j \in Keys \ {n} : keys'[j] = keys[j]
    BY <1>3 DEF Insert, Inserted, TypeInv, TypeOK
  <2>3. q.target \in minted /\ q.target \in Keys /\ n \notin minted
    BY <1>3, <2>1 DEF TypeInv, Generated, Insert, Inserted, Inserting
  <2>4. keys'[q.target] = keys[q.target]
    BY <2>2, <2>3
  <2>5. ~ q.admin => /\ q.row.client = q.client
                     /\ q.op = "rotate" => OwnedBy(q.target, q.client)
    BY <2>1, Forms DEF Owned, Fits
  <2>6. /\ r.admin = q.admin /\ r.client = q.client /\ r.target = q.target
        /\ r.new = n /\ r.phase \in {"reply", "update"}
        /\ r.phase = "update" => q.op = "rotate"
    BY <2>1 DEF Created, Inserting
  <2> HIDE DEF r
  <2> QED
    BY <2>1, <2>2, <2>4, <2>5, <2>6 DEF Fits, OwnedBy
<1>4. CASE Deactivate(h)
  <2>1. q \in Holding /\ q.new \in minted
    BY <1>4, ByPhase DEF Deactivate, TypeInv, Generated
  <2>2. PICK phase \in {"reply", "cleanup"} :
           request'[h] = [q EXCEPT !.phase = phase]
    BY <1>4, GotoMoves DEF Deactivate
  <2>3. /\ request'[h].phase = phase /\ request'[h].client = q.client
        /\ request'[h].admin = q.admin /\ request'[h].new = q.new
    BY <2>1, <2>2 DEF Holding
  <2>4. ~ q.admin => OwnedBy(q.new, q.client)
    BY <1>4 DEF Owned, Fits, Deactivate
  <2> QED
    BY <1>k, <2>1, <2>3, <2>4 DEF Fits, OwnedBy, Kept
<1> QED
  BY <1>1, <1>2, <1>3, <1>4, <1>f
  DEF Work, InsertRefused, Cleanup, Reply, Revoke, Delete

LEMMA OwnedEnvironment ==
    ASSUME TypeInv, Owned, NEW h \in Handlers, Environment, Next,
           request'[h] # request[h]
    PROVE  Fits(request[h])'
<1> DEFINE q == request[h]
<1>m. \A g \in Handlers : \A r : Goto(g, r) => g = h /\ request'[h] = r
  BY GotoMoves
<1>f. request'[h] = Free => Fits(request[h])'
  BY Forms DEF Fits
<1>1. ASSUME NEW g \in Handlers, NEW k \in Keys, NEW c \in Clients,
             NEW admin \in BOOLEAN, AskCreate(g, k, c, admin)
      PROVE  Fits(request[h])'
  <2>1. request'[h] = [phase |-> "insert", op |-> "create",
                       client |-> keys[k].client, admin |-> keys[k].admin,
                       target |-> k, row |-> Row(c, admin)]
    BY <1>1, <1>m DEF AskCreate
  <2>2. ~ keys[k].admin => c = keys[k].client
    BY <1>1 DEF AskCreate
  <2> QED
    BY <2>1, <2>2 DEF Fits, Row
<1>2. ASSUME NEW g \in Handlers, NEW k \in Keys, NEW t \in Keys,
             NEW op \in {"rotate", "revoke", "delete"}, Ask(g, k, op, t)
      PROVE  Fits(request[h])'
  <2>1. request'[h] = Asked(op, IF keys[k].admin THEN "act" ELSE "owner", k, t)
    BY <1>2, <1>m DEF Ask
  <2> QED
    BY <2>1 DEF Fits, Asked
<1>3. ASSUME NEW g \in Handlers, DeactivateFails(g)
      PROVE  Fits(request[h])'
  <2>1. g = h /\ request'[h] = [q EXCEPT !.phase = "cleanup"]
    BY <1>3, <1>m DEF DeactivateFails
  <2>2. q \in Holding /\ q.phase = "update" /\ q.new \in minted
    BY <1>3, <2>1, ByPhase DEF DeactivateFails, TypeInv, Generated
  <2>3. /\ request'[h].phase = "cleanup" /\ request'[h].client = q.client
        /\ request'[h].admin = q.admin /\ request'[h].new = q.new
    BY <2>1, <2>2 DEF Holding
  <2>4. ~ q.admin => OwnedBy(q.new, q.client)
    BY <2>2 DEF Owned, Fits
  <2>5. Kept(q.new)
    BY <2>2, RowsKept
  <2> QED
    BY <2>3, <2>4, <2>5 DEF Fits, OwnedBy, Kept
<1>4. ASSUME NEW g \in Handlers, InsertFails(g) \/ CleanupFails(g) \/ Drop(g)
      PROVE  Fits(request[h])'
  BY <1>4, <1>m, <1>f DEF InsertFails, CleanupFails, Drop
<1>5. (\E k \in Keys : Lapse(k)) \/ (\E c \in Clients : DeleteClient(c))
        => request' = request
  BY DEF Lapse, DeleteClient
<1> QED
  BY <1>1, <1>2, <1>3, <1>4, <1>5 DEF Environment

LEMMA OwnedStep == TypeInv /\ Owned /\ [Next]_vars => Owned'
<1> SUFFICES ASSUME TypeInv, Owned, [Next]_vars, NEW g \in Handlers
             PROVE  Fits(request[g])'
  BY DEF Owned
<1>1. CASE request'[g] = request[g]
  BY <1>1, OwnedFrame
<1>2. CASE request'[g] # request[g]
  <2>1. Next
    BY <1>2 DEF vars
  <2>2. CASE Environment
    BY <1>2, <2>1, <2>2, OwnedEnvironment
  <2>3. ASSUME NEW h \in Handlers, Work(h)
        PROVE  Fits(request[g])'
    <3>1. \E r : Goto(h, r)
      BY <2>3 DEF Work, CheckOwner, ReadOld, Insert, InsertRefused, Deactivate,
         Cleanup, Reply, Revoke, Delete
    <3>2. g = h
      BY <1>2, <3>1, GotoMoves
    <3> QED
      BY <2>1, <2>3, <3>2, OwnedHandler
  <2> QED
    BY <2>1, <2>2, <2>3 DEF Next
<1> QED
  BY <1>1, <1>2

LEMMA OwnedInit == Init => Owned
  BY Forms DEF Init, Owned, Fits

\* A statement takes away no key but its own.
LEMMA OnlyOne ==
    ASSUME TypeInv, NEW k \in Keys, NEW j \in Keys,
           keys[j] # NoKey, keys[j].active,
           keys'[j] = NoKey \/ ~ keys'[j].active
    PROVE  /\ Deactivated(k) \/ Deleted(k) => j = k
           /\ \A row : ~ Inserted(k, row)
           /\ keys' # keys
  BY DEF Deactivated, Deleted, Inserted, TypeInv, TypeOK, Generated

LEMMA TakenByOwner ==
    ASSUME TypeInv, Owned, Next, NEW k \in Keys,
           keys[k] # NoKey, keys[k].active,
           keys'[k] = NoKey \/ ~ keys'[k].active
    PROVE  \/ keys[k].client \notin clients'
           \/ \E h \in Handlers :
                /\ request'[h] # request[h]
                /\ request[h].admin \/ request[h].client = keys[k].client
<1>u. keys' # keys /\ \A n \in Keys : \A row : ~ Inserted(n, row)
  BY OnlyOne
<1>1. ASSUME NEW h \in Handlers, Deactivate(h) \/ DeactivateFails(h)
      PROVE  /\ request'[h] # request[h]
             /\ request[h].admin \/ request[h].client = keys[k].client
  <2>1. request[h] \in Holding /\ request[h].phase = "update"
    BY <1>1, ByPhase DEF Deactivate, DeactivateFails, TypeInv
  <2>2. request[h].target \in Keys
    BY <2>1 DEF Holding
  <2>3. k = request[h].target
    BY <1>1, <1>u, <2>2, OnlyOne DEF Deactivate, DeactivateFails
  <2>4. request[h].admin \/ OwnedBy(k, request[h].client)
    BY <2>1, <2>3 DEF Owned, Fits
  <2>5. \A phase \in {"reply", "cleanup"} :
          [request[h] EXCEPT !.phase = phase].phase # "update"
    BY <2>1 DEF Holding
  <2>6. request'[h] # request[h]
    BY <1>1, <2>1, <2>5, GotoMoves DEF Deactivate, DeactivateFails
  <2> QED
    BY <2>4, <2>6 DEF OwnedBy
<1>2. ASSUME NEW h \in Handlers, Cleanup(h)
      PROVE  /\ request'[h] # request[h]
             /\ request[h].admin \/ request[h].client = keys[k].client
  <2>1. request[h] \in Holding /\ request[h].phase = "cleanup"
    BY <1>2, ByPhase DEF Cleanup, TypeInv
  <2>2. request[h].new \in Keys
    BY <2>1 DEF Holding
  <2>3. k = request[h].new
    BY <1>2, <2>2, OnlyOne DEF Cleanup
  <2>4. request[h].admin \/ OwnedBy(k, request[h].client)
    BY <2>1, <2>3 DEF Owned, Fits
  <2>5. request'[h] # request[h]
    BY <1>2, <2>1, Forms, GotoMoves DEF Cleanup
  <2> QED
    BY <2>4, <2>5 DEF OwnedBy
<1>3. ASSUME NEW h \in Handlers, Revoke(h) \/ Delete(h)
      PROVE  /\ request'[h] # request[h]
             /\ request[h].admin \/ request[h].client = keys[k].client
  <2>1. request[h] \in Acting /\ request[h].phase = "act"
    BY <1>3, ByPhase DEF Revoke, Delete, TypeInv
  <2>2. request[h].target \in Keys
    BY <2>1 DEF Acting
  <2>3. k = request[h].target
    BY <1>3, <1>u, <2>2, OnlyOne DEF Revoke, Delete
  <2>4. request[h].admin \/ OwnedBy(k, request[h].client)
    BY <2>1, <2>3 DEF Owned, Fits
  <2>5. request'[h] # request[h]
    BY <1>3, <2>1, Forms, GotoMoves DEF Revoke, Delete
  <2> QED
    BY <2>4, <2>5 DEF OwnedBy
<1>4. ASSUME NEW c \in Clients, DeleteClient(c)
      PROVE  keys[k].client \notin clients'
  BY <1>4 DEF DeleteClient
<1>5. ASSUME NEW j \in Keys
      PROVE  ~ Lapse(j)
  <2> DEFINE late == [keys[k] EXCEPT !.late = TRUE]
  <2>1. keys[k] \in Key
    BY DEF TypeInv, TypeOK
  <2>2. late \in Key /\ late.active = keys[k].active
    BY <2>1 DEF Key
  <2>3. late # NoKey
    BY <2>2, Rows
  <2>4. Lapse(j) => keys'[k] \in {keys[k], late}
    BY DEF Lapse, TypeInv, TypeOK
  <2> HIDE DEF late
  <2> QED
    BY <2>2, <2>3, <2>4
<1>6. ASSUME NEW h \in Handlers, Work(h)
      PROVE  Deactivate(h) \/ Cleanup(h) \/ Revoke(h) \/ Delete(h)
  BY <1>6, <1>u DEF Work, CheckOwner, ReadOld, Insert, InsertRefused, Reply
<1>7. CASE Environment
  BY <1>7, <1>u, <1>1, <1>4, <1>5
  DEF Environment, AskCreate, Ask, InsertFails, CleanupFails, Drop
<1> QED
  BY <1>1, <1>2, <1>3, <1>6, <1>7 DEF Next

\* Only administrators and the key's own client take a key away.
THEOREM OwnersOnly == Spec => OwnKeysOnly
<1>1. Init => TypeInv /\ Owned
  BY TypeInit, OwnedInit
<1>2. TypeInv /\ Owned /\ [Next]_vars => (TypeInv /\ Owned)'
  BY TypeStep, OwnedStep
<1>3. ASSUME TypeInv, Owned, [Next]_vars
      PROVE  [\A k \in Keys :
                /\ keys[k] # NoKey /\ keys[k].active
                /\ keys'[k] = NoKey \/ ~ keys'[k].active
                => \/ keys[k].client \notin clients'
                   \/ \E h \in Handlers :
                        /\ request'[h] # request[h]
                        /\ request[h].admin \/ request[h].client = keys[k].client]_vars
  BY <1>3, TakenByOwner
<1> QED
  BY <1>1, <1>2, <1>3, PTL DEF Spec, OwnKeysOnly

-----------------------------------------------------------------------------
(* Keys that nobody knows. *)

Holds(q, k) == q.phase \in {"update", "cleanup", "reply"} /\ q.new = k

UnclaimedInv == IsFiniteSet(Unclaimed) /\ Cardinality(Unclaimed) <= failures

\* The keys that handler h leaves behind are in X: those that appear without
\* being held, and the one it held, unless it is told, removed or still held.
LEMMA LeftBehind ==
    ASSUME TypeInv, NEW h \in Handlers, NEW q, Goto(h, q), NEW X,
           told \subseteq told',
           \A k \in Keys : keys'[k] # NoKey =>
                             keys[k] # NoKey \/ k \in X \/ Holds(q, k),
           \A k \in Keys : Holds(request[h], k) =>
             k \in X \/ k \in told' \/ keys'[k] = NoKey \/ Holds(q, k)
    PROVE  Unclaimed' \subseteq Unclaimed \union X
<1> SUFFICES ASSUME NEW k \in Unclaimed', k \notin X PROVE k \in Unclaimed
  OBVIOUS
<1>1. request'[h] = q /\ \A g \in Handlers \ {h} : request'[g] = request[g]
  BY GotoMoves
<1>2. /\ k \in Keys /\ keys'[k] # NoKey /\ k \notin told'
      /\ \A g \in Handlers : ~ Holds(request'[g], k)
  BY DEF Unclaimed, Holds
<1>3. keys[k] # NoKey /\ k \notin told
  BY <1>1, <1>2
<1>4. \A g \in Handlers : ~ Holds(request[g], k)
  BY <1>1, <1>2
<1> QED
  BY <1>2, <1>3, <1>4 DEF Unclaimed, Holds

LEMMA OneMore ==
    ASSUME TypeInv, UnclaimedInv, NEW n, failures' \in Nat,
           \/ Unclaimed' \subseteq Unclaimed /\ failures' >= failures
           \/ Unclaimed' \subseteq Unclaimed \union {n} /\ failures' = failures + 1
    PROVE  UnclaimedInv'
<1>0. IsFiniteSet(Unclaimed) /\ Cardinality(Unclaimed) \in Nat /\ failures \in Nat
  BY FS_CardinalityType, KeyStoreAssumption
  DEF UnclaimedInv, TypeInv, TypeOK, KeyStoreAssumption
<1>1. CASE Unclaimed' \subseteq Unclaimed /\ failures' >= failures
  <2>1. /\ IsFiniteSet(Unclaimed') /\ Cardinality(Unclaimed') \in Nat
        /\ Cardinality(Unclaimed') <= Cardinality(Unclaimed)
    BY <1>0, <1>1, FS_Subset, FS_CardinalityType
  <2> QED
    BY <1>0, <1>1, <2>1 DEF UnclaimedInv
<1>2. CASE Unclaimed' \subseteq Unclaimed \union {n} /\ failures' = failures + 1
  <2> DEFINE more == Unclaimed \union {n}
  <2>1. /\ IsFiniteSet(more) /\ Cardinality(more) \in Nat
        /\ Cardinality(more) <= Cardinality(Unclaimed) + 1
    <3>1. IsFiniteSet(more)
      BY <1>0, FS_AddElement
    <3>2. \/ Cardinality(more) = Cardinality(Unclaimed)
          \/ Cardinality(more) = Cardinality(Unclaimed) + 1
      BY <1>0, FS_AddElement
    <3> QED
      BY <1>0, <3>1, <3>2, FS_CardinalityType
  <2>2. /\ IsFiniteSet(Unclaimed') /\ Cardinality(Unclaimed') \in Nat
        /\ Cardinality(Unclaimed') <= Cardinality(more)
    BY <1>2, <2>1, FS_Subset, FS_CardinalityType
  <2> QED
    BY <1>0, <1>2, <2>1, <2>2 DEF UnclaimedInv
<1> QED
  BY <1>1, <1>2

LEMMA UnclaimedWork ==
    ASSUME TypeInv, NEW h \in Handlers, Work(h)
    PROVE  Unclaimed' \subseteq Unclaimed
<1> DEFINE q == request[h]
<1>s. \A k \in Keys : Deactivated(k) \/ Deleted(k) =>
        \A j \in Keys : keys'[j] # NoKey => keys[j] # NoKey
  BY Tables
<1>n. (\A k \in Keys : ~ Holds(q, k))
      \/ q.phase \in {"update", "cleanup", "reply"}
  BY DEF Holds
<1>f. \A k \in Keys : ~ Holds(Free, k)
  BY Forms DEF Holds
<1>1. CASE CheckOwner(h) \/ ReadOld(h) \/ InsertRefused(h)
  <2>1. \A k \in Keys : ~ Holds(q, k)
    BY <1>1 DEF Holds, CheckOwner, ReadOld, InsertRefused
  <2>2. UNCHANGED <<keys, told>> /\ \E r : Goto(h, r)
    BY <1>1 DEF CheckOwner, ReadOld, InsertRefused, History
  <2>3. Unclaimed' \subseteq Unclaimed \union {}
    BY <2>1, <2>2, LeftBehind
  <2> QED
    BY <2>3
<1>2. ASSUME NEW n \in Keys, Insert(h, n)
      PROVE  Unclaimed' \subseteq Unclaimed
  <2> DEFINE r == Created(q, IF q.op = "create" THEN "reply" ELSE "update", n)
  <2>1. Goto(h, r) /\ r \in Holding /\ r.new = n
    BY <1>2, InsertForm
  <2> HIDE DEF r
  <2>2. Holds(r, n)
    BY <2>1, Forms DEF Holds
  <2>3. \A k \in Keys \ {n} : keys'[k] = keys[k]
    BY <1>2 DEF Insert, Inserted, TypeInv, TypeOK
  <2>4. \A k \in Keys : ~ Holds(q, k)
    BY <1>2 DEF Insert, Holds
  <2>5. Unclaimed' \subseteq Unclaimed \union {}
    BY <1>2, <2>1, <2>2, <2>3, <2>4, LeftBehind DEF Insert
  <2> QED
    BY <2>5
<1>3. CASE Deactivate(h)
  <2>1. q \in Holding /\ q.target \in Keys
    BY <1>3, ByPhase DEF Deactivate, TypeInv, Holding
  <2>2. PICK phase \in {"reply", "cleanup"} :
           Goto(h, [q EXCEPT !.phase = phase])
    BY <1>3 DEF Deactivate
  <2> DEFINE r == [q EXCEPT !.phase = phase]
  <2>3. \A k \in Keys : Holds(q, k) => Holds(r, k)
    BY <2>1 DEF Holding, Holds
  <2>4. \A j \in Keys : keys'[j] # NoKey => keys[j] # NoKey
    BY <1>3, <1>s, <2>1 DEF Deactivate
  <2>5. Goto(h, r) /\ told' = told
    BY <1>3, <2>2 DEF Deactivate
  <2> HIDE DEF r
  <2>6. Unclaimed' \subseteq Unclaimed \union {}
    BY <2>3, <2>4, <2>5, LeftBehind
  <2> QED
    BY <2>6
<1>4. CASE Cleanup(h)
  <2>1. q.new \in Keys
    BY <1>4, ByPhase DEF Cleanup, TypeInv, Holding
  <2>2. /\ \A j \in Keys : keys'[j] # NoKey => keys[j] # NoKey
        /\ keys'[q.new] = NoKey
    BY <1>4, <2>1, <1>s DEF Cleanup, Deleted, TypeInv, TypeOK
  <2>3. Goto(h, Free) /\ told' = told
    BY <1>4 DEF Cleanup
  <2>4. \A k \in Keys : Holds(q, k) => keys'[k] = NoKey
    BY <2>2 DEF Holds
  <2>5. Unclaimed' \subseteq Unclaimed \union {}
    BY <2>2, <2>3, <2>4, LeftBehind
  <2> QED
    BY <2>5
<1>5. CASE Reply(h)
  <2>1. \A k \in Keys : Holds(q, k) => k \in told'
    BY <1>5 DEF Reply, Holds
  <2>2. Goto(h, Free) /\ told \subseteq told' /\ keys' = keys
    BY <1>5 DEF Reply
  <2>3. Unclaimed' \subseteq Unclaimed \union {}
    BY <2>1, <2>2, LeftBehind
  <2> QED
    BY <2>3
<1>6. CASE Revoke(h) \/ Delete(h)
  <2>1. q.target \in Keys /\ \A k \in Keys : ~ Holds(q, k)
    BY <1>6, ByPhase DEF Revoke, Delete, TypeInv, Acting, Holds
  <2>2. \A j \in Keys : keys'[j] # NoKey => keys[j] # NoKey
    BY <1>6, <1>s, <2>1 DEF Revoke, Delete
  <2>3. Goto(h, Free) /\ told' = told
    BY <1>6 DEF Revoke, Delete
  <2>4. Unclaimed' \subseteq Unclaimed \union {}
    BY <2>1, <2>2, <2>3, LeftBehind
  <2> QED
    BY <2>4
<1> QED
  BY <1>1, <1>2, <1>3, <1>4, <1>5, <1>6 DEF Work

\* A failure leaves at most the key the handler was creating or held.
LEMMA UnclaimedFailure ==
    ASSUME TypeInv, NEW h \in Handlers,
           InsertFails(h) \/ DeactivateFails(h) \/ CleanupFails(h) \/ Drop(h)
    PROVE  \E n : Unclaimed' \subseteq Unclaimed \union {n}
<1> DEFINE q == request[h]
<1>1. CASE InsertFails(h)
  <2>1. \A k \in Keys : ~ Holds(q, k)
    BY <1>1 DEF InsertFails, Holds
  <2>2. PICK n : \A k \in Keys : keys'[k] # NoKey => keys[k] # NoKey \/ k \in {n}
    BY <1>1 DEF InsertFails, Inserted, TypeInv, TypeOK
  <2>3. Goto(h, Free) /\ told' = told
    BY <1>1 DEF InsertFails
  <2>4. Unclaimed' \subseteq Unclaimed \union {n}
    BY <2>1, <2>2, <2>3, LeftBehind
  <2> QED
    BY <2>4
<1>2. CASE DeactivateFails(h)
  <2> DEFINE r == [q EXCEPT !.phase = "cleanup"]
  <2>1. q \in Holding /\ q.target \in Keys
    BY <1>2, ByPhase DEF DeactivateFails, TypeInv, Holding
  <2>2. \A k \in Keys : Holds(q, k) => Holds(r, k)
    BY <2>1 DEF Holding, Holds
  <2>3. \A j \in Keys : keys'[j] # NoKey => keys[j] # NoKey
    BY <1>2, <2>1, Tables DEF DeactivateFails
  <2>4. Goto(h, r) /\ told' = told
    BY <1>2 DEF DeactivateFails
  <2> HIDE DEF r
  <2>5. Unclaimed' \subseteq Unclaimed \union {}
    BY <2>2, <2>3, <2>4, LeftBehind
  <2> QED
    BY <2>5
<1>3. CASE CleanupFails(h) \/ Drop(h)
  <2>1. \A k \in Keys : Holds(q, k) => k \in {q.new}
    BY DEF Holds
  <2>2. Goto(h, Free) /\ UNCHANGED <<keys, told>>
    BY <1>3 DEF CleanupFails, Drop, History
  <2>3. Unclaimed' \subseteq Unclaimed \union {q.new}
    BY <2>1, <2>2, LeftBehind
  <2> QED
    BY <2>3
<1> QED
  BY <1>1, <1>2, <1>3

LEMMA UnclaimedStep == TypeInv /\ UnclaimedInv /\ [Next]_vars => UnclaimedInv'
<1> SUFFICES ASSUME TypeInv, UnclaimedInv, [Next]_vars PROVE UnclaimedInv'
  OBVIOUS
<1>1. failures \in Nat /\ failures' \in Nat
  <2>1. TypeInv'
    BY TypeStep
  <2> QED
    BY <2>1, KeyStoreAssumption DEF TypeInv, TypeOK, KeyStoreAssumption
<1>2. ASSUME Unclaimed' \subseteq Unclaimed, failures' = failures
      PROVE  UnclaimedInv'
  BY <1>1, <1>2, OneMore
<1>3. CASE UNCHANGED vars
  <2>1. Unclaimed' = Unclaimed
    BY <1>3 DEF vars, Unclaimed
  <2> QED
    BY <1>2, <1>3, <2>1 DEF vars
<1>4. ASSUME NEW h \in Handlers, Work(h)
      PROVE  UnclaimedInv'
  <2>1. failures' = failures
    BY <1>4 DEF Work, CheckOwner, ReadOld, Insert, InsertRefused, Deactivate,
       Cleanup, Reply, Revoke, Delete
  <2> QED
    BY <1>2, <1>4, <2>1, UnclaimedWork
<1>5. ASSUME NEW h \in Handlers, NEW k \in Keys,
             \/ \E c \in Clients, admin \in BOOLEAN : AskCreate(h, k, c, admin)
             \/ \E op \in {"rotate", "revoke", "delete"}, t \in Keys :
                  Ask(h, k, op, t)
      PROVE  UnclaimedInv'
  <2>1. \A j \in Keys : ~ Holds(request[h], j)
    BY <1>5, Forms DEF AskCreate, Ask, Holds
  <2>2. UNCHANGED <<keys, told, failures>> /\ \E q : Goto(h, q)
    BY <1>5 DEF AskCreate, Ask, History
  <2>3. Unclaimed' \subseteq Unclaimed \union {}
    BY <2>1, <2>2, LeftBehind
  <2> QED
    BY <1>2, <2>2, <2>3
<1>6. ASSUME NEW h \in Handlers,
             InsertFails(h) \/ DeactivateFails(h) \/ CleanupFails(h) \/ Drop(h)
      PROVE  UnclaimedInv'
  <2>1. PICK n : Unclaimed' \subseteq Unclaimed \union {n}
    BY <1>6, UnclaimedFailure
  <2>2. failures' = failures + 1
    BY <1>6 DEF InsertFails, DeactivateFails, CleanupFails, Drop, Fail
  <2> QED
    BY <1>1, <2>1, <2>2, OneMore
<1>7. ASSUME (\E k \in Keys : Lapse(k)) \/ (\E c \in Clients : DeleteClient(c))
      PROVE  UnclaimedInv'
  <2>1. UNCHANGED <<request, failures, told>>
    BY <1>7 DEF Lapse, DeleteClient, History
  <2>2. \A j \in Keys : keys'[j] # NoKey => keys[j] # NoKey
    BY <1>7 DEF Lapse, DeleteClient, TypeInv, TypeOK
  <2>3. Unclaimed' \subseteq Unclaimed
    BY <2>1, <2>2 DEF Unclaimed
  <2> QED
    BY <1>2, <2>1, <2>3
<1> QED
  BY <1>3, <1>4, <1>5, <1>6, <1>7 DEF Next, Environment

\* The keys that nobody knows stay finitely many, and at most one per failure.
LEMMA UnclaimedAlways == Spec => []UnclaimedInv
<1>1. Init => UnclaimedInv
  <2>1. ASSUME Init PROVE Unclaimed = {}
    BY <2>1 DEF Init, Unclaimed
  <2>2. Init => failures = 0
    BY DEF Init
  <2> QED
    BY <2>1, <2>2, FS_EmptySet DEF UnclaimedInv
<1> QED
  BY <1>1, TypeInit, TypeStep, UnclaimedStep, PTL DEF Spec

\* Each key that nobody knows goes back to a failure of its own.
THEOREM FewUnclaimed == Spec => []UnclaimedBounded
<1>1. UnclaimedInv => UnclaimedBounded
  BY DEF UnclaimedInv, UnclaimedBounded
<1> QED
  BY <1>1, UnclaimedAlways, PTL

-----------------------------------------------------------------------------
(* Rotations and the last key.                                             *)
(*                                                                         *)
(* A settled key is active and no rotation that may still undo itself has  *)
(* it as its new key.  Who was given a key has a settled one.  A rotation  *)
(* about to take away its old key has to show another that stays: its new  *)
(* one or, if others have rotated that in the meantime, what came of it.   *)
(* Such a key is younger than the old one, hence not the old one: ranks    *)
(* order the keys by age.                                                  *)

Live(k) == keys[k] # NoKey /\ keys[k].active

Settled(k) ==
    /\ Live(k)
    /\ \A h \in Handlers :
         request[h].phase \in {"update", "cleanup"} => request[h].new # k

Safe(c) == \E k \in Keys : Settled(k) /\ keys[k].client = c

\* The clients that AccessKept speaks of, once they hold a key.
Due(c) == c \in clients /\ c \notin withdrawn

Backed(q, rank) ==
    \A x \in {q.target, q.new} :
      keys[x] # NoKey /\ Due(keys[x].client) =>
        \E k \in Keys : /\ Live(k)
                        /\ keys[k].client = keys[x].client
                        /\ rank[k] >= rank[q.new]
                        /\ k = q.new \/ Settled(k)

Chained(rank, bound) ==
    /\ \A k \in minted : rank[k] < bound
    /\ \A h \in Handlers :
         request[h].phase = "update" =>
           /\ rank[request[h].target] < rank[request[h].new]
           /\ Backed(request[h], rank)

\* A rotation keeps to the client of its old key.
Ready(q) ==
    /\ q.phase = "insert" =>
         /\ q.row.active
         /\ q.op = "rotate" => OwnedBy(q.target, q.row.client)
    /\ q.phase = "update" =>
         keys[q.new] = NoKey \/ OwnedBy(q.target, keys[q.new].client)

AccessInv ==
    /\ \A h \in Handlers : Ready(request[h])
    /\ \A h \in Handlers :
         /\ request[h].phase = "reply"
         /\ keys[request[h].new] # NoKey
         /\ Due(keys[request[h].new].client)
         => Safe(keys[request[h].new].client)
    /\ \A c \in holders : Due(c) => Safe(c)
    /\ \E bound \in Nat, rank \in [Keys -> Nat] : Chained(rank, bound)

\* The keys of a request are keys.
LEMMA NamesKeys ==
    ASSUME TypeInv, NEW h \in Handlers
    PROVE  /\ request[h].phase = "update" =>
                /\ request[h].target \in minted /\ request[h].target \in Keys
                /\ request[h].new \in minted /\ request[h].new \in Keys
           /\ request[h].phase \in {"update", "cleanup", "reply"} =>
                request[h].new \in minted /\ request[h].new \in Keys
           /\ request[h].phase = "insert" =>
                request[h].target \in minted /\ request[h].target \in Keys
<1>1. minted \subseteq Keys
  BY DEF TypeInv, TypeOK
<1>2. request[h] # Free => request[h].target \in minted
  BY DEF TypeInv, Generated
<1>3. request[h].phase \in {"update", "cleanup", "reply"} =>
        request[h].new \in minted
  BY DEF TypeInv, Generated
<1> QED
  BY <1>1, <1>2, <1>3, Forms

\* A step that takes no key from a client who is still due, but for one that a
\* failed rotation removes, and creates none.
LEMMA GentleStep ==
    ASSUME TypeInv, AccessInv, minted' = minted,
           \A c : Due(c)' => Due(c),
           \A k \in Keys : keys'[k] # NoKey =>
                             keys[k] # NoKey /\ keys'[k].client = keys[k].client,
           \A k \in Keys :
             /\ Live(k)
             /\ keys[k].client \in clients' \ withdrawn'
             /\ \/ Settled(k)
                \/ \E g \in Handlers :
                     request'[g].phase = "update" /\ request'[g].new = k
             => Live(k)',
           \A g \in Handlers :
             \/ request'[g] = request[g]
             \/ request'[g].phase \notin {"update", "cleanup", "reply"}
             \/ /\ request'[g].phase = "cleanup" /\ request[g].phase = "update"
                /\ request'[g].new = request[g].new,
           \A g \in Handlers : request'[g] # request[g] => Ready(request[g])',
           \A c \in holders' : c \in holders \/ (Due(c) => Safe(c))
    PROVE  AccessInv'
<1>1. ASSUME NEW k \in Keys, Settled(k), keys[k].client \in clients' \ withdrawn'
      PROVE  Settled(k)' /\ keys'[k].client = keys[k].client
  <2>1. Live(k) /\ Due(keys[k].client)
    BY <1>1 DEF Settled, Due
  <2>2. Live(k)'
    BY <1>1, <2>1
  <2>3. \A g \in Handlers :
          request'[g].phase \in {"update", "cleanup"} => request'[g].new # k
    BY <1>1 DEF Settled
  <2>4. keys'[k].client = keys[k].client
    BY <2>2 DEF Live
  <2> QED
    BY <2>2, <2>3, <2>4 DEF Settled
<1>2. ASSUME NEW c, Safe(c), Due(c)'
      PROVE  Safe(c)'
  <2>1. PICK k \in Keys : Settled(k) /\ keys[k].client = c
    BY <1>2 DEF Safe
  <2>2. Settled(k)' /\ keys'[k].client = c
    BY <1>1, <1>2, <2>1 DEF Due
  <2> QED
    BY <2>2 DEF Safe
<1>3. ASSUME NEW g \in Handlers
      PROVE  Ready(request[g])'
  <2>1. CASE request'[g] = request[g]
    <3>1. Ready(request[g])
      BY DEF AccessInv
    <3> QED
      BY <2>1, <3>1, NamesKeys DEF Ready, OwnedBy
  <2> QED
    BY <2>1
<1>4. ASSUME NEW g \in Handlers, request'[g].phase = "reply",
             keys'[request'[g].new] # NoKey, Due(keys[request[g].new].client)'
      PROVE  Safe(keys[request[g].new].client)'
  <2>1. request'[g] = request[g]
    BY <1>4
  <2>2. request[g].new \in Keys
    BY <1>4, <2>1, NamesKeys
  <2> DEFINE c == keys[request[g].new].client
  <2>3. keys[request[g].new] # NoKey /\ c' = c
    BY <1>4, <2>1, <2>2
  <2>4. Due(c) /\ (Due(c))'
    BY <1>4, <2>3
  <2>5. Safe(c)
    BY <1>4, <2>1, <2>3, <2>4 DEF AccessInv
  <2> QED
    BY <1>2, <2>3, <2>4, <2>5
<1>5. ASSUME NEW c \in holders', Due(c)'
      PROVE  Safe(c)'
  BY <1>2, <1>5 DEF AccessInv
<1>6. PICK bound \in Nat, rank \in [Keys -> Nat] : Chained(rank, bound)
  BY DEF AccessInv
<1>7. ASSUME NEW g \in Handlers, request'[g].phase = "update"
      PROVE  /\ rank[request'[g].target] < rank[request'[g].new]
             /\ Backed(request[g], rank)'
  <2>1. request'[g] = request[g]
    BY <1>7
  <2> DEFINE q == request[g]
  <2>2. rank[q.target] < rank[q.new] /\ Backed(q, rank)
    BY <1>6, <1>7, <2>1 DEF Chained
  <2>3. ASSUME NEW x \in {q.target, q.new}, keys'[x] # NoKey,
               keys'[x].client \in clients' \ withdrawn'
        PROVE  \E k \in Keys : /\ Live(k)'
                               /\ keys'[k].client = keys'[x].client
                               /\ rank[k] >= rank[q.new]
                               /\ k = q.new \/ Settled(k)'
    <3>1. x \in Keys /\ keys[x] # NoKey /\ keys'[x].client = keys[x].client
      BY <1>7, <2>1, <2>3, NamesKeys
    <3>2. Due(keys[x].client)
      BY <2>3, <3>1 DEF Due
    <3>3. PICK k \in Keys : /\ Live(k) /\ keys[k].client = keys[x].client
                            /\ rank[k] >= rank[q.new]
                            /\ k = q.new \/ Settled(k)
      BY <2>2, <3>1, <3>2 DEF Backed
    <3>4. Live(k)'
      BY <1>7, <2>1, <2>3, <3>1, <3>2, <3>3
    <3>5. keys'[k].client = keys[k].client
      BY <3>4 DEF Live
    <3>6. Settled(k) => Settled(k)'
      BY <1>1, <2>3, <3>1, <3>3
    <3> QED
      BY <3>1, <3>3, <3>4, <3>5, <3>6
  <2> QED
    BY <2>1, <2>2, <2>3 DEF Backed, Due
<1>8. Chained(rank, bound)'
  BY <1>6, <1>7 DEF Chained
<1> QED
  BY <1>3, <1>4, <1>5, <1>8 DEF AccessInv

\* A new key, which its handler holds or has left behind, for a client who
\* exists.
LEMMA FreshStep ==
    ASSUME TypeInv, TypeInv', AccessInv, NEW h \in Handlers, NEW n \in Keys,
           request[h].phase = "insert", Inserted(n, request[h].row),
           UNCHANGED <<clients, holders>>,
           NEW q, Goto(h, q),
           \/ q = Free
           \/ q.phase = "reply" /\ q.new = n
           \/ /\ q.phase = "update" /\ q.new = n
              /\ q.target = request[h].target /\ request[h].op = "rotate"
    PROVE  AccessInv'
<1> DEFINE row == request[h].row
           t == request[h].target
<1>1. request'[h] = q /\ \A g \in Handlers \ {h} : request'[g] = request[g]
  BY GotoMoves
<1>2. n \notin minted /\ minted' = minted \union {n} /\ keys[n] = NoKey
  BY DEF Inserted, TypeInv, Generated
<1>3. keys'[n] = row /\ \A k \in Keys \ {n} : keys'[k] = keys[k]
  BY DEF Inserted, TypeInv, TypeOK
<1>4. t \in minted /\ t \in Keys /\ t # n /\ keys'[t] = keys[t]
  BY <1>2, <1>3, NamesKeys
<1>5. row \in Key /\ row # NoKey
  BY ByPhase, Rows DEF TypeInv, Inserting
<1>6. Live(n)'
  <2>1. row.active
    BY DEF AccessInv, Ready
  <2> QED
    BY <1>3, <1>5, <2>1 DEF Live
<1>7. Free.phase = "free"
  BY Forms
<1>8. \A c : Due(c)' <=> Due(c)
  BY DEF Due, Inserted
<1>9. ASSUME NEW k \in Keys, Settled(k)
      PROVE  Settled(k)' /\ keys'[k] = keys[k]
  <2>1. k # n
    BY <1>2, <1>9 DEF Settled, Live
  <2> QED
    BY <1>1, <1>3, <1>7, <1>9, <2>1 DEF Settled, Live
<1>10. \A c : Safe(c) => Safe(c)'
  BY <1>9 DEF Safe
<1>11. ASSUME NEW g \in Handlers
       PROVE  Ready(request[g])'
  <2>1. CASE g = h
    <3>1. q.phase = "update" =>
            keys[t] = NoKey \/ keys[t].client = row.client
      BY <1>7 DEF AccessInv, Ready, OwnedBy
    <3> QED
      BY <1>1, <1>3, <1>4, <1>7, <2>1, <3>1 DEF Ready, OwnedBy
  <2>2. CASE g # h
    <3>1. Ready(request[g]) /\ request'[g] = request[g]
      BY <1>1, <2>2 DEF AccessInv
    <3>2. request[g].phase = "insert" => keys'[request[g].target] = keys[request[g].target]
      BY <1>2, <1>3, NamesKeys
    <3>3. request[g].phase = "update" =>
            /\ keys'[request[g].target] = keys[request[g].target]
            /\ keys'[request[g].new] = keys[request[g].new]
      BY <1>2, <1>3, NamesKeys
    <3> QED
      BY <3>1, <3>2, <3>3 DEF Ready, OwnedBy
  <2> QED
    BY <2>1, <2>2
<1>12. ASSUME NEW g \in Handlers, request'[g].phase = "reply",
              keys'[request'[g].new] # NoKey,
              Due(keys[request[g].new].client)'
       PROVE  Safe(keys[request[g].new].client)'
  <2>1. CASE g = h
    <3>1. q.phase = "reply" /\ q.new = n
      BY <1>1, <1>7, <1>12, <2>1
    <3>2. \A f \in Handlers : request'[f].phase \in {"update", "cleanup"}
                                => request'[f].new # n
      <4>1. \A f \in Handlers \ {h} :
              request[f].phase \in {"update", "cleanup"} => request[f].new # n
        BY <1>2, NamesKeys
      <4> QED
        BY <1>1, <3>1, <4>1
    <3>3. Settled(n)'
      BY <1>6, <3>2 DEF Settled
    <3> QED
      BY <1>1, <2>1, <3>1, <3>3 DEF Safe
  <2>2. CASE g # h
    <3> DEFINE m == request[g].new
    <3>1. request'[g] = request[g]
      BY <1>1, <2>2
    <3>2. m \in minted /\ m \in Keys
      BY <1>12, <3>1, NamesKeys
    <3>3. keys'[m] = keys[m]
      BY <1>2, <1>3, <3>2
    <3>4. Safe(keys[m].client)
      BY <1>8, <1>12, <3>1, <3>3 DEF AccessInv
    <3> QED
      BY <1>10, <3>1, <3>3, <3>4
  <2> QED
    BY <2>1, <2>2
<1>13. \A c \in holders' : Due(c)' => Safe(c)'
  BY <1>8, <1>10 DEF AccessInv
<1>14. PICK bound \in Nat, rank \in [Keys -> Nat] : Chained(rank, bound)
  BY DEF AccessInv
<1> DEFINE young == [rank EXCEPT ![n] = bound]
<1>15. /\ young \in [Keys -> Nat] /\ young[n] = bound
       /\ \A k \in Keys \ {n} : young[k] = rank[k]
  BY <1>14
<1>16. \A k \in minted : k # n /\ k \in Keys /\ rank[k] < bound
  BY <1>2, <1>14 DEF Chained, TypeInv, TypeOK
<1> HIDE DEF young
<1>17. ASSUME NEW g \in Handlers, request'[g].phase = "update"
       PROVE  /\ young[request'[g].target] < young[request'[g].new]
              /\ Backed(request[g], young)'
  <2>1. CASE g = h
    <3>1. q.new = n /\ q.target = t /\ request[h].op = "rotate" /\ request'[g] = q
      BY <1>1, <1>7, <1>17, <2>1
    <3>2. keys[t] = NoKey \/ keys[t].client = row.client
      BY <3>1 DEF AccessInv, Ready, OwnedBy
    <3>3. \A x \in {t, n} : keys'[x] # NoKey => keys'[x].client = keys'[n].client
      BY <1>3, <1>4, <3>2
    <3>4. young[t] < young[n] /\ young[n] >= young[n]
      BY <1>4, <1>14, <1>15, <1>16
    <3> QED
      BY <1>6, <3>1, <3>3, <3>4 DEF Backed
  <2>2. CASE g # h
    <3> DEFINE p == request[g]
    <3>1. request'[g] = p
      BY <1>1, <2>2
    <3>2. /\ p.target \in minted /\ p.target \in Keys
          /\ p.new \in minted /\ p.new \in Keys
      BY <1>17, <3>1, NamesKeys
    <3>3. rank[p.target] < rank[p.new] /\ Backed(p, rank)
      BY <1>14, <1>17, <3>1 DEF Chained
    <3>4. young[p.target] = rank[p.target] /\ young[p.new] = rank[p.new]
      BY <1>2, <1>15, <3>2
    <3>5. ASSUME NEW x \in {p.target, p.new}, keys'[x] # NoKey,
                 Due(keys'[x].client)
          PROVE  \E k \in Keys : /\ Live(k)'
                                 /\ keys'[k].client = keys'[x].client
                                 /\ young[k] >= young[p.new]
                                 /\ k = p.new \/ Settled(k)'
      <4>1. keys'[x] = keys[x]
        BY <1>2, <1>3, <3>2
      <4>2. PICK k \in Keys : /\ Live(k) /\ keys[k].client = keys[x].client
                              /\ rank[k] >= rank[p.new]
                              /\ k = p.new \/ Settled(k)
        BY <3>3, <3>5, <4>1 DEF Backed
      <4>3. k # n
        BY <1>2, <4>2 DEF Live
      <4>4. keys'[k] = keys[k] /\ young[k] = rank[k]
        BY <1>3, <1>15, <4>3
      <4>5. Live(k)'
        BY <4>2, <4>4 DEF Live
      <4>6. Settled(k) => Settled(k)'
        BY <1>9
      <4> QED
        BY <3>4, <4>1, <4>2, <4>4, <4>5, <4>6
    <3>6. \A c : Due(c)' => Due(c)
      BY <1>8
    <3> QED
      BY <3>1, <3>3, <3>4, <3>5, <3>6 DEF Backed, Due, Inserted
  <2> QED
    BY <2>1, <2>2
<1>18. \A k \in minted' : young[k] < bound + 1
  BY <1>2, <1>14, <1>15, <1>16
<1>19. Chained(young, bound + 1)'
  BY <1>17, <1>18 DEF Chained
<1>20. bound + 1 \in Nat
  BY <1>14
<1> QED
  BY <1>11, <1>12, <1>13, <1>15, <1>19, <1>20 DEF AccessInv

\* A rotation takes the old key away and keeps the new one.
LEMMA TakeOldStep ==
    ASSUME TypeInv, AccessInv, NEW h \in Handlers, request[h].phase = "update",
           Deactivated(request[h].target),
           Goto(h, [request[h] EXCEPT !.phase = "reply"]),
           UNCHANGED <<clients, holders, withdrawn>>
    PROVE  AccessInv'
<1> DEFINE q == request[h]
           t == request[h].target
           n == request[h].new
<1>1. q \in Holding /\ t \in minted /\ t \in Keys /\ n \in minted /\ n \in Keys
  BY ByPhase, NamesKeys DEF TypeInv
<1>2. /\ request'[h].phase = "reply" /\ request'[h].new = n
      /\ \A g \in Handlers \ {h} : request'[g] = request[g]
  <2>1. request'[h] = [q EXCEPT !.phase = "reply"]
    BY GotoMoves
  <2> QED
    BY <1>1, <2>1, GotoMoves DEF Holding
<1>3. /\ minted' = minted
      /\ \A k \in Keys : keys'[k] # NoKey <=> keys[k] # NoKey
      /\ \A k \in Keys : keys'[k] # NoKey => keys'[k].client = keys[k].client
      /\ \A k \in Keys \ {t} : keys'[k] = keys[k]
  <2>1. \A r \in Key : /\ [r EXCEPT !.active = FALSE] \in Key
                       /\ [r EXCEPT !.active = FALSE].client = r.client
    BY DEF Key
  <2> QED
    BY <1>1, <2>1, Rows DEF Deactivated, TypeInv, TypeOK
<1>4. \A c : Due(c)' <=> Due(c)
  BY DEF Due
<1>5. ASSUME NEW k \in Keys, k # t, Settled(k) \/ (k = n /\ Live(k))
      PROVE  Settled(k)'
  <2>1. Live(k)'
    BY <1>3, <1>5 DEF Settled, Live
  <2>2. \A g \in Handlers \ {h} :
          request[g].phase \in {"update", "cleanup"} => request[g].new # n
    BY DEF TypeInv, Generated
  <2>3. \A g \in Handlers :
          request'[g].phase \in {"update", "cleanup"} => request'[g].new # k
    BY <1>2, <1>5, <2>2 DEF Settled
  <2> QED
    BY <2>1, <2>3 DEF Settled
<1>6. PICK bound \in Nat, rank \in [Keys -> Nat] : Chained(rank, bound)
  BY DEF AccessInv
<1>7. rank[t] < rank[n] /\ Backed(q, rank)
  BY <1>6 DEF Chained
<1>8. ASSUME NEW x \in {t, n}, keys[x] # NoKey, Due(keys[x].client)
      PROVE  \E k \in Keys : /\ Settled(k)' /\ keys'[k].client = keys[x].client
                             /\ keys'[k] = keys[k]
                             /\ rank[k] > rank[t]
  <2>1. PICK k \in Keys : /\ Live(k) /\ keys[k].client = keys[x].client
                          /\ rank[k] >= rank[n]
                          /\ k = n \/ Settled(k)
    BY <1>7, <1>8 DEF Backed
  <2>2. rank[k] > rank[t] /\ k # t
    BY <1>1, <1>6, <1>7, <2>1
  <2>3. Settled(k)' /\ keys'[k] = keys[k]
    BY <1>3, <1>5, <2>1, <2>2
  <2> QED
    BY <2>1, <2>2, <2>3
<1>9. ASSUME NEW c, Safe(c), Due(c)
      PROVE  Safe(c)'
  <2>1. PICK k \in Keys : Settled(k) /\ keys[k].client = c
    BY <1>9 DEF Safe
  <2>2. CASE k = t
    <3>1. keys[t] # NoKey /\ Due(keys[t].client)
      BY <1>9, <2>1, <2>2 DEF Settled, Live
    <3> QED
      BY <1>8, <2>1, <2>2, <3>1 DEF Safe
  <2>3. CASE k # t
    <3>1. Settled(k)' /\ keys'[k] = keys[k]
      BY <1>3, <1>5, <2>1, <2>3
    <3> QED
      BY <2>1, <3>1 DEF Safe
  <2> QED
    BY <2>2, <2>3
<1>10. ASSUME NEW g \in Handlers
       PROVE  Ready(request[g])'
  <2>1. CASE g = h
    BY <1>2, <2>1 DEF Ready
  <2>2. CASE g # h
    <3>1. Ready(request[g]) /\ request'[g] = request[g]
      BY <1>2, <2>2 DEF AccessInv
    <3> QED
      BY <1>3, <3>1, NamesKeys DEF Ready, OwnedBy
  <2> QED
    BY <2>1, <2>2
<1>11. ASSUME NEW g \in Handlers, request'[g].phase = "reply",
              keys'[request'[g].new] # NoKey,
              Due(keys[request[g].new].client)'
       PROVE  Safe(keys[request[g].new].client)'
  <2> DEFINE m == request[g].new
  <2>1. request'[g].new = m /\ m \in Keys
    BY <1>1, <1>2, <1>11, NamesKeys
  <2>2. keys[m] # NoKey /\ keys'[m].client = keys[m].client /\ Due(keys[m].client)
    BY <1>3, <1>4, <1>11, <2>1
  <2>3. CASE g = h
    <3>1. m = n
      BY <2>3
    <3> QED
      BY <1>8, <2>1, <2>2, <3>1 DEF Safe
  <2>4. CASE g # h
    <3>1. Safe(keys[m].client)
      BY <1>2, <1>11, <2>2, <2>4 DEF AccessInv
    <3> QED
      BY <1>9, <2>1, <2>2, <3>1
  <2> QED
    BY <2>3, <2>4
<1>12. \A c \in holders' : Due(c)' => Safe(c)'
  BY <1>4, <1>9 DEF AccessInv
<1>13. ASSUME NEW g \in Handlers, request'[g].phase = "update"
       PROVE  /\ rank[request'[g].target] < rank[request'[g].new]
              /\ Backed(request[g], rank)'
  <2> DEFINE p == request[g]
  <2>1. request'[g] = p /\ g # h
    BY <1>2, <1>13
  <2>2. p.target \in Keys /\ p.new \in Keys
    BY <1>13, <2>1, NamesKeys
  <2>3. rank[p.target] < rank[p.new] /\ Backed(p, rank)
    BY <1>6, <1>13, <2>1 DEF Chained
  <2>4. ASSUME NEW x \in {p.target, p.new}, keys'[x] # NoKey,
               Due(keys'[x].client)
        PROVE  \E k \in Keys : /\ Live(k)'
                               /\ keys'[k].client = keys'[x].client
                               /\ rank[k] >= rank[p.new]
                               /\ k = p.new \/ Settled(k)'
    <3>1. keys[x] # NoKey /\ keys'[x].client = keys[x].client
      BY <1>3, <2>2, <2>4
    <3>2. PICK k \in Keys : /\ Live(k) /\ keys[k].client = keys[x].client
                            /\ rank[k] >= rank[p.new]
                            /\ k = p.new \/ Settled(k)
      BY <2>3, <2>4, <3>1 DEF Backed
    <3>3. CASE k = t
      <4>1. keys[t] # NoKey /\ Due(keys[t].client)
        BY <2>4, <3>1, <3>2, <3>3 DEF Live
      <4>2. PICK w \in Keys : /\ Settled(w)'
                              /\ keys'[w].client = keys[t].client
                              /\ rank[w] > rank[t]
        BY <1>8, <4>1
      <4>3. rank[w] >= rank[p.new]
        BY <1>1, <1>6, <2>2, <3>2, <3>3, <4>2
      <4> QED
        BY <3>1, <3>2, <3>3, <4>2, <4>3 DEF Settled
    <3>4. CASE k # t
      <4>1. Live(k)' /\ keys'[k] = keys[k]
        BY <1>3, <3>2, <3>4 DEF Live
      <4>2. Settled(k) => Settled(k)'
        BY <1>5, <3>4
      <4> QED
        BY <3>1, <3>2, <4>1, <4>2
    <3> QED
      BY <3>3, <3>4
  <2>5. \A c : Due(c)' => Due(c)
    BY <1>4
  <2> QED
    BY <2>1, <2>3, <2>4, <2>5 DEF Backed, Due
<1>14. \A k \in minted' : rank[k] < bound
  BY <1>3, <1>6 DEF Chained
<1>15. Chained(rank, bound)'
  BY <1>13, <1>14 DEF Chained
<1> QED
  BY <1>6, <1>10, <1>11, <1>12, <1>15 DEF AccessInv

\* A step that leaves the rows alone.
LEMMA StillStep ==
    ASSUME TypeInv, AccessInv, NEW h \in Handlers, NEW q, Goto(h, q),
           UNCHANGED <<clients, keys, minted, withdrawn>>,
           \/ q.phase \notin {"update", "cleanup", "reply"}
           \/ /\ q.phase = "cleanup" /\ request[h].phase = "update"
              /\ q.new = request[h].new,
           Ready(q),
           \A c \in holders' : c \in holders \/ (Due(c) => Safe(c))
    PROVE  AccessInv'
<1>1. request'[h] = q /\ \A g \in Handlers \ {h} : request'[g] = request[g]
  BY GotoMoves
<1>2. \A c : Due(c)' => Due(c)
  BY DEF Due
<1>3. \A k \in Keys : Live(k)' <=> Live(k)
  BY DEF Live
<1>4. \A g \in Handlers : request'[g] # request[g] => Ready(request[g])'
  BY <1>1 DEF Ready, OwnedBy
<1> QED
  BY <1>1, <1>2, <1>3, <1>4, GentleStep

\* A step that takes keys only from clients who are gone or have lost a key to
\* somebody's will.
LEMMA WilfulStep ==
    ASSUME TypeInv, AccessInv, NEW h \in Handlers, NEW q, Goto(h, q),
           NEW k \in Keys, Deactivated(k) \/ Deleted(k), Withdraw(k),
           UNCHANGED <<clients, holders>>,
           \/ q = Free
           \/ /\ q.phase = "cleanup" /\ request[h].phase = "update"
              /\ q.new = request[h].new
    PROVE  AccessInv'
<1>1. request'[h] = q /\ \A g \in Handlers \ {h} : request'[g] = request[g]
  BY GotoMoves
<1>2. withdrawn \subseteq withdrawn' /\ minted' = minted
  BY DEF Withdraw, Deactivated, Deleted
<1>3. \A c : Due(c)' => Due(c)
  BY <1>2 DEF Due
<1>4. \A j \in Keys : keys'[j] # NoKey =>
                        keys[j] # NoKey /\ keys'[j].client = keys[j].client
  BY StatementKeeps DEF Kept
<1>5. \A j \in Keys : j # k => keys'[j] = keys[j]
  BY DEF Deactivated, Deleted, TypeInv, TypeOK
<1>6. Live(k) => keys[k].client \in withdrawn'
  BY DEF Live, Withdraw
<1>7. \A j \in Keys : /\ Live(j) /\ keys[j].client \in clients' \ withdrawn'
                      => Live(j)'
  BY <1>5, <1>6 DEF Live
<1>8. q.phase \notin {"insert", "update"}
  BY Forms
<1>9. \A g \in Handlers : request'[g] # request[g] => Ready(request[g])'
  BY <1>1, <1>8 DEF Ready
<1>10. \A g \in Handlers :
         \/ request'[g] = request[g]
         \/ request'[g].phase \notin {"update", "cleanup", "reply"}
         \/ /\ request'[g].phase = "cleanup" /\ request[g].phase = "update"
            /\ request'[g].new = request[g].new
  BY <1>1, Forms
<1> QED
  BY <1>2, <1>3, <1>4, <1>7, <1>9, <1>10, GentleStep

\* A failed rotation removes its new key, which was not settled.
LEMMA UndoStep ==
    ASSUME TypeInv, AccessInv, NEW h \in Handlers, Cleanup(h)
    PROVE  AccessInv'
<1> DEFINE n == request[h].new
<1>1. n \in Keys /\ request[h].phase = "cleanup"
  BY NamesKeys DEF Cleanup
<1>2. /\ request'[h] = Free /\ Free.phase = "free"
      /\ \A g \in Handlers \ {h} : request'[g] = request[g]
  BY Forms, GotoMoves DEF Cleanup
<1>3. \A j \in Keys : keys'[j] # NoKey =>
                        keys[j] # NoKey /\ keys'[j].client = keys[j].client
  BY <1>1, StatementKeeps DEF Kept, Cleanup
<1>4. \A j \in Keys : j # n => keys'[j] = keys[j]
  BY <1>1 DEF Cleanup, Deleted, TypeInv, TypeOK
<1>5. ~ Settled(n)
  BY <1>1 DEF Settled
<1>6. \A g \in Handlers : request'[g].phase = "update" => request'[g].new # n
  BY <1>1, <1>2 DEF TypeInv, Generated
<1>7. \A j \in Keys :
        /\ Live(j)
        /\ \/ Settled(j)
           \/ \E g \in Handlers :
                request'[g].phase = "update" /\ request'[g].new = j
        => Live(j)'
  BY <1>4, <1>5, <1>6 DEF Live
<1>8. \A c : Due(c)' => Due(c)
  BY DEF Due, Cleanup
<1>9. \A g \in Handlers : request'[g] # request[g] => Ready(request[g])'
  BY <1>2 DEF Ready
<1>10. minted' = minted /\ holders' = holders
  BY DEF Cleanup, Deleted
<1> QED
  BY <1>2, <1>3, <1>7, <1>8, <1>9, <1>10, GentleStep

LEMMA AccessWorld ==
    ASSUME TypeInv, AccessInv, [Next]_vars,
           \/ \E k \in Keys : Lapse(k)
           \/ \E c \in Clients : DeleteClient(c)
    PROVE  AccessInv'
<1>1. /\ UNCHANGED <<request, minted, holders, withdrawn>>
      /\ clients' \subseteq clients
  BY DEF Lapse, DeleteClient, History
<1>2. \A j \in Keys : keys'[j] # NoKey =>
                        keys[j] # NoKey /\ keys'[j].client = keys[j].client
  <2>1. ASSUME NEW j \in Keys, j \notin minted PROVE keys'[j] = NoKey
    <3>1. TypeInv'
      BY TypeStep
    <3> QED
      BY <1>1, <2>1, <3>1 DEF TypeInv, Generated
  <2> QED
    BY <2>1, RowsKept DEF Kept
<1>3. \A j \in Keys : Live(j) /\ keys[j].client \in clients' => Live(j)'
  <2>1. ASSUME NEW k \in Keys, Lapse(k), NEW j \in Keys, Live(j)
        PROVE  Live(j)'
    <3> DEFINE late == [keys[j] EXCEPT !.late = TRUE]
    <3>1. keys[j] \in Key
      BY <2>1 DEF Live, TypeInv, TypeOK
    <3>2. late \in Key /\ late.active = keys[j].active
      BY <3>1 DEF Key
    <3>3. late # NoKey
      BY <3>2, Rows
    <3>4. keys'[j] \in {keys[j], late}
      BY <2>1 DEF Lapse, TypeInv, TypeOK
    <3> HIDE DEF late
    <3> QED
      BY <2>1, <3>2, <3>3, <3>4 DEF Live
  <2>2. ASSUME NEW c \in Clients, DeleteClient(c), NEW j \in Keys, Live(j),
               keys[j].client \in clients'
        PROVE  Live(j)'
    BY <2>2 DEF DeleteClient, Live
  <2> QED
    BY <2>1, <2>2
<1>4. \A c : Due(c)' => Due(c)
  BY <1>1 DEF Due
<1> QED
  BY <1>1, <1>2, <1>3, <1>4, GentleStep

LEMMA AccessWork ==
    ASSUME TypeInv, TypeInv', AccessInv, NEW h \in Handlers, Work(h)
    PROVE  AccessInv'
<1> DEFINE q == request[h]
<1>f. ASSUME Goto(h, Free), UNCHANGED <<clients, keys, History>>
      PROVE  AccessInv'
  <2>1. Ready(Free) /\ Free.phase \notin {"update", "cleanup", "reply"}
    BY Forms DEF Ready
  <2> QED
    BY <1>f, <2>1, StillStep DEF History
<1>1. CASE CheckOwner(h)
  <2> DEFINE r == [q EXCEPT !.phase = "act"]
  <2>1. CASE Goto(h, r)
    <3>1. q \in Acting
      BY <1>1, ByPhase DEF CheckOwner, TypeInv
    <3>2. r.phase = "act"
      BY <3>1 DEF Acting
    <3>3. Ready(r)
      BY <3>2 DEF Ready
    <3>4. UNCHANGED <<clients, keys, minted, holders, withdrawn>>
      BY <1>1 DEF CheckOwner, History
    <3> HIDE DEF r
    <3> QED
      BY <2>1, <3>2, <3>3, <3>4, StillStep
  <2> QED
    BY <1>1, <1>f, <2>1 DEF CheckOwner
<1>2. CASE ReadOld(h)
  <2> DEFINE old == keys[q.target]
             r == [phase |-> "insert", op |-> "rotate", client |-> q.client,
                   admin |-> q.admin, target |-> q.target,
                   row |-> Row(old.client, old.admin)]
  <2>1. CASE Goto(h, r)
    <3>1. r.phase = "insert" /\ Ready(r)
      BY DEF Ready, Row, OwnedBy
    <3>2. UNCHANGED <<clients, keys, minted, holders, withdrawn>>
      BY <1>2 DEF ReadOld, History
    <3> HIDE DEF r
    <3> QED
      BY <2>1, <3>1, <3>2, StillStep
  <2> QED
    BY <1>2, <1>f, <2>1 DEF ReadOld
<1>3. ASSUME NEW n \in Keys, Insert(h, n)
      PROVE  AccessInv'
  <2> DEFINE r == Created(q, IF q.op = "create" THEN "reply" ELSE "update", n)
  <2>1. Goto(h, r) /\ r.new = n /\ r.target = q.target /\ q \in Inserting
    BY <1>3, InsertForm
  <2>2. q.op \in {"create", "rotate"}
    BY <2>1 DEF Inserting
  <2>3. \/ r.phase = "reply"
        \/ r.phase = "update" /\ q.op = "rotate"
    BY <2>2 DEF Created
  <2> HIDE DEF r
  <2> QED
    BY <1>3, <2>1, <2>3, FreshStep DEF Insert
<1>4. CASE Deactivate(h)
  <2>1. q \in Holding
    BY <1>4, ByPhase DEF Deactivate, TypeInv
  <2>2. CASE hasUpdatedAt
    BY <1>4, <2>2, TakeOldStep DEF Deactivate
  <2>3. CASE ~ hasUpdatedAt
    <3> DEFINE r == [q EXCEPT !.phase = "cleanup"]
    <3>1. r.phase = "cleanup" /\ r.new = q.new
      BY <2>1 DEF Holding
    <3>2. Goto(h, r) /\ UNCHANGED <<clients, keys, minted, holders, withdrawn>>
      BY <1>4, <2>3 DEF Deactivate
    <3>3. Ready(r) /\ q.phase = "update"
      BY <1>4, <3>1 DEF Ready, Deactivate
    <3> HIDE DEF r
    <3> QED
      BY <3>1, <3>2, <3>3, StillStep
  <2> QED
    BY <2>2, <2>3
<1>5. CASE Reply(h)
  <2> DEFINE n == q.new
  <2>1. n \in Keys
    BY <1>5, NamesKeys DEF Reply
  <2>2. ASSUME NEW c \in holders', c \notin holders, Due(c)
        PROVE  Safe(c)
    <3>1. c = keys[n].client /\ c # "none"
      BY <1>5, <2>2 DEF Reply
    <3>2. keys[n] # NoKey
      BY <3>1, Rows
    <3> QED
      BY <1>5, <2>2, <3>1, <3>2 DEF AccessInv, Reply
  <2>3. Ready(Free) /\ Free.phase \notin {"update", "cleanup", "reply"}
    BY Forms DEF Ready
  <2> QED
    BY <1>5, <2>2, <2>3, StillStep DEF Reply
<1>6. CASE Revoke(h) \/ Delete(h)
  <2>1. q.target \in Keys
    BY <1>6, ByPhase DEF Revoke, Delete, TypeInv, Acting
  <2>2. CASE UNCHANGED <<keys, minted, withdrawn>>
    <3>1. Ready(Free) /\ Free.phase \notin {"update", "cleanup", "reply"}
      BY Forms DEF Ready
    <3> QED
      BY <1>6, <2>2, <3>1, StillStep DEF Revoke, Delete
  <2>3. CASE /\ Deactivated(q.target) \/ Deleted(q.target)
             /\ Withdraw(q.target)
    BY <1>6, <2>1, <2>3, WilfulStep DEF Revoke, Delete
  <2> QED
    BY <1>6, <2>2, <2>3 DEF Revoke, Delete
<1>7. InsertRefused(h) => AccessInv'
  BY <1>f DEF InsertRefused
<1> QED
  BY <1>1, <1>2, <1>3, <1>4, <1>5, <1>6, <1>7, UndoStep DEF Work

LEMMA AccessEnvironment ==
    ASSUME TypeInv, TypeInv', AccessInv, Environment
    PROVE  AccessInv'
<1>1. ASSUME NEW h \in Handlers, NEW k \in Keys, NEW c \in Clients,
             NEW admin \in BOOLEAN, AskCreate(h, k, c, admin)
      PROVE  AccessInv'
  <2> DEFINE r == [phase |-> "insert", op |-> "create", client |-> keys[k].client,
                   admin |-> keys[k].admin, target |-> k, row |-> Row(c, admin)]
  <2>1. r.phase = "insert" /\ Ready(r)
    BY DEF Ready, Row
  <2>2. Goto(h, r) /\ UNCHANGED <<clients, keys, minted, holders, withdrawn>>
    BY <1>1 DEF AskCreate, History
  <2> HIDE DEF r
  <2> QED
    BY <2>1, <2>2, StillStep
<1>2. ASSUME NEW h \in Handlers, NEW k \in Keys, NEW t \in Keys,
             NEW op \in {"rotate", "revoke", "delete"}, Ask(h, k, op, t)
      PROVE  AccessInv'
  <2> DEFINE r == Asked(op, IF keys[k].admin THEN "act" ELSE "owner", k, t)
  <2>1. r.phase \in {"act", "owner"} /\ Ready(r)
    BY DEF Ready, Asked
  <2>2. Goto(h, r) /\ UNCHANGED <<clients, keys, minted, holders, withdrawn>>
    BY <1>2 DEF Ask, History
  <2> HIDE DEF r
  <2> QED
    BY <2>1, <2>2, StillStep
<1>f. Ready(Free) /\ Free.phase \notin {"update", "cleanup", "reply"}
  BY Forms DEF Ready
<1>3. ASSUME NEW h \in Handlers, InsertFails(h)
      PROVE  AccessInv'
  <2>1. CASE UNCHANGED <<keys, minted, withdrawn>>
    BY <1>3, <1>f, <2>1, StillStep DEF InsertFails
  <2>2. ASSUME NEW n \in Keys, Inserted(n, request[h].row)
        PROVE  AccessInv'
    BY <1>3, <2>2, FreshStep DEF InsertFails
  <2> QED
    BY <1>3, <2>1, <2>2 DEF InsertFails
<1>4. ASSUME NEW h \in Handlers, DeactivateFails(h)
      PROVE  AccessInv'
  <2> DEFINE r == [request[h] EXCEPT !.phase = "cleanup"]
  <2>1. request[h] \in Holding /\ request[h].target \in Keys
    BY <1>4, ByPhase DEF DeactivateFails, TypeInv, Holding
  <2>2. r.phase = "cleanup" /\ r.new = request[h].new
    BY <2>1 DEF Holding
  <2>3. /\ Goto(h, r) /\ request[h].phase = "update"
        /\ UNCHANGED <<clients, holders>>
    BY <1>4 DEF DeactivateFails
  <2> HIDE DEF r
  <2>4. Ready(r)
    BY <2>2 DEF Ready
  <2>5. CASE UNCHANGED <<keys, minted, withdrawn>>
    BY <2>2, <2>3, <2>4, <2>5, StillStep
  <2>6. CASE Deactivated(request[h].target) /\ Withdraw(request[h].target)
    BY <2>1, <2>2, <2>3, <2>6, WilfulStep
  <2> QED
    BY <1>4, <2>5, <2>6 DEF DeactivateFails
<1>5. ASSUME NEW h \in Handlers, CleanupFails(h) \/ Drop(h)
      PROVE  AccessInv'
  BY <1>5, <1>f, StillStep DEF CleanupFails, Drop, History
<1>6. (\E k \in Keys : Lapse(k)) \/ (\E c \in Clients : DeleteClient(c))
        => AccessInv'
  BY AccessWorld DEF Next
<1> QED
  BY <1>1, <1>2, <1>3, <1>4, <1>5, <1>6 DEF Environment

LEMMA AccessStep == TypeInv /\ AccessInv /\ [Next]_vars => AccessInv'
<1> SUFFICES ASSUME TypeInv, AccessInv, [Next]_vars PROVE AccessInv'
  OBVIOUS
<1>1. TypeInv'
  BY TypeStep
<1>2. CASE UNCHANGED vars
  <2>1. /\ \A c : Due(c)' <=> Due(c)
        /\ \A k : Live(k)' <=> Live(k)
        /\ UNCHANGED <<request, minted, holders>>
    BY <1>2 DEF vars, Due, Live
  <2> QED
    BY <1>2, <2>1, GentleStep DEF vars, Live
<1> QED
  BY <1>1, <1>2, AccessWork, AccessEnvironment DEF Next

LEMMA AccessInit == Init => AccessInv
<1> SUFFICES ASSUME Init PROVE AccessInv
  OBVIOUS
<1>1. \A h \in Handlers : request[h].phase = "free"
  BY Forms DEF Init
<1>2. ASSUME NEW c \in holders
      PROVE  Safe(c)
  <2>1. PICK k \in Keys : Holdings[k] # NoKey /\ Holdings[k].client = c
    BY <1>2 DEF Init
  <2>2. Live(k) /\ keys[k].client = c
    BY <2>1, KeyStoreAssumption DEF Init, Live, KeyStoreAssumption
  <2> QED
    BY <1>1, <2>2 DEF Settled, Safe
<1>3. \E bound \in Nat, rank \in [Keys -> Nat] : Chained(rank, bound)
  <2> DEFINE rank == [k \in Keys |-> 0]
  <2>1. rank \in [Keys -> Nat] /\ \A k \in minted : rank[k] < 1
    BY DEF Init
  <2> HIDE DEF rank
  <2>2. Chained(rank, 1)
    BY <1>1, <2>1 DEF Chained
  <2> QED
    BY <2>1, <2>2
<1> QED
  BY <1>1, <1>2, <1>3 DEF AccessInv, Ready

\* No rotation takes a client's last key away, whatever rotations overlap, fail
\* or die half-way.
THEOREM KeysLast == Spec => []AccessKept
<1>1. ASSUME AccessInv PROVE AccessKept
  <2>1. ASSUME NEW c \in (clients \intersect holders) \ withdrawn
        PROVE  Active(c) # {}
    <3>1. Safe(c)
      BY <1>1, <2>1 DEF AccessInv, Due
    <3> QED
      BY <3>1 DEF Safe, Settled, Live, Active, KeysOf
  <2> QED
    BY <2>1 DEF AccessKept
<1> QED
  BY <1>1, TypeInit, TypeStep, AccessInit, AccessStep, PTL DEF Spec

\* While nothing fails, a client who was given a key has been told an active
\* one once no rotation of his is under way: he has an active key, and without
\* failures nobody knows a key only while some handler holds it.
THEOREM KeysTold == Spec => []AccessTold
<1>1. ASSUME TypeOK, UnclaimedInv, AccessKept
      PROVE  AccessTold
  <2> SUFFICES ASSUME failures = 0,
                      NEW c \in (clients \intersect holders) \ withdrawn,
                      Rotating(c) = {}
               PROVE  Active(c) \intersect told # {}
    BY DEF AccessTold
  <2>1. PICK k \in Active(c) : TRUE
    BY <1>1 DEF AccessKept
  <2>2. k \in Keys /\ keys[k].client = c /\ keys[k] # NoKey
    <3>1. c # "none"
      BY <1>1, Rows DEF TypeOK
    <3> QED
      BY <2>1, <3>1, Rows DEF Active, KeysOf
  <2>3. Unclaimed = {}
    <3>1. Cardinality(Unclaimed) \in Nat /\ Cardinality(Unclaimed) <= 0
      BY <1>1, FS_CardinalityType DEF UnclaimedInv
    <3>2. Cardinality(Unclaimed) = 0
      BY <3>1
    <3> QED
      BY <1>1, <3>2, FS_EmptySet DEF UnclaimedInv
  <2>4. ASSUME NEW h \in Handlers,
               request[h].phase \in {"update", "cleanup", "reply"},
               request[h].new = k
        PROVE  FALSE
    BY <2>2, <2>4 DEF Rotating
  <2>5. k \in told
    BY <2>2, <2>3, <2>4 DEF Unclaimed
  <2> QED
    BY <2>1, <2>5
<1> QED
  BY <1>1, Typing, UnclaimedAlways, KeysLast, PTL

=============================================================================
