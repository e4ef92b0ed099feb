--------------------------- MODULE RegistryProofs ---------------------------
(***************************************************************************)
(* Registry for any number of names, servers, registrations and failures:  *)
(* a promised client stays, the clients left half-made are bounded by the  *)
(* failures, and the master key is in place.                               *)
(***************************************************************************)
EXTENDS Registry, FiniteSetTheorems, TLAPS

\* A name with a key or a rule has a row.
LEMMA Row ==
    ASSUME TypeOK, NEW c \in Names
    PROVE  /\ clients[c] = Absent \/ clients[c] \in Client
           /\ clients[c] = Absent =>
                clients[c].keys = {} /\ ~ clients[c].star
                /\ clients[c].origin = "none"
  BY DEF TypeOK, Absent

\* Type correctness, of the tables and of what servers and callers do.
LEMMA TypeStep == TypeOK /\ [Next]_vars => TypeOK'
<1> USE RegistryAssumption DEF RegistryAssumption
<1> SUFFICES ASSUME TypeOK, [Next]_vars PROVE TypeOK'
  OBVIOUS
<1>p. \A origin \in {"setup", "admin", "register"}, star \in BOOLEAN :
         Present(origin, star) \in Client
  BY DEF Present, Client
<1>f. /\ Fail => failures' \in 0 .. MaxFailures
      /\ Change => changes' \in 0 .. MaxChanges
  BY DEF Fail, Change, TypeOK
<1>k. \A c \in Names, kind \in Kinds :
        clients[c] # Absent /\ InsertKey(c, kind) =>
          clients' \in [Names -> Client \union {Absent}]
  <2> SUFFICES ASSUME NEW c \in Names, NEW kind \in Kinds,
                      clients[c] # Absent, InsertKey(c, kind)
               PROVE  clients' \in [Names -> Client \union {Absent}]
    OBVIOUS
  <2>1. clients[c] \in Client
    BY DEF TypeOK
  <2>2. [clients[c] EXCEPT !.keys = clients[c].keys \union {kind}] \in Client
    BY <2>1 DEF Client
  <2> QED
    BY <2>2 DEF InsertKey, TypeOK
<1>l. "client" \in Kinds /\ "admin" \in Kinds
  BY DEF Kinds
<1>u. CASE UNCHANGED vars
  BY <1>u DEF vars, History, TypeOK
<1>b. ASSUME NEW s \in Servers, Boot(s) \/ BootstrapFails(s) \/ Stop(s)
      PROVE  TypeOK'
  <2>1. server' \in [Servers -> {"down", "count", "lookup", "default",
                                 "master", "up"}]
    BY <1>b DEF Boot, Start, CountKeys, LookupDefault, InsertDefault,
                InsertMaster, BootstrapFails, Stop, Goto, TypeOK
  <2>2. \/ UNCHANGED clients
        \/ clients' = [clients EXCEPT ![Default] = Present("setup", FALSE)]
        \/ clients[Default] # Absent /\ InsertKey(Default, "admin")
    BY <1>b DEF Boot, Start, CountKeys, LookupDefault, InsertDefault, Insert,
                InsertMaster, BootstrapFails, Stop
  <2>3. clients' \in [Names -> Client \union {Absent}]
    BY <1>p, <1>k, <1>l, <2>2 DEF TypeOK
  <2>4. /\ fresh' \in BOOLEAN /\ (UNCHANGED failures \/ Fail)
        /\ UNCHANGED <<caller, changes, promised, disputed, stripped>>
    BY <1>b DEF Boot, Start, CountKeys, LookupDefault, InsertDefault,
                InsertMaster, BootstrapFails, Stop, History, TypeOK
  <2> QED
    BY <1>f, <2>1, <2>3, <2>4 DEF TypeOK
<1>r. ASSUME NEW r \in Callers, NEW c \in Names, Register(r, c)
      PROVE  TypeOK'
  BY <1>r DEF Register, History, Caller, TypeOK
<1>c. ASSUME NEW r \in Callers,
             \/ Registration(r)
             \/ CreateClientFails(r) \/ CreateKeyFails(r) \/ UndoFails(r)
             \/ InsertRuleFails(r) \/ Drop(r)
      PROVE  TypeOK'
  <2> DEFINE c == caller[r].name
  <2>1. /\ caller[r].phase # "idle"
        /\ caller[r].phase \in {"client", "key", "undo", "rule", "reply"}
        /\ c \in Names
    BY <1>c DEF Registration, CreateClient, CreateKey, Undo, InsertRule,
                Respond, CreateClientFails, CreateKeyFails, UndoFails,
                InsertRuleFails, Drop, Caller, TypeOK
  <2>2. caller' \in [Callers -> Caller]
    <3>1. \A phase \in {"client", "key", "undo", "rule", "reply"} :
             [phase |-> phase, name |-> c] \in Caller
      BY <2>1 DEF Caller
    <3>2. \A reply \in {"none", "success", "taken", "error"} :
             Answer(reply) \in Caller
      BY DEF Answer, Caller
    <3> QED
      BY <1>c, <3>1, <3>2
      DEF Registration, CreateClient, CreateKey, Undo, InsertRule, Respond,
          CreateClientFails, CreateKeyFails, UndoFails, InsertRuleFails, Drop,
          Step, Reply, TypeOK
  <2>3. clients' \in [Names -> Client \union {Absent}]
    <3>1. \A d \in Client : [d EXCEPT !.star = TRUE] \in Client
      BY DEF Client
    <3>2. clients[c] # Absent => clients[c] \in Client
      BY <2>1 DEF TypeOK
    <3>3. \/ UNCHANGED clients
          \/ clients' = [clients EXCEPT ![c] = Present("register", FALSE)]
          \/ clients' = [clients EXCEPT ![c] = Absent]
          \/ /\ clients[c] # Absent
             /\ \/ InsertKey(c, "client")
                \/ clients' = [clients EXCEPT ![c].star = TRUE]
      BY <1>c DEF Registration, CreateClient, CreateKey, Undo, InsertRule,
                  Respond, CreateClientFails, CreateKeyFails, UndoFails,
                  InsertRuleFails, Drop, Insert, Delete
    <3> QED
      BY <1>p, <1>k, <1>l, <2>1, <3>1, <3>2, <3>3 DEF TypeOK
  <2>4. /\ fresh' \in BOOLEAN /\ (UNCHANGED failures \/ Fail)
        /\ promised' \subseteq Names /\ stripped' \subseteq Names
        /\ UNCHANGED <<server, changes, disputed>>
    BY <1>c, <2>1
    DEF Registration, CreateClient, CreateKey, Undo, InsertRule, Respond,
        CreateClientFails, CreateKeyFails, UndoFails, InsertRuleFails, Drop,
        Delete, History, TypeOK
  <2> QED
    BY <1>f, <2>2, <2>3, <2>4 DEF TypeOK
<1>a. ASSUME NEW c \in Names, Request(c)
      PROVE  TypeOK'
  <2> DEFINE Goal == /\ Change /\ UNCHANGED <<server, caller, failures>>
                     /\ promised' \subseteq Names /\ disputed' \subseteq Names
                     /\ stripped' \subseteq Names /\ fresh' \in BOOLEAN
  <2>1. Goal
    <3>1. CASE AdminCreate(c) \/ SaveRule(c) \/ DeleteRule(c)
      BY <3>1 DEF AdminCreate, SaveRule, DeleteRule, History, TypeOK
    <3>2. CASE AdminDelete(c)
      BY <3>2 DEF AdminDelete, Delete, Release, TypeOK
    <3>3. ASSUME NEW kind \in Kinds, AddKey(c, kind)
          PROVE  Goal
      BY <3>3 DEF AddKey, History, TypeOK
    <3>4. ASSUME NEW kind \in Kinds, DeleteKey(c, kind)
          PROVE  Goal
      BY <3>4 DEF DeleteKey, Release, TypeOK
    <3> QED
      BY <1>a, <3>1, <3>2, <3>3, <3>4 DEF Request
  <2>2. clients' \in [Names -> Client \union {Absent}]
    <3>1. CASE AdminCreate(c) \/ AdminDelete(c)
      BY <1>p, <3>1 DEF AdminCreate, AdminDelete, Insert, Delete, TypeOK
    <3>2. ASSUME NEW kind \in Kinds, AddKey(c, kind)
          PROVE  clients' \in [Names -> Client \union {Absent}]
      BY <1>k, <3>2 DEF AddKey
    <3>3. ASSUME NEW kind \in Kinds, DeleteKey(c, kind)
          PROVE  clients' \in [Names -> Client \union {Absent}]
      <4>1. clients[c] \in Client
        BY <3>3 DEF DeleteKey, Absent, TypeOK
      <4>2. [clients[c] EXCEPT !.keys = clients[c].keys \ {kind}] \in Client
        BY <4>1 DEF Client
      <4> QED
        BY <3>3, <4>2 DEF DeleteKey, TypeOK
    <3>4. CASE SaveRule(c) \/ DeleteRule(c)
      <4>1. clients[c] \in Client
        BY <3>4 DEF SaveRule, DeleteRule, Absent, TypeOK
      <4>2. \A star \in BOOLEAN : [clients[c] EXCEPT !.star = star] \in Client
        BY <4>1 DEF Client
      <4> QED
        BY <3>4, <4>2 DEF SaveRule, DeleteRule, TypeOK
    <3> QED
      BY <1>a, <3>1, <3>2, <3>3, <3>4 DEF Request
  <2> QED
    BY <1>f, <2>1, <2>2 DEF TypeOK
<1> QED
  BY <1>u, <1>b, <1>r, <1>c, <1>a DEF Next

LEMMA InitType == Init => TypeOK
<1>1. Answer("none") \in Caller
  BY DEF Answer, Caller
<1>2. Present("setup", TRUE) \in Client
  BY DEF Present, Client
<1>3. 0 \in 0 .. MaxFailures /\ 0 \in 0 .. MaxChanges
  BY RegistryAssumption DEF RegistryAssumption
<1> QED
  BY <1>1, <1>2, <1>3 DEF Init, TypeOK

\* The tables keep their form, and nobody is in a phase he cannot be in.
THEOREM Typing == Spec => []TypeOK
  BY InitType, TypeStep, PTL DEF Spec

-----------------------------------------------------------------------------
(* The clients who were promised that they stay. *)

Registered(c) == clients[c] # Absent /\ clients[c].origin = "register"

\* What holds of a name that is not disputed.  The client of a
\* registration under way is its own: nobody else is at work on it, nobody was
\* promised it.  A client that was promised is there with a key.
Stays(c) ==
    /\ \A r \in Callers : Past(r, c) =>
         /\ Registered(c) /\ c \notin promised
         /\ caller[r].phase \in {"rule", "reply"} => clients[c].keys # {}
         /\ \A q \in Callers \ {r} : ~ Past(q, c)
    /\ c \in promised => Registered(c) /\ clients[c].keys # {}

StaysInv == TypeOK /\ \A c \in Names \ disputed : Stays(c)

\* A client that loses nothing but, it may be, its rule.
Kept(c) ==
    /\ clients'[c].origin = clients[c].origin
    /\ clients[c].keys \subseteq clients'[c].keys

\* Steps that leave a name alone.
LEMMA StaysFrame ==
    ASSUME NEW c \in Names, Stays(c), Kept(c),
           c \in promised' <=> c \in promised,
           \A q \in Callers : Past(q, c)' => Past(q, c) /\ caller'[q] = caller[q]
    PROVE  Stays(c)'
<1>1. \A q \in Callers : ~ Past(q, c) => ~ Past(q, c)'
  OBVIOUS
<1> QED
  BY <1>1 DEF Stays, Kept, Registered, Absent

\* A step of a registration, for its own client and for the others.
LEMMA StaysCaller ==
    ASSUME StaysInv, NEW r \in Callers,
           \/ Registration(r)
           \/ CreateClientFails(r) \/ CreateKeyFails(r) \/ UndoFails(r)
           \/ InsertRuleFails(r) \/ Drop(r)
    PROVE  \A d \in Names \ disputed' : Stays(d)'
<1>0. PICK c \in Names : c = caller[r].name
  BY DEF StaysInv, Registration, CreateClient, CreateKey, Undo, InsertRule,
         Respond, CreateClientFails, CreateKeyFails, UndoFails,
         InsertRuleFails, Drop, Caller, TypeOK
<1>1. /\ c = caller[r].name /\ disputed' = disputed
      /\ clients \in [Names -> Client \union {Absent}]
      /\ caller \in [Callers -> Caller]
  BY <1>0 DEF StaysInv, Registration, CreateClient, CreateKey, Undo,
         InsertRule, Respond, CreateClientFails, CreateKeyFails, UndoFails,
         InsertRuleFails, Drop, Delete, History, TypeOK
<1>2. \A q \in Callers \ {r} : caller'[q] = caller[q]
  BY <1>1 DEF Registration, CreateClient, CreateKey, Undo, InsertRule,
         Respond, CreateClientFails, CreateKeyFails, UndoFails,
         InsertRuleFails, Drop, Step, Reply
<1>3. \A d : Past(r, d)' => d = c
  BY <1>1 DEF Registration, CreateClient, CreateKey, Undo, InsertRule,
         Respond, CreateClientFails, CreateKeyFails, UndoFails,
         InsertRuleFails, Drop, Step, Reply, Answer, Past
<1>4. \A d \in Names \ {c} : clients'[d] = clients[d]
  BY <1>1 DEF Registration, CreateClient, CreateKey, Undo, InsertRule,
         Respond, CreateClientFails, CreateKeyFails, UndoFails,
         InsertRuleFails, Drop, Insert, InsertKey, Delete
<1>5. promised' \in {promised, promised \union {c}}
  BY <1>1 DEF Registration, CreateClient, CreateKey, Undo, InsertRule,
         Respond, CreateClientFails, CreateKeyFails, UndoFails,
         InsertRuleFails, Drop, History
<1>6. ASSUME NEW d \in Names \ disputed, d # c
      PROVE  Stays(d)'
  <2>1. \A q \in Callers : Past(q, d)' => Past(q, d) /\ caller'[q] = caller[q]
    BY <1>2, <1>3, <1>6 DEF Past
  <2>2. Stays(d)
    BY <1>1, <1>6 DEF StaysInv
  <2> QED
    BY <1>4, <1>5, <1>6, <2>1, <2>2, StaysFrame DEF Kept
<1>7. ASSUME c \notin disputed
      PROVE  Stays(c)'
  <2> DEFINE new == clients'[c]
             old == clients[c]
  <2>1. Stays(c)
    BY <1>1, <1>7 DEF StaysInv
  <2>2. \A q \in Callers \ {r} : Past(q, c)' <=> Past(q, c)
    BY <1>2 DEF Past
  <2>3. \* The registration leaves, and the client stays as it is.
        CASE clients'[c] = clients[c] /\ promised' = promised /\ ~ Past(r, c)'
    <3>1. \A q \in Callers : Past(q, c)' => Past(q, c) /\ caller'[q] = caller[q]
      BY <1>2, <2>3 DEF Past
    <3> QED
      BY <1>1, <2>1, <2>3, <3>1, StaysFrame DEF Kept
  <2>4. \* It inserts its client.
        CASE /\ old = Absent /\ new = Present("register", FALSE)
             /\ promised' = promised
             /\ caller'[r].phase \in {"key", "idle"}
    <3>1. c \notin promised /\ \A q \in Callers : ~ Past(q, c)
      BY <2>1, <2>4 DEF Stays, Registered
    <3>2. Registered(c)'
      BY <2>4 DEF Registered, Present, Absent
    <3>3. \A q \in Callers : Past(q, c)' => q = r
      BY <2>2, <3>1
    <3>4. c \notin promised'
      BY <2>4, <3>1
    <3> QED
      BY <2>4, <3>2, <3>3, <3>4 DEF Stays
  <2>5. \* It goes on with the client it has inserted.
        CASE /\ Past(r, c) /\ promised' = promised
             /\ \/ new = old
                \/ new = [old EXCEPT !.keys = old.keys \union {"client"}]
                \/ new = [old EXCEPT !.star = TRUE]
             /\ caller'[r].phase \in {"rule", "reply"} => new.keys # {}
    <3>1. /\ Registered(c) /\ c \notin promised /\ old \in Client
          /\ \A q \in Callers \ {r} : ~ Past(q, c)
      BY <1>1, <2>1, <2>5 DEF Stays, Registered
    <3>2. new.origin = "register"
      BY <2>5, <3>1 DEF Registered, Client
    <3>3. Registered(c)'
      BY <3>2 DEF Registered, Absent
    <3>4. \A q \in Callers : Past(q, c)' => q = r
      BY <2>2, <3>1
    <3> QED
      BY <2>5, <3>1, <3>3, <3>4 DEF Stays
  <2>6. \* It has failed and deletes its client.
        CASE /\ Past(r, c) /\ promised' = promised /\ ~ Past(r, c)'
    <3>1. c \notin promised /\ \A q \in Callers \ {r} : ~ Past(q, c)
      BY <2>1, <2>6 DEF Stays
    <3>2. c \notin promised' /\ \A q \in Callers : ~ Past(q, c)'
      BY <2>2, <2>6, <3>1
    <3> QED
      BY <3>2 DEF Stays
  <2>7. \* It is answered.
        CASE /\ Past(r, c) /\ caller[r].phase = "reply" /\ new = old
             /\ ~ Past(r, c)'
    <3>1. /\ Registered(c) /\ clients[c].keys # {}
          /\ \A q \in Callers \ {r} : ~ Past(q, c)
      BY <2>1, <2>7 DEF Stays
    <3>2. Registered(c)' /\ clients'[c].keys # {} /\ \A q \in Callers : ~ Past(q, c)'
      BY <2>2, <2>7, <3>1 DEF Registered, Absent
    <3> QED
      BY <3>2 DEF Stays
  <2>c. ASSUME CreateClient(r) \/ CreateClientFails(r)
        PROVE  Stays(c)'
    <3>1. caller'[r].phase \in {"key", "idle"}
      BY <2>c, <1>1 DEF CreateClient, CreateClientFails, Step, Reply, Answer
    <3>2. caller'[r].phase = "idle" => ~ Past(r, c)'
      BY DEF Past
    <3>3. \/ new = old /\ caller'[r].phase = "idle"
          \/ old = Absent /\ new = Present("register", FALSE)
      <4>1. \/ UNCHANGED clients /\ Reply(r, "taken")
            \/ old = Absent /\ Insert(c, "register")
        BY <2>c, <1>1 DEF CreateClient, CreateClientFails
      <4>2. Reply(r, "taken") => caller'[r].phase = "idle"
        BY <1>1 DEF Reply, Answer
      <4>3. Insert(c, "register") => new = Present("register", FALSE)
        BY <1>1 DEF Insert
      <4> QED
        BY <4>1, <4>2, <4>3
    <3>4. promised' = promised
      BY <2>c DEF CreateClient, CreateClientFails, History
    <3> QED
      BY <2>3, <2>4, <3>1, <3>2, <3>3, <3>4
  <2>k. ASSUME CreateKey(r) \/ CreateKeyFails(r)
        PROVE  Stays(c)'
    <3>1. Past(r, c) /\ promised' = promised
      BY <2>k, <1>1 DEF CreateKey, CreateKeyFails, Past, History
    <3>2. old # Absent /\ old \in Client
      BY <1>1, <2>1, <3>1 DEF Stays, Registered
    <3>3. [old EXCEPT !.keys = old.keys \union {"client"}].keys # {}
      BY <3>2 DEF Client
    <3>4. \/ new = old /\ caller'[r].phase = "undo"
          \/ /\ new = [old EXCEPT !.keys = old.keys \union {"client"}]
             /\ caller'[r].phase \in {"rule", "undo"}
      BY <2>k, <1>1, <3>2 DEF CreateKey, CreateKeyFails, InsertKey, Step
    <3> QED
      BY <2>5, <3>1, <3>3, <3>4
  <2>u. ASSUME Undo(r) \/ UndoFails(r) \/ Drop(r)
        PROVE  Stays(c)'
    <3>1. promised' = promised /\ ~ Past(r, c)'
      BY <2>u, <1>1 DEF Undo, UndoFails, Drop, Reply, Answer, Past, History
    <3>2. \/ clients'[c] = clients[c]
          \/ Past(r, c)
      BY <2>u, <1>1 DEF Undo, UndoFails, Drop, Past
    <3> QED
      BY <2>3, <2>6, <3>1, <3>2
  <2>r. ASSUME InsertRule(r) \/ InsertRuleFails(r)
        PROVE  Stays(c)'
    <3>1. Past(r, c) /\ promised' = promised /\ caller[r].phase = "rule"
      BY <2>r, <1>1 DEF InsertRule, InsertRuleFails, Past, History
    <3>2. old.keys # {} /\ old \in Client
      BY <1>1, <2>1, <3>1 DEF Stays, Registered
    <3>3. [old EXCEPT !.star = TRUE].keys # {}
      BY <3>2 DEF Client
    <3>4. new = old \/ new = [old EXCEPT !.star = TRUE]
      BY <2>r, <1>1 DEF InsertRule, InsertRuleFails
    <3> QED
      BY <2>5, <3>1, <3>2, <3>3, <3>4
  <2>e. ASSUME Respond(r)
        PROVE  Stays(c)'
    BY <2>e, <2>7, <1>1 DEF Respond, Reply, Answer, Past
  <2> QED
    BY <2>c, <2>k, <2>u, <2>r, <2>e DEF Registration
<1> QED
  BY <1>1, <1>6, <1>7

\* A request of an administrator or of the client, for the client and the others.
LEMMA StaysRequest ==
    ASSUME StaysInv, NEW d \in Names, Request(d)
    PROVE  \A c \in Names \ disputed' : Stays(c)'
<1>t. TypeOK
  BY DEF StaysInv
<1>1. /\ UNCHANGED caller
      /\ \A c \in Names \ {d} : clients'[c] = clients[c]
      /\ \A c \in Names \ {d} : /\ c \in promised' <=> c \in promised
                                /\ c \in disputed' <=> c \in disputed
  BY <1>t DEF Request, AdminCreate, AdminDelete, SaveRule, DeleteRule, AddKey,
              DeleteKey, Insert, InsertKey, Delete, Release, History, TypeOK
<1>2. ASSUME NEW c \in Names \ disputed', c # d
      PROVE  Stays(c)'
  <2>1. Stays(c)
    BY <1>1, <1>2 DEF StaysInv
  <2>2. \A q \in Callers : Past(q, c)' => Past(q, c) /\ caller'[q] = caller[q]
    BY <1>1 DEF Past
  <2>3. Kept(c)
    BY <1>1, <1>2 DEF Kept
  <2>4. c \in promised' <=> c \in promised
    BY <1>1, <1>2
  <2> QED
    BY <2>1, <2>2, <2>3, <2>4, StaysFrame
<1>3. ASSUME d \notin disputed'
      PROVE  Stays(d)'
  <2>1. \* A client or the last of his keys is deleted.
        CASE Release(d)
    <3>1. d \notin promised' /\ \A r \in Callers : ~ Past(r, d)
      BY <1>3, <2>1 DEF Release
    <3> QED
      BY <1>1, <3>1 DEF Stays, Past
  <2>2. \* A client is created.
        CASE AdminCreate(d)
    <3>1. clients[d] = Absent /\ UNCHANGED <<promised, disputed>>
      BY <2>2 DEF AdminCreate, History
    <3>2. d \notin promised /\ \A q \in Callers : ~ Past(q, d)
      BY <1>3, <3>1 DEF StaysInv, Stays, Registered
    <3> QED
      BY <1>1, <3>1, <3>2 DEF Stays, Past
  <2>3. \* Keys and rules come, or the client keeps a key.
        ASSUME UNCHANGED <<promised, disputed>>,
               clients'[d].origin = clients[d].origin,
               clients[d].keys # {} => clients'[d].keys # {}
        PROVE  Stays(d)'
    <3>1. Stays(d)
      BY <1>3, <2>3 DEF StaysInv
    <3>2. Registered(d) => Registered(d)'
      BY <2>3 DEF Registered, Absent
    <3> QED
      BY <1>1, <2>3, <3>1, <3>2 DEF Stays, Past
  <2>4. ASSUME NEW kind \in Kinds, AddKey(d, kind)
        PROVE  Stays(d)'
    <3>1. clients[d] \in Client /\ clients'[d] =
             [clients[d] EXCEPT !.keys = clients[d].keys \union {kind}]
      BY <1>t, <2>4 DEF AddKey, InsertKey, TypeOK
    <3>2. /\ clients'[d].origin = clients[d].origin
          /\ clients'[d].keys = clients[d].keys \union {kind}
      BY <3>1 DEF Client
    <3>3. UNCHANGED <<promised, disputed>>
      BY <2>4 DEF AddKey, History
    <3> QED
      BY <2>3, <3>2, <3>3
  <2>5. ASSUME NEW kind \in Kinds, DeleteKey(d, kind), ~ Release(d)
        PROVE  Stays(d)'
    <3>1. clients[d] \in Client /\ clients'[d] =
             [clients[d] EXCEPT !.keys = clients[d].keys \ {kind}]
      BY <1>t, <2>5 DEF DeleteKey, Absent, TypeOK
    <3>2. /\ clients'[d].origin = clients[d].origin
          /\ clients'[d].keys = clients[d].keys \ {kind}
      BY <3>1 DEF Client
    <3>3. UNCHANGED <<promised, disputed>> /\ clients[d].keys # {kind}
      BY <2>5 DEF DeleteKey
    <3>4. kind \in clients[d].keys
      BY <2>5 DEF DeleteKey
    <3> QED
      BY <2>3, <3>2, <3>3, <3>4
  <2>6. CASE SaveRule(d) \/ DeleteRule(d)
    <3>0. clients[d] \in Client
      BY <1>t, <2>6, Row DEF SaveRule, DeleteRule
    <3>1. \/ clients'[d] = [clients[d] EXCEPT !.star = TRUE]
          \/ clients'[d] = [clients[d] EXCEPT !.star = FALSE]
      BY <1>t, <2>6 DEF SaveRule, DeleteRule, TypeOK
    <3>2. /\ clients'[d].origin = clients[d].origin
          /\ clients'[d].keys = clients[d].keys
      BY <3>0, <3>1 DEF Client
    <3>3. UNCHANGED <<promised, disputed>>
      BY <2>6 DEF SaveRule, DeleteRule, History
    <3> QED
      BY <2>3, <3>2, <3>3
  <2> QED
    BY <2>1, <2>2, <2>4, <2>5, <2>6 DEF Request, AdminDelete
<1> QED
  BY <1>2, <1>3

LEMMA StaysStep == StaysInv /\ [Next]_vars => StaysInv'
<1> SUFFICES ASSUME StaysInv, [Next]_vars
             PROVE  \A c \in Names \ disputed' : Stays(c)'
  BY TypeStep DEF StaysInv
<1>t. TypeOK
  BY DEF StaysInv
<1>u. CASE UNCHANGED vars
  BY <1>u, StaysFrame DEF vars, History, StaysInv, Kept, Past
<1>b. ASSUME NEW s \in Servers, Boot(s) \/ BootstrapFails(s) \/ Stop(s)
      PROVE  \A c \in Names \ disputed' : Stays(c)'
  <2>1. UNCHANGED <<caller, promised, disputed>>
    BY <1>b
    DEF Boot, Start, CountKeys, LookupDefault, InsertDefault,
        InsertMaster, BootstrapFails, Stop, History
  <2>2. ASSUME NEW c \in Names \ disputed, Kept(c)
        PROVE  Stays(c)'
    BY <2>1, <2>2, StaysFrame DEF StaysInv, Past
  <2>3. ASSUME NEW c \in Names \ disputed, clients[c] = Absent
        PROVE  Stays(c)'
    <3>1. c \notin promised /\ \A q \in Callers : ~ Past(q, c)
      BY <2>3 DEF StaysInv, Stays, Registered
    <3> QED
      BY <2>1, <3>1 DEF Stays, Past
  <2>4. \A c \in Names : Kept(c) \/ clients[c] = Absent
    <3>1. CASE InsertMaster(s) /\ clients[Default] # Absent
      <4>1. /\ clients[Default] \in Client
            /\ clients' = [clients EXCEPT ![Default].keys =
                                            clients[Default].keys \union {"admin"}]
        BY <1>t, <3>1, RegistryAssumption
           DEF InsertMaster, InsertKey, TypeOK, RegistryAssumption
      <4>2. /\ clients'[Default].origin = clients[Default].origin
            /\ clients[Default].keys \subseteq clients'[Default].keys
        BY <1>t, <4>1, RegistryAssumption DEF Client, TypeOK, RegistryAssumption
      <4>3. \A c \in Names \ {Default} : clients'[c] = clients[c]
        BY <1>t, <4>1 DEF TypeOK
      <4> QED
        BY <4>2, <4>3 DEF Kept
    <3>2. CASE ~ (InsertMaster(s) /\ clients[Default] # Absent)
      <4>1. \/ UNCHANGED clients
            \/ /\ clients[Default] = Absent
               /\ clients' = [clients EXCEPT ![Default] = Present("setup", FALSE)]
        BY <1>b, <3>2
        DEF Boot, Start, CountKeys, LookupDefault, InsertDefault, Insert,
            InsertMaster, BootstrapFails, Stop
      <4> QED
        BY <1>t, <4>1 DEF Kept, TypeOK
    <3> QED
      BY <3>1, <3>2
  <2> QED
    BY <2>1, <2>2, <2>3, <2>4
<1>r. ASSUME NEW r \in Callers, NEW d \in Names, Register(r, d)
      PROVE  \A c \in Names \ disputed' : Stays(c)'
  <2>1. /\ UNCHANGED <<clients, promised, disputed>>
        /\ \A q \in Callers, c \in Names :
              Past(q, c)' => Past(q, c) /\ caller'[q] = caller[q]
    BY <1>r, <1>t DEF Register, History, Past, TypeOK
  <2> QED
    BY <2>1, StaysFrame DEF StaysInv, Kept
<1> QED
  BY <1>u, <1>b, <1>r, StaysCaller, StaysRequest DEF Next

\* A client who was told that he is registered stays, with a key, until a
\* request deletes the client or the last of his keys, whatever registrations of
\* the name overlap, fail and clean up, on every name that was not deleted under
\* a registration.
THEOREM RegisteredStay == Spec => []RegisteredStays
<1>1. Init => StaysInv
  <2>1. Init => TypeOK
    BY InitType
  <2>2. Init => \A c \in Names : Stays(c)
    <3>1. Init => promised = {} /\ \A r \in Callers : caller[r].phase = "idle"
      BY DEF Init, Answer
    <3> QED
      BY <3>1 DEF Stays, Past
  <2> QED
    BY <2>1, <2>2 DEF StaysInv
<1>2. StaysInv => RegisteredStays
  BY DEF StaysInv, Stays, Registered, TypeOK, RegisteredStays
<1> QED
  BY <1>1, <1>2, StaysStep, PTL DEF Spec

-----------------------------------------------------------------------------
(* The clients who are left half-made. *)

\* A registration that will complete the client or delete it, unless it fails.
Finishing(r, c) ==
    /\ Past(r, c)
    /\ \/ caller[r].phase \in {"key", "undo"}
       \/ caller[r].phase = "rule" /\ clients[c].keys # {}

\* Half-made clients with nobody at work on them.  HalfBounded speaks of fewer:
\* those with no registration of their name at all.
Loose ==
    {c \in Names \ stripped :
        /\ clients[c].origin = "register"
        /\ ~ (clients[c].keys # {} /\ clients[c].star)
        /\ \A r \in Callers : ~ Finishing(r, c)}

HalfInv == TypeOK /\ IsFiniteSet(Loose) /\ Cardinality(Loose) <= failures

\* A step that takes nothing from a client and leaves those at work on it alone
\* does not make it loose.
LEMMA LooseFrame ==
    ASSUME NEW c \in Names, c \in Loose',
           clients'[c].origin = clients[c].origin,
           clients[c].keys # {} => clients'[c].keys # {},
           clients[c].star => clients'[c].star,
           c \in stripped => c \in stripped',
           \A q \in Callers : Past(q, c) /\ caller[q].phase # "reply" =>
              caller'[q] = caller[q]
    PROVE  c \in Loose
<1>1. \A q \in Callers : Finishing(q, c) => Finishing(q, c)'
  BY DEF Finishing, Past
<1> QED
  BY <1>1 DEF Loose

\* Whatever a registration does concerns its own client only.
LEMMA LooseCaller ==
    ASSUME TypeOK, NEW r \in Callers,
           \/ Registration(r)
           \/ CreateClientFails(r) \/ CreateKeyFails(r) \/ UndoFails(r)
           \/ InsertRuleFails(r) \/ Drop(r)
    PROVE  \/ Loose' \subseteq Loose /\ UNCHANGED failures
           \/ /\ \E c \in Names : Loose' \subseteq Loose \union {c}
              /\ Fail
<1>0. PICK c \in Names : c = caller[r].name
  BY DEF Registration, CreateClient, CreateKey, Undo, InsertRule, Respond,
         CreateClientFails, CreateKeyFails, UndoFails, InsertRuleFails, Drop,
         Caller, TypeOK
<1>1. /\ clients \in [Names -> Client \union {Absent}]
      /\ caller \in [Callers -> Caller]
  BY DEF TypeOK
<1>2. \A q \in Callers \ {r} : caller'[q] = caller[q]
  BY <1>1 DEF Registration, CreateClient, CreateKey, Undo, InsertRule,
         Respond, CreateClientFails, CreateKeyFails, UndoFails,
         InsertRuleFails, Drop, Step, Reply
<1>3. \A d \in Names \ {c} : /\ clients'[d] = clients[d]
                             /\ d \in stripped => d \in stripped'
  BY <1>0, <1>1 DEF Registration, CreateClient, CreateKey, Undo, InsertRule,
         Respond, CreateClientFails, CreateKeyFails, UndoFails,
         InsertRuleFails, Drop, Insert, InsertKey, Delete, History
<1>4. ASSUME NEW d \in Names \ {c}, d \in Loose' PROVE d \in Loose
  <2>1. \A q \in Callers : Past(q, d) => caller'[q] = caller[q]
    BY <1>0, <1>2 DEF Past
  <2>2. /\ clients'[d] = clients[d]
        /\ d \in stripped => d \in stripped'
    BY <1>3
  <2>3. /\ clients'[d].origin = clients[d].origin
        /\ clients[d].keys # {} => clients'[d].keys # {}
        /\ clients[d].star => clients'[d].star
    BY <2>2, Zenon
  <2> QED
    BY <1>4, <2>1, <2>2, <2>3, LooseFrame
<1>5. Loose' \subseteq Names
  BY DEF Loose
<1>f. CASE Fail
  BY <1>4, <1>5, <1>f
<1>n. ASSUME Registration(r), c \in Loose' PROVE c \in Loose
  <2> DEFINE new == clients'[c]
             old == clients[c]
  <2>1. /\ new.origin = "register" /\ ~ (new.keys # {} /\ new.star)
        /\ \A q \in Callers : ~ Finishing(q, c)'
    BY <1>n DEF Loose
  <2>2. \* The registration was not at work on it.
        CASE clients'[c] = clients[c] /\ caller[r].phase \in {"client", "reply"}
    <3>1. \A q \in Callers : Past(q, c) /\ caller[q].phase # "reply" =>
             caller'[q] = caller[q]
      BY <1>2, <2>2 DEF Past
    <3>2. c \in stripped => c \in stripped'
      BY <1>n, <2>2 DEF Registration, CreateClient, CreateKey, Undo, InsertRule,
                        Respond, History
    <3> QED
      BY <1>n, <2>2, <3>1, <3>2, LooseFrame
  <2>3. CASE CreateClient(r)
    <3>1. CASE old = Absent
      <4>1. caller'[r] = [phase |-> "key", name |-> c]
        BY <1>0, <1>1, <2>3, <3>1 DEF CreateClient, Step
      <4>2. Finishing(r, c)'
        BY <4>1 DEF Finishing, Past
      <4> QED
        BY <2>1, <4>2
    <3>2. CASE old # Absent
      BY <1>0, <2>2, <2>3, <3>2 DEF CreateClient
    <3> QED
      BY <3>1, <3>2
  <2>4. CASE CreateKey(r)
    <3>1. CASE old = Absent
      <4>1. new.origin = "none"
        BY <1>0, <2>4, <3>1 DEF CreateKey, Absent
      <4> QED
        BY <2>1, <4>1
    <3>2. CASE old # Absent
      <4>1. /\ caller'[r] = [phase |-> "rule", name |-> c]
            /\ new = [old EXCEPT !.keys = old.keys \union {"client"}]
        BY <1>0, <1>1, <2>4, <3>2 DEF CreateKey, InsertKey, Step
      <4>2. old \in Client
        BY <1>1, <3>2
      <4>3. new.keys # {}
        BY <4>1, <4>2 DEF Client
      <4>4. caller'[r].phase = "rule" /\ caller'[r].name = c
        BY <4>1
      <4>5. Finishing(r, c)'
        BY <4>3, <4>4, Zenon DEF Finishing, Past
      <4> QED
        BY <2>1, <4>5
    <3> QED
      BY <3>1, <3>2
  <2>5. CASE Undo(r)
    <3>1. new.origin = "none"
      BY <1>0, <1>1, <2>5 DEF Undo, Delete, Absent
    <3> QED
      BY <2>1, <3>1
  <2>6. CASE InsertRule(r)
    <3>1. old # Absent /\ new = [old EXCEPT !.star = TRUE]
      <4>1. old = Absent => new.origin = "none"
        BY <1>0, <2>6 DEF InsertRule, Absent
      <4> QED
        BY <1>0, <1>1, <2>1, <2>6, <4>1 DEF InsertRule
    <3>2. /\ new.star /\ new.keys = old.keys /\ new.origin = old.origin
      BY <1>1, <3>1 DEF Client
    <3>3. old.keys = {}
      BY <2>1, <3>2
    <3>4. \A q \in Callers \ {r} : Finishing(q, c) => Finishing(q, c)'
      BY <1>2, <3>2 DEF Finishing, Past
    <3>5. ~ Finishing(r, c)
      BY <2>6, <3>3 DEF InsertRule, Finishing
    <3>6. c \in Names \ stripped
      BY <1>n, <2>6 DEF InsertRule, History, Loose
    <3> QED
      BY <2>1, <3>2, <3>3, <3>4, <3>5, <3>6 DEF Loose
  <2>7. CASE Respond(r)
    BY <2>2, <2>7 DEF Respond
  <2> QED
    BY <1>n, <2>3, <2>4, <2>5, <2>6, <2>7 DEF Registration
<1>6. CASE Registration(r)
  <2>1. UNCHANGED failures
    BY <1>6 DEF Registration, CreateClient, CreateKey, Undo, InsertRule, Respond
  <2> QED
    BY <1>4, <1>5, <1>6, <1>n, <2>1
<1>7. \/ Registration(r) \/ Fail
  BY DEF CreateClientFails, CreateKeyFails, UndoFails, InsertRuleFails, Drop
<1> QED
  BY <1>f, <1>6, <1>7

\* No request makes a client loose: what it deletes is known.
LEMMA LooseRequest ==
    ASSUME TypeOK, NEW d \in Names, Request(d)
    PROVE  Loose' \subseteq Loose
<1>1. /\ UNCHANGED caller
      /\ \A c \in Names \ {d} : /\ clients'[c] = clients[c]
                                /\ c \in stripped => c \in stripped'
  BY DEF Request, AdminCreate, AdminDelete, SaveRule, DeleteRule, AddKey,
         DeleteKey, Insert, InsertKey, Delete, History, TypeOK
<1>2. Loose' \subseteq Names
  BY DEF Loose
<1>3. ASSUME NEW c \in Loose', c # d PROVE c \in Loose
  <2>1. /\ c \in Names /\ clients'[c] = clients[c]
        /\ c \in stripped => c \in stripped'
    BY <1>1, <1>2, <1>3
  <2>2. /\ clients'[c].origin = clients[c].origin
        /\ clients[c].keys # {} => clients'[c].keys # {}
        /\ clients[c].star => clients'[c].star
    BY <2>1, Zenon
  <2> QED
    BY <1>1, <1>3, <2>1, <2>2, LooseFrame
<1>4. ASSUME d \in Loose'
      PROVE  d \in Loose
  <2>1. d \notin stripped' /\ clients'[d].origin = "register"
    BY <1>4 DEF Loose
  <2>2. CASE AdminCreate(d) \/ AdminDelete(d)
    <3>1. clients'[d] \in {Absent, Present("admin", FALSE)}
      BY <2>2 DEF AdminCreate, AdminDelete, Insert, Delete, TypeOK
    <3> QED
      BY <2>1, <3>1 DEF Absent, Present
  <2>3. ASSUME clients[d] \in Client, NEW keys, NEW star \in BOOLEAN,
               clients'[d] = [clients[d] EXCEPT !.keys = keys, !.star = star],
               clients[d].keys # {} => keys # {},
               clients[d].star => star, UNCHANGED stripped
        PROVE  d \in Loose
    <3>1. /\ clients'[d].origin = clients[d].origin
          /\ clients'[d].keys = keys /\ clients'[d].star = star
      BY <2>3 DEF Client
    <3> QED
      BY <1>1, <1>4, <2>3, <3>1, LooseFrame
  <2>4. ASSUME NEW kind \in Kinds, AddKey(d, kind)
        PROVE  d \in Loose
    <3>1. /\ clients[d] \in Client /\ UNCHANGED stripped
          /\ clients'[d] =
               [clients[d] EXCEPT !.keys = clients[d].keys \union {kind}]
      BY <2>4 DEF AddKey, InsertKey, History, TypeOK
    <3>2. /\ clients'[d].origin = clients[d].origin
          /\ clients'[d].keys = clients[d].keys \union {kind}
          /\ clients'[d].star = clients[d].star
      BY <3>1 DEF Client
    <3> QED
      BY <1>1, <1>4, <3>1, <3>2, LooseFrame
  <2>5. ASSUME NEW kind \in Kinds, DeleteKey(d, kind)
        PROVE  d \in Loose
    <3>1. clients[d].keys # {kind}
      BY <2>1, <2>5 DEF DeleteKey
    <3>2. /\ clients[d] \in Client /\ UNCHANGED stripped
          /\ clients'[d] = [clients[d] EXCEPT !.keys = clients[d].keys \ {kind}]
          /\ kind \in clients[d].keys
      BY <2>5, <3>1 DEF DeleteKey, Absent, TypeOK
    <3>3. /\ clients'[d].origin = clients[d].origin
          /\ clients'[d].keys = clients[d].keys \ {kind}
          /\ clients'[d].star = clients[d].star
      BY <3>2 DEF Client
    <3>4. clients'[d].keys # {}
      BY <3>1, <3>2, <3>3
    <3> QED
      BY <1>1, <1>4, <3>2, <3>3, <3>4, LooseFrame
  <2>6. CASE SaveRule(d)
    <3>1. /\ clients[d] \in Client /\ UNCHANGED stripped
          /\ clients'[d] = [clients[d] EXCEPT !.star = TRUE]
      BY <2>6 DEF SaveRule, History, TypeOK
    <3>2. /\ clients'[d].origin = clients[d].origin
          /\ clients'[d].keys = clients[d].keys
          /\ clients'[d].star
      BY <3>1 DEF Client
    <3> QED
      BY <1>1, <1>4, <3>1, <3>2, LooseFrame
  <2>7. CASE DeleteRule(d)
    BY <2>1, <2>7 DEF DeleteRule
  <2> QED
    BY <2>2, <2>4, <2>5, <2>6, <2>7 DEF Request
<1> QED
  BY <1>2, <1>3, <1>4

\* A step makes at most one client loose, and only by failing.
LEMMA LooseStep ==
    ASSUME TypeOK, [Next]_vars
    PROVE  \/ Loose' \subseteq Loose /\ (UNCHANGED failures \/ Fail)
           \/ /\ \E c \in Names : Loose' \subseteq Loose \union {c}
              /\ Fail
<1>1. Loose' \subseteq Names
  BY DEF Loose
<1>u. CASE UNCHANGED vars
  BY <1>u DEF vars, History, Loose, Finishing, Past
<1>b. ASSUME NEW s \in Servers, Boot(s) \/ BootstrapFails(s) \/ Stop(s)
      PROVE  Loose' \subseteq Loose /\ (UNCHANGED failures \/ Fail)
  <2>1. /\ UNCHANGED <<caller, stripped>> /\ (UNCHANGED failures \/ Fail)
    BY <1>b DEF Boot, Start, CountKeys, LookupDefault, InsertDefault,
                InsertMaster, BootstrapFails, Stop, History
  <2>2. \A c \in Names : \/ Kept(c) /\ clients'[c].star = clients[c].star
                         \/ clients'[c] = Present("setup", FALSE)
    <3>1. CASE InsertMaster(s) /\ clients[Default] # Absent
      <4>1. /\ clients[Default] \in Client
            /\ clients' = [clients EXCEPT ![Default].keys =
                                            clients[Default].keys \union {"admin"}]
        BY <3>1, RegistryAssumption
           DEF InsertMaster, InsertKey, TypeOK, RegistryAssumption
      <4>2. /\ clients'[Default].origin = clients[Default].origin
            /\ clients[Default].keys \subseteq clients'[Default].keys
            /\ clients'[Default].star = clients[Default].star
        BY <4>1, RegistryAssumption DEF Client, TypeOK, RegistryAssumption
      <4>3. \A c \in Names \ {Default} : clients'[c] = clients[c]
        BY <4>1 DEF TypeOK
      <4> QED
        BY <4>2, <4>3 DEF Kept
    <3>2. CASE ~ (InsertMaster(s) /\ clients[Default] # Absent)
      <4>1. \/ UNCHANGED clients
            \/ clients' = [clients EXCEPT ![Default] = Present("setup", FALSE)]
        BY <1>b, <3>2
        DEF Boot, Start, CountKeys, LookupDefault, InsertDefault, Insert,
            InsertMaster, BootstrapFails, Stop
      <4> QED
        BY <4>1 DEF Kept, TypeOK
    <3> QED
      BY <3>1, <3>2
  <2>3. \A c \in Loose' : clients'[c] # Present("setup", FALSE)
    BY DEF Loose, Present
  <2>4. \A c \in Loose' : c \in Loose
    <3> SUFFICES ASSUME NEW c \in Loose' PROVE c \in Loose
      OBVIOUS
    <3>1. /\ c \in Names /\ Kept(c) /\ clients'[c].star = clients[c].star
      BY <1>1, <2>2, <2>3
    <3>2. clients[c].keys # {} => clients'[c].keys # {}
      BY <3>1 DEF Kept
    <3> QED
      BY <2>1, <3>1, <3>2, LooseFrame DEF Kept
  <2> QED
    BY <2>1, <2>4
<1>r. ASSUME NEW r \in Callers, NEW d \in Names, Register(r, d)
      PROVE  Loose' \subseteq Loose /\ UNCHANGED failures
  <2>1. /\ UNCHANGED <<clients, failures, stripped>>
        /\ \A q \in Callers, c \in Names :
              Past(q, c) => caller'[q] = caller[q]
    BY <1>r DEF Register, History, Past, TypeOK
  <2> QED
    BY <1>1, <2>1, LooseFrame
<1>a. ASSUME NEW d \in Names, Request(d)
      PROVE  Loose' \subseteq Loose /\ UNCHANGED failures
  <2>1. UNCHANGED failures
    BY <1>a DEF Request, AdminCreate, AdminDelete, SaveRule, DeleteRule, AddKey,
                DeleteKey
  <2> QED
    BY <1>a, <2>1, LooseRequest
<1> QED
  BY <1>u, <1>b, <1>r, <1>a, LooseCaller DEF Next

\* Clients left without their key or their rule are at most as many as
\* statements failed or servers died under a registration, those left aside
\* whose key or rule a request has deleted.
THEOREM HalfMade == Spec => []HalfBounded
<1>1. Init => HalfInv
  <2>1. ASSUME Init PROVE Loose = {}
    BY <2>1 DEF Init, Loose, Present, Absent
  <2>2. Init => failures = 0
    BY DEF Init
  <2> QED
    BY <2>1, <2>2, InitType, FS_EmptySet DEF HalfInv
<1>2. HalfInv /\ [Next]_vars => HalfInv'
  <2> SUFFICES ASSUME HalfInv, [Next]_vars PROVE HalfInv'
    OBVIOUS
  <2>1. TypeOK' /\ TypeOK /\ failures \in Nat
    BY TypeStep, RegistryAssumption DEF HalfInv, TypeOK, RegistryAssumption
  <2>2. /\ IsFiniteSet(Loose) /\ Cardinality(Loose) \in Nat
        /\ Cardinality(Loose) <= failures
    BY FS_CardinalityType DEF HalfInv
  <2>3. CASE Loose' \subseteq Loose /\ (UNCHANGED failures \/ Fail)
    <3>1. /\ IsFiniteSet(Loose') /\ Cardinality(Loose') \in Nat
          /\ Cardinality(Loose') <= Cardinality(Loose)
      BY <2>2, <2>3, FS_Subset, FS_CardinalityType
    <3>2. failures <= failures'
      BY <2>1, <2>3 DEF Fail
    <3>3. failures' \in Nat
      BY <2>1, <2>3 DEF Fail
    <3> QED
      BY <2>1, <2>2, <3>1, <3>2, <3>3 DEF HalfInv
  <2>4. ASSUME NEW c \in Names, Loose' \subseteq Loose \union {c}, Fail
        PROVE  HalfInv'
    <3>1. /\ IsFiniteSet(Loose \union {c})
          /\ Cardinality(Loose \union {c}) \in Nat
          /\ Cardinality(Loose \union {c}) <= Cardinality(Loose) + 1
      BY <2>2, FS_AddElement, FS_CardinalityType
    <3>2. /\ IsFiniteSet(Loose') /\ Cardinality(Loose') \in Nat
          /\ Cardinality(Loose') <= Cardinality(Loose \union {c})
      BY <2>4, <3>1, FS_Subset, FS_CardinalityType
    <3>3. failures' = failures + 1
      BY <2>4 DEF Fail
    <3> QED
      BY <2>1, <2>2, <3>1, <3>2, <3>3 DEF HalfInv
  <2> QED
    BY <2>1, <2>3, <2>4, LooseStep
<1>3. HalfInv => HalfBounded
  <2> SUFFICES ASSUME HalfInv PROVE HalfBounded
    OBVIOUS
  <2> DEFINE H == {c \in Names \ stripped :
                      /\ clients[c].origin = "register"
                      /\ ~ (clients[c].keys # {} /\ clients[c].star)
                      /\ ~ Busy(c)}
  <2>1. H \subseteq Loose
    BY DEF Loose, Busy, Finishing, Past
  <2>2. /\ Cardinality(H) \in Nat /\ Cardinality(Loose) \in Nat
        /\ Cardinality(H) <= Cardinality(Loose)
    BY <2>1, FS_Subset, FS_CardinalityType DEF HalfInv
  <2>3. Cardinality(Loose) <= failures /\ failures \in Nat
    BY RegistryAssumption DEF HalfInv, TypeOK, RegistryAssumption
  <2> HIDE DEF H
  <2>4. Cardinality(H) <= failures
    BY <2>2, <2>3
  <2> QED
    BY <2>4 DEF HalfBounded, H
<1> QED
  BY <1>1, <1>2, <1>3, PTL DEF Spec

-----------------------------------------------------------------------------
(* The master key. *)

\* No registration outlives the last server that is up.
Attended == Up \/ \A r \in Callers : caller[r].phase = "idle"

\* While nothing fails and nothing is deleted, a server that is about to insert
\* the master key finds its client, no server is up before the master key is in
\* place, and no other key comes before it.
Seeded ==
    failures = 0 /\ fresh =>
        /\ \A s \in Servers : server[s] = "master" => clients[Default] # Absent
        /\ Up \/ Keyed => "admin" \in clients[Default].keys

SeedInv == TypeOK /\ Attended /\ Seeded

LEMMA AttendedStep == TypeOK /\ Attended /\ [Next]_vars => Attended'
<1> SUFFICES ASSUME TypeOK, Attended, [Next]_vars PROVE Attended'
  OBVIOUS
<1>u. CASE UNCHANGED vars
  BY <1>u DEF vars, Attended, Up
<1>b. ASSUME NEW s \in Servers, Boot(s) \/ BootstrapFails(s)
      PROVE  Attended'
  <2>1. UNCHANGED caller
    BY <1>b DEF Boot, Start, CountKeys, LookupDefault, InsertDefault,
                InsertMaster, BootstrapFails
  <2>2. Up => Up'
    BY <1>b DEF Boot, Start, CountKeys, LookupDefault, InsertDefault,
                InsertMaster, BootstrapFails, Goto, Up, TypeOK
  <2> QED
    BY <2>1, <2>2 DEF Attended
<1>s. ASSUME NEW s \in Servers, Stop(s)
      PROVE  Attended'
  BY <1>s DEF Stop, Goto, Attended, Up, TypeOK
<1>r. ASSUME NEW r \in Callers, NEW c \in Names, Register(r, c)
      PROVE  Attended'
  BY <1>r DEF Register, Attended, Up
<1>c. ASSUME NEW r \in Callers,
             \/ Registration(r)
             \/ CreateClientFails(r) \/ CreateKeyFails(r) \/ UndoFails(r)
             \/ InsertRuleFails(r) \/ Drop(r)
      PROVE  Attended'
  <2>1. caller[r].phase # "idle" /\ UNCHANGED server
    BY <1>c DEF Registration, CreateClient, CreateKey, Undo, InsertRule,
                Respond, CreateClientFails, CreateKeyFails, UndoFails,
                InsertRuleFails, Drop
  <2> QED
    BY <2>1 DEF Attended, Up
<1>a. ASSUME NEW c \in Names, Request(c)
      PROVE  Attended'
  <2>1. UNCHANGED <<caller, server>>
    BY <1>a DEF Request, AdminCreate, AdminDelete, SaveRule, DeleteRule, AddKey,
                DeleteKey
  <2> QED
    BY <2>1 DEF Attended, Up
<1> QED
  BY <1>u, <1>b, <1>s, <1>r, <1>c, <1>a DEF Next

LEMMA SeedStep == SeedInv /\ [Next]_vars => SeedInv'
<1> SUFFICES ASSUME SeedInv, [Next]_vars, failures' = 0, fresh'
             PROVE  /\ \A s \in Servers :
                          server'[s] = "master" => clients'[Default] # Absent
                    /\ Up' \/ Keyed' => "admin" \in clients'[Default].keys
  BY TypeStep, AttendedStep DEF SeedInv, Seeded
<1>t. TypeOK /\ Default \in Names /\ failures \in Nat /\ Attended
  BY RegistryAssumption DEF SeedInv, TypeOK, RegistryAssumption
<1>f. ~ Fail
  BY <1>t DEF Fail
<1>0. failures = 0
  BY <1>f
  DEF Next, Boot, Start, CountKeys, LookupDefault, InsertDefault, InsertMaster,
      BootstrapFails, Stop, Register, Registration, CreateClient, CreateKey,
      Undo, InsertRule, Respond, CreateClientFails, CreateKeyFails, UndoFails,
      InsertRuleFails, Drop, Request, AdminCreate, AdminDelete, SaveRule,
      DeleteRule, AddKey, DeleteKey, vars
<1>i. fresh => /\ \A s \in Servers :
                    server[s] = "master" => clients[Default] # Absent
               /\ Up \/ Keyed => "admin" \in clients[Default].keys
  BY <1>0 DEF SeedInv, Seeded
<1>k. Keyed <=> \E c \in Names : clients[c].keys # {}
  BY DEF Keyed
<1>u. CASE UNCHANGED vars
  BY <1>u, <1>i DEF vars, History, Up, Keyed
<1>s. ASSUME NEW s \in Servers, Start(s)
      PROVE  /\ \A q \in Servers :
                   server'[q] = "master" => clients'[Default] # Absent
             /\ Up' \/ Keyed' => "admin" \in clients'[Default].keys
  <2>1. /\ UNCHANGED clients /\ server' = [server EXCEPT ![s] = "count"]
        /\ Keyed' <=> Keyed
    BY <1>s DEF Start, Goto, Keyed
  <2>2. CASE \A q \in Servers : server[q] = "down"
    BY <1>s, <1>t, <2>1, <2>2 DEF Start, Up, TypeOK
  <2>3. CASE ~ \A q \in Servers : server[q] = "down"
    <3>1. fresh /\ (Up' => Up)
      BY <1>s, <1>t, <2>1, <2>3 DEF Start, Up, TypeOK
    <3>2. \A q \in Servers : server'[q] = "master" => server[q] = "master"
      BY <1>t, <2>1 DEF TypeOK
    <3> QED
      BY <1>i, <2>1, <3>1, <3>2
  <2> QED
    BY <2>2, <2>3
\* A step by which no server comes up and none gets ready to insert the key.
<1>p. ASSUME fresh, UNCHANGED server, Up \/ Keyed,
             \/ clients'[Default] = clients[Default]
             \/ /\ clients'[Default] # Absent
                /\ clients[Default].keys \subseteq clients'[Default].keys
      PROVE  /\ \A q \in Servers :
                   server'[q] = "master" => clients'[Default] # Absent
             /\ Up' \/ Keyed' => "admin" \in clients'[Default].keys
  BY <1>i, <1>p
<1>b. ASSUME NEW s \in Servers, Boot(s) \/ Stop(s), ~ Start(s)
      PROVE  /\ \A q \in Servers :
                   server'[q] = "master" => clients'[Default] # Absent
             /\ Up' \/ Keyed' => "admin" \in clients'[Default].keys
  <2>1. /\ fresh
        /\ \A q \in Servers \ {s} : server'[q] = server[q]
    BY <1>b, <1>t DEF Boot, CountKeys, LookupDefault, InsertDefault,
                      InsertMaster, Stop, Goto, History, TypeOK
  <2>2. CASE CountKeys(s)
    <3>1. UNCHANGED clients /\ server'[s] = IF Keyed THEN "up" ELSE "lookup"
      BY <1>t, <2>2 DEF CountKeys, Goto, TypeOK
    <3>2. Up' => Up \/ Keyed
      BY <2>1, <3>1 DEF Up
    <3> QED
      BY <1>i, <2>1, <3>1, <3>2 DEF Keyed
  <2>3. CASE LookupDefault(s)
    <3>1. /\ UNCHANGED clients
          /\ server'[s] = IF clients[Default] = Absent THEN "default" ELSE "master"
      BY <1>t, <2>3 DEF LookupDefault, Goto, TypeOK
    <3>2. Up' => Up
      BY <2>1, <3>1 DEF Up
    <3> QED
      BY <1>i, <2>1, <3>1, <3>2 DEF Keyed
  <2>4. CASE InsertDefault(s)
    <3>1. /\ clients[Default] = Absent
          /\ clients' = [clients EXCEPT ![Default] = Present("setup", FALSE)]
          /\ server'[s] = "master"
      BY <1>t, <2>4 DEF InsertDefault, Insert, Goto, TypeOK
    <3>2. Up' => Up
      BY <2>1, <3>1 DEF Up
    <3>3. clients[Default].keys = {} /\ clients'[Default].keys = {}
          /\ clients'[Default] # Absent
      BY <1>t, <3>1 DEF TypeOK, Present, Absent
    <3>4. Keyed' => Keyed
      BY <1>t, <3>1, <3>3 DEF Keyed, TypeOK
    <3> QED
      BY <1>i, <2>1, <3>2, <3>3, <3>4
  <2>5. CASE InsertMaster(s)
    <3>1. /\ clients[Default] # Absent /\ clients[Default] \in Client
          /\ clients'[Default] =
               [clients[Default] EXCEPT !.keys = clients[Default].keys \union {"admin"}]
      BY <1>i, <1>t, <2>1, <2>5 DEF InsertMaster, InsertKey, TypeOK
    <3>2. /\ clients'[Default].keys = clients[Default].keys \union {"admin"}
      BY <3>1 DEF Client
    <3>3. clients'[Default] # Absent
      BY <3>2 DEF Absent
    <3> QED
      BY <3>2, <3>3
  <2>6. CASE Stop(s)
    <3>1. UNCHANGED clients /\ server'[s] = "down"
      BY <1>t, <2>6 DEF Stop, Goto, TypeOK
    <3>2. Up' => Up
      BY <2>1, <3>1 DEF Up
    <3> QED
      BY <1>i, <2>1, <3>1, <3>2 DEF Keyed
  <2> QED
    BY <1>b, <2>2, <2>3, <2>4, <2>5, <2>6 DEF Boot
<1>r. ASSUME NEW r \in Callers, NEW c \in Names, Register(r, c)
      PROVE  /\ fresh /\ UNCHANGED server /\ Up /\ clients'[Default] = clients[Default]
  BY <1>r DEF Register, History
<1>c. ASSUME NEW r \in Callers, Registration(r)
      PROVE  /\ fresh /\ UNCHANGED server /\ Up
             /\ \/ clients'[Default] = clients[Default]
                \/ /\ clients'[Default] # Absent
                   /\ clients[Default].keys \subseteq clients'[Default].keys
  <2>0. PICK c \in Names : c = caller[r].name
    BY <1>c, <1>t DEF Registration, CreateClient, CreateKey, Undo, InsertRule,
                      Respond, Caller, TypeOK
  <2>1. caller[r].phase # "idle" /\ UNCHANGED server
    BY <1>c DEF Registration, CreateClient, CreateKey, Undo, InsertRule, Respond
  <2>2. Up /\ fresh /\ ~ Undo(r)
    BY <1>c, <1>t, <2>1 DEF Attended, Registration, CreateClient, CreateKey,
                            Undo, Delete, InsertRule, Respond, History
  <2>3. CASE CreateClient(r)
    <3>1. CASE clients[c] = Absent
      <4>1. clients' = [clients EXCEPT ![c] = Present("register", FALSE)]
        BY <2>0, <2>3, <3>1 DEF CreateClient, Insert
      <4>2. c # Default \/ clients[Default].keys = {}
        BY <3>1 DEF Absent
      <4>3. Present("register", FALSE) # Absent
        BY DEF Present, Absent
      <4> QED
        BY <1>t, <2>1, <2>2, <4>1, <4>2, <4>3 DEF TypeOK
    <3>2. CASE clients[c] # Absent
      BY <2>0, <2>1, <2>2, <2>3, <3>2 DEF CreateClient
    <3> QED
      BY <3>1, <3>2
  <2>4. CASE CreateKey(r)
    <3>1. CASE clients[c] # Absent
      <4>1. /\ clients' = [clients EXCEPT ![c].keys = clients[c].keys \union {"client"}]
            /\ clients[c] \in Client
        BY <1>t, <2>0, <2>4, <3>1 DEF CreateKey, InsertKey, TypeOK
      <4>2. /\ clients'[c].keys = clients[c].keys \union {"client"}
            /\ c # Default => clients'[Default] = clients[Default]
        BY <1>t, <4>1 DEF Client, TypeOK
      <4>3. clients'[c] # Absent
        BY <4>2 DEF Absent
      <4> QED
        BY <2>1, <2>2, <4>2, <4>3
    <3>2. CASE clients[c] = Absent
      BY <2>0, <2>1, <2>2, <2>4, <3>2 DEF CreateKey
    <3> QED
      BY <3>1, <3>2
  <2>5. CASE InsertRule(r)
    <3>1. CASE clients[c] # Absent
      <4>1. /\ clients' = [clients EXCEPT ![c].star = TRUE]
            /\ clients[c] \in Client
        BY <1>t, <2>0, <2>5, <3>1 DEF InsertRule, TypeOK
      <4>2. /\ clients'[c].keys = clients[c].keys /\ clients'[c].star
            /\ c # Default => clients'[Default] = clients[Default]
        BY <1>t, <4>1 DEF Client, TypeOK
      <4>3. clients'[c] # Absent
        BY <4>2 DEF Absent
      <4> QED
        BY <2>1, <2>2, <4>2, <4>3
    <3>2. CASE clients[c] = Absent
      BY <2>0, <2>1, <2>2, <2>5, <3>2 DEF InsertRule
    <3> QED
      BY <3>1, <3>2
  <2>6. CASE Respond(r)
    BY <2>1, <2>2, <2>6 DEF Respond
  <2> QED
    BY <1>c, <2>2, <2>3, <2>4, <2>5, <2>6 DEF Registration
<1>a. ASSUME NEW c \in Names, Request(c)
      PROVE  /\ fresh /\ UNCHANGED server /\ Up
             /\ \/ clients'[Default] = clients[Default]
                \/ /\ clients'[Default] # Absent
                   /\ clients[Default].keys \subseteq clients'[Default].keys
  <2>1. Up /\ UNCHANGED server
    BY <1>a DEF Request, AdminCreate, AdminDelete, SaveRule, DeleteRule, AddKey,
                DeleteKey, MayChange, Administered
  <2>2. fresh /\ ~ AdminDelete(c) /\ \A kind \in Kinds : ~ DeleteKey(c, kind)
    BY <1>a DEF Request, AdminCreate, AdminDelete, SaveRule, DeleteRule, AddKey,
                DeleteKey, Delete, History
  <2>3. CASE AdminCreate(c)
    <3>1. /\ clients[c] = Absent
          /\ clients' = [clients EXCEPT ![c] = Present("admin", FALSE)]
      BY <2>3 DEF AdminCreate, Insert
    <3>2. c # Default \/ clients[Default].keys = {}
      BY <3>1 DEF Absent
    <3>3. Present("admin", FALSE) # Absent
      BY DEF Present, Absent
    <3> QED
      BY <1>t, <2>1, <2>2, <3>1, <3>2, <3>3 DEF TypeOK
  <2>4. ASSUME NEW kind \in Kinds, AddKey(c, kind)
        PROVE  \/ clients'[Default] = clients[Default]
               \/ /\ clients'[Default] # Absent
                  /\ clients[Default].keys \subseteq clients'[Default].keys
    <3>1. /\ clients' = [clients EXCEPT ![c].keys = clients[c].keys \union {kind}]
          /\ clients[c] \in Client
      BY <1>t, <2>4 DEF AddKey, InsertKey, TypeOK
    <3>2. /\ clients'[c].keys = clients[c].keys \union {kind}
          /\ c # Default => clients'[Default] = clients[Default]
      BY <1>t, <3>1 DEF Client, TypeOK
    <3>3. clients'[c] # Absent
      BY <3>2 DEF Absent
    <3> QED
      BY <3>2, <3>3
  <2>5. CASE SaveRule(c) \/ DeleteRule(c)
    <3>0. clients[c] \in Client
      BY <1>t, <2>5, Row DEF SaveRule, DeleteRule
    <3>1. \/ clients' = [clients EXCEPT ![c].star = TRUE]
          \/ clients' = [clients EXCEPT ![c].star = FALSE]
      BY <2>5 DEF SaveRule, DeleteRule
    <3>2. /\ clients'[c].keys = clients[c].keys
          /\ clients'[c].origin = clients[c].origin
          /\ c # Default => clients'[Default] = clients[Default]
      BY <1>t, <3>0, <3>1 DEF Client, TypeOK
    <3>3. clients'[c] # Absent
      BY <3>0, <3>2 DEF Absent, Client
    <3> QED
      BY <2>1, <2>2, <3>2, <3>3
  <2> QED
    BY <1>a, <2>1, <2>2, <2>3, <2>4, <2>5 DEF Request
<1>n. \/ \E s \in Servers : Boot(s) \/ Stop(s)
      \/ \E r \in Callers : Registration(r) \/ \E c \in Names : Register(r, c)
      \/ \E c \in Names : Request(c)
      \/ UNCHANGED vars
  BY <1>f DEF Next, BootstrapFails, CreateClientFails, CreateKeyFails,
              UndoFails, InsertRuleFails, Drop
<1> QED
  BY <1>u, <1>s, <1>p, <1>b, <1>r, <1>c, <1>a, <1>n

\* On a database without keys, however many servers seed it at once and wherever
\* a crash cuts one off, whoever reaches a server finds the master key.
THEOREM MasterInPlace == Spec => []MasterPresent
<1>1. Init => SeedInv
  <2>1. ASSUME Init PROVE Attended /\ Seeded
    <3>1. /\ \A s \in Servers : server[s] = "down"
          /\ \A r \in Callers : caller[r].phase = "idle"
          /\ \A c \in Names : clients[c] \in {Absent, Present("setup", TRUE)}
      BY <2>1 DEF Init, Answer
    <3>2. \A c \in Names : clients[c].keys = {}
      BY <3>1 DEF Absent, Present
    <3> QED
      BY <3>1, <3>2 DEF Attended, Seeded, Up, Keyed
  <2> QED
    BY <2>1, InitType DEF SeedInv
<1>2. SeedInv => MasterPresent
  BY DEF SeedInv, Seeded, MasterPresent
<1> QED
  BY <1>1, <1>2, SeedStep, PTL DEF Spec

=============================================================================
