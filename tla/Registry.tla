------------------------------ MODULE Registry ------------------------------
(***************************************************************************)
(* Where clients, their keys and their rule for "*" come from and go to:    *)
(* the handlers of /public/register and /admin/clients (handlers/clients.go*)
(* over storage/clients.go), the creation and deletion of keys and rules   *)
(* (handlers/admin.go, handlers/config.go), and BootstrapMasterKey         *)
(* (storage/apikeys.go), with which a server seeds an empty database before*)
(* it serves.  Revoking, rotating and expiring a key take no row away, and *)
(* are the module KeyStore.                                                *)
(*                                                                         *)
(* A registration takes three statements in a row without a transaction:   *)
(* client, key, rule.  When the key fails it deletes the client again; when*)
(* the rule fails it only writes a warning.  Servers, registrations,       *)
(* administrators and the clients themselves share the tables.             *)
(***************************************************************************)
EXTENDS Integers, FiniteSets

CONSTANTS
    Names,        \* names of clients
    Default,      \* the client that owns the master key
    Servers,
    Callers,      \* goroutines serving /public/register
    MaxFailures,  \* bound on failures of the database and deaths of callers
    MaxChanges    \* bound on the changes that requests to /admin make

ASSUME RegistryAssumption ==
    /\ Default \in Names
    /\ MaxFailures \in Nat
    /\ MaxChanges \in Nat

VARIABLES
    clients,    \* the table clients: clients[c], Absent if there is no row;
                \* keys: the kinds of keys c has in api_keys; star: has c a
                \* rule for "*"
    server,     \* how far each server has come
    caller,     \* what each registration is doing
    failures,
    changes,    \* how many changes of the tables /admin has made
    \* History:
    promised,   \* clients whose registration was answered with success, and
                \* who were neither deleted nor rid of their last key since
    disputed,   \* names for which that was done under a registration
    stripped,   \* clients whose last key or whose rule was deleted
    fresh       \* had the database no key when the first server was started,
                \* and did no statement delete one or fail since?

History == <<promised, disputed, stripped, fresh>>
vars == <<clients, server, caller, failures, changes, History>>

\* The types of keys.  The master key is an administrator's key of Default.
Kinds == {"client", "admin"}

Absent == [origin |-> "none", keys |-> {}, star |-> FALSE]
Present(origin, star) == [origin |-> origin, keys |-> {}, star |-> star]
Client == [origin : {"setup", "admin", "register"}, keys : SUBSET Kinds,
           star : BOOLEAN]

Answer(reply) == [phase |-> "idle", reply |-> reply]
Caller ==
    [phase : {"idle"}, reply : {"none", "success", "taken", "error"}]
    \union [phase : {"client", "key", "undo", "rule", "reply"}, name : Names]

\* scripts/setup.sql inserts the client Default and its rule, but no key.
Init ==
    /\ clients = [c \in Names |-> IF c = Default THEN Present("setup", TRUE)
                                                 ELSE Absent]
    /\ server = [s \in Servers |-> "down"]
    /\ caller = [r \in Callers |-> Answer("none")]
    /\ failures = 0
    /\ changes = 0
    /\ promised = {}
    /\ disputed = {}
    /\ stripped = {}
    /\ fresh = TRUE

Fail == failures < MaxFailures /\ failures' = failures + 1
Change == changes < MaxChanges /\ changes' = changes + 1
Keyed == \E c \in Names : clients[c].keys # {}
Up == \E s \in Servers : server[s] = "up"
Goto(s, phase) == server' = [server EXCEPT ![s] = phase]
Step(r, phase) ==
    caller' = [caller EXCEPT ![r] = [phase |-> phase, name |-> caller[r].name]]
Reply(r, reply) == caller' = [caller EXCEPT ![r] = Answer(reply)]

\* A registration that has inserted its client and is not answered.
Past(r, c) ==
    /\ caller[r].phase \in {"key", "undo", "rule", "reply"}
    /\ caller[r].name = c

-----------------------------------------------------------------------------
(* The statements on the tables. *)

\* INSERT of a client: the name is the primary key.
Insert(c, origin) == clients' = [clients EXCEPT ![c] = Present(origin, FALSE)]

\* DELETE of a client: keys and rules go with it, by the foreign keys.
Delete(c) ==
    /\ clients' = [clients EXCEPT ![c] = Absent]
    /\ stripped' = stripped \ {c}
    /\ fresh' = FALSE

\* INSERT of a key: the foreign key wants the client to be there.
InsertKey(c, kind) ==
    clients' = [clients EXCEPT ![c].keys = clients[c].keys \union {kind}]

\* Nothing is promised any longer to a client whom a request has deleted or
\* rid of his last key; to one under registration nothing is from then on,
\* until he is deleted again with no registration of the name under way.
Release(c) ==
    /\ promised' = promised \ {c}
    /\ disputed' = IF \E r \in Callers : Past(r, c) THEN disputed \union {c}
                                                    ELSE disputed \ {c}

-----------------------------------------------------------------------------
(* main: BootstrapMasterKey, then serve, whatever it returned. *)

Start(s) ==
    /\ server[s] = "down"
    /\ Goto(s, "count")
    /\ fresh' = IF \A t \in Servers : server[t] = "down" THEN ~ Keyed ELSE fresh
    /\ UNCHANGED <<clients, caller, failures, changes, promised, disputed,
                   stripped>>

\* Mutant of CountKeys: clients are counted, not keys.
CountClients(s) ==
    /\ server[s] = "count"
    /\ Goto(s, IF \E c \in Names : clients[c] # Absent THEN "up" ELSE "lookup")
    /\ UNCHANGED <<clients, caller, failures, changes, History>>

CountKeys(s) ==
    /\ server[s] = "count"
    /\ Goto(s, IF Keyed THEN "up" ELSE "lookup")
    /\ UNCHANGED <<clients, caller, failures, changes, History>>

LookupDefault(s) ==
    /\ server[s] = "lookup"
    /\ Goto(s, IF clients[Default] = Absent THEN "default" ELSE "master")
    /\ UNCHANGED <<clients, caller, failures, changes, History>>

\* Another server may have inserted it meanwhile: an error, and this server
\* serves whether or not the other has come to insert the master key.
InsertDefault(s) ==
    /\ server[s] = "default"
    /\ IF clients[Default] = Absent
         THEN Insert(Default, "setup") /\ Goto(s, "master") /\ UNCHANGED fresh
         ELSE UNCHANGED clients /\ Goto(s, "up") /\ fresh' = FALSE
    /\ UNCHANGED <<caller, failures, changes, promised, disputed, stripped>>

\* Another server may have inserted the same hash, or the client be gone.
InsertMaster(s) ==
    /\ server[s] = "master"
    /\ IF clients[Default] = Absent THEN UNCHANGED clients
                                   ELSE InsertKey(Default, "admin")
    /\ Goto(s, "up")
    /\ UNCHANGED <<caller, failures, changes, History>>

\* A statement of the bootstrap fails: the error is logged.
BootstrapFails(s) ==
    /\ server[s] \in {"count", "lookup", "default", "master"}
    /\ Fail
    /\ Goto(s, "up")
    /\ UNCHANGED <<clients, caller, changes, History>>

\* A server is stopped, or crashes in the middle of its bootstrap.  With the
\* last server that is up go the registrations under way (Drop).
Stop(s) ==
    /\ server[s] # "down"
    /\ \/ \E t \in Servers \ {s} : server[t] = "up"
       \/ \A r \in Callers : caller[r].phase = "idle"
    /\ Goto(s, "down")
    /\ UNCHANGED <<clients, caller, failures, changes, History>>

-----------------------------------------------------------------------------
(* RegisterHandler. *)

Register(r, c) ==
    /\ Up
    /\ caller[r].phase = "idle"
    /\ caller' = [caller EXCEPT ![r] = [phase |-> "client", name |-> c]]
    /\ UNCHANGED <<clients, server, failures, changes, History>>

\* Mutant of CreateClient: a name that is taken is deleted like a failure.
CreateOrUndo(r) ==
    LET c == caller[r].name
    IN  /\ caller[r].phase = "client"
        /\ IF clients[c] = Absent
             THEN Insert(c, "register") /\ Step(r, "key")
             ELSE UNCHANGED clients /\ Step(r, "undo")
        /\ UNCHANGED <<server, failures, changes, History>>

CreateClient(r) ==
    LET c == caller[r].name
    IN  /\ caller[r].phase = "client"
        /\ IF clients[c] = Absent
             THEN Insert(c, "register") /\ Step(r, "key")
             ELSE UNCHANGED clients /\ Reply(r, "taken")
        /\ UNCHANGED <<server, failures, changes, History>>

\* Any error, the INSERT executed or not, is answered as a name taken.
CreateClientFails(r) ==
    LET c == caller[r].name
    IN  /\ caller[r].phase = "client"
        /\ Fail
        /\ \/ clients[c] = Absent /\ Insert(c, "register")
           \/ UNCHANGED clients
        /\ Reply(r, "taken")
        /\ UNCHANGED <<server, changes, History>>

\* Mutant of CreateKey: the rule is forgotten.
CreateKeyOnly(r) ==
    LET c == caller[r].name
    IN  /\ caller[r].phase = "key"
        /\ \/ /\ clients[c] # Absent
              /\ InsertKey(c, "client")
              /\ Step(r, "reply")
           \/ clients[c] = Absent /\ UNCHANGED clients /\ Step(r, "undo")
        /\ UNCHANGED <<server, failures, changes, History>>

\* INSERT INTO api_keys: the client may be gone again.
CreateKey(r) ==
    LET c == caller[r].name
    IN  /\ caller[r].phase = "key"
        /\ IF clients[c] # Absent
             THEN /\ InsertKey(c, "client")
                  /\ Step(r, "rule")
             ELSE UNCHANGED clients /\ Step(r, "undo")
        /\ UNCHANGED <<server, failures, changes, History>>

CreateKeyFails(r) ==
    LET c == caller[r].name
    IN  /\ caller[r].phase = "key"
        /\ Fail
        /\ \/ /\ clients[c] # Absent
              /\ InsertKey(c, "client")
           \/ UNCHANGED clients
        /\ Step(r, "undo")
        /\ UNCHANGED <<server, changes, History>>

\* DeleteClient, whose outcome nobody looks at.
Undo(r) ==
    /\ caller[r].phase = "undo"
    /\ Delete(caller[r].name)
    /\ Reply(r, "error")
    /\ UNCHANGED <<server, failures, changes, promised, disputed>>

UndoFails(r) ==
    /\ caller[r].phase = "undo"
    /\ Fail
    /\ Reply(r, "error")
    /\ UNCHANGED <<clients, server, changes, History>>

\* UpsertRateLimitConfig: an error is a warning in the log.
InsertRule(r) ==
    LET c == caller[r].name
    IN  /\ caller[r].phase = "rule"
        /\ clients' = IF clients[c] = Absent
                        THEN clients
                        ELSE [clients EXCEPT ![c].star = TRUE]
        /\ Step(r, "reply")
        /\ UNCHANGED <<server, failures, changes, History>>

InsertRuleFails(r) ==
    /\ caller[r].phase = "rule"
    /\ Fail
    /\ Step(r, "reply")
    /\ UNCHANGED <<clients, server, changes, History>>

Respond(r) ==
    /\ caller[r].phase = "reply"
    /\ promised' = promised \union {caller[r].name}
    /\ Reply(r, "success")
    /\ UNCHANGED <<clients, server, failures, changes, disputed, stripped,
                   fresh>>

\* The server dies under the registration.
Drop(r) ==
    /\ caller[r].phase # "idle"
    /\ Fail
    /\ Reply(r, "error")
    /\ UNCHANGED <<clients, server, changes, History>>

-----------------------------------------------------------------------------
(* The handlers of /admin: one statement each, on behalf of an            *)
(* administrator or of the client itself.                                  *)

Administered == Up /\ \E c \in Names : "admin" \in clients[c].keys

\* Who has a key of c, or an administrator's, may change keys and rules of c.
MayChange(c) == Administered \/ (Up /\ clients[c].keys # {})

AdminCreate(c) ==
    /\ Administered
    /\ clients[c] = Absent
    /\ Insert(c, "admin")
    /\ Change
    /\ UNCHANGED <<server, caller, failures, History>>

AdminDelete(c) ==
    /\ Administered
    /\ clients[c] # Absent
    /\ Release(c)
    /\ Delete(c)
    /\ Change
    /\ UNCHANGED <<server, caller, failures>>

\* Only an administrator makes administrators' keys.
AddKey(c, kind) ==
    /\ IF kind = "admin" THEN Administered ELSE MayChange(c)
    /\ clients[c] # Absent
    /\ InsertKey(c, kind)
    /\ Change
    /\ UNCHANGED <<server, caller, failures, History>>

\* The last key of a kind is deleted; the master key is a key like another.
DeleteKey(c, kind) ==
    /\ MayChange(c)
    /\ kind \in clients[c].keys
    /\ clients' = [clients EXCEPT ![c].keys = clients[c].keys \ {kind}]
    /\ fresh' = FALSE
    /\ IF clients[c].keys = {kind}
         THEN Release(c) /\ stripped' = stripped \union {c}
         ELSE UNCHANGED <<promised, disputed, stripped>>
    /\ Change
    /\ UNCHANGED <<server, caller, failures>>

\* The rule for "*" is saved; the other rules are the module CheckService.
SaveRule(c) ==
    /\ MayChange(c)
    /\ clients[c] # Absent
    /\ clients' = [clients EXCEPT ![c].star = TRUE]
    /\ Change
    /\ UNCHANGED <<server, caller, failures, History>>

DeleteRule(c) ==
    /\ MayChange(c)
    /\ clients[c].star
    /\ clients' = [clients EXCEPT ![c].star = FALSE]
    /\ stripped' = stripped \union {c}
    /\ Change
    /\ UNCHANGED <<server, caller, failures, promised, disputed, fresh>>

Boot(s) ==
    \/ Start(s) \/ CountKeys(s) \/ LookupDefault(s)
    \/ InsertDefault(s) \/ InsertMaster(s)

Registration(r) ==
    \/ CreateClient(r) \/ CreateKey(r) \/ Undo(r)
    \/ InsertRule(r) \/ Respond(r)

Request(c) ==
    \/ AdminCreate(c) \/ AdminDelete(c) \/ SaveRule(c) \/ DeleteRule(c)
    \/ \E kind \in Kinds : AddKey(c, kind) \/ DeleteKey(c, kind)

Next ==
    \/ \E s \in Servers : Boot(s) \/ BootstrapFails(s) \/ Stop(s)
    \/ \E r \in Callers :
         \/ \E c \in Names : Register(r, c)
         \/ Registration(r)
         \/ CreateClientFails(r) \/ CreateKeyFails(r) \/ UndoFails(r)
         \/ InsertRuleFails(r) \/ Drop(r)
    \/ \E c \in Names : Request(c)

Spec == Init /\ [][Next]_vars

-----------------------------------------------------------------------------
(* Properties. *)

TypeOK ==
    /\ clients \in [Names -> Client \union {Absent}]
    /\ server \in [Servers -> {"down", "count", "lookup", "default", "master", "up"}]
    /\ caller \in [Callers -> Caller]
    /\ failures \in 0 .. MaxFailures
    /\ changes \in 0 .. MaxChanges
    /\ promised \subseteq Names
    /\ disputed \subseteq Names
    /\ stripped \subseteq Names
    /\ fresh \in BOOLEAN

\* Who was told that he is registered stays so, with a key, until a request
\* deletes the client or the last of his keys: neither a second registration of
\* the name nor one that fails and cleans up takes client or key away.  Names
\* deleted under a registration that had inserted them are left out: that
\* registration goes on, with whatever client bears the name by then.
RegisteredStays ==
    \A c \in promised \ disputed :
        clients[c].origin = "register" /\ clients[c].keys # {}

\* Registrations that have not yet answered.
Busy(c) == \E r \in Callers : caller[r].phase # "idle" /\ caller[r].name = c

\* A client who registered himself is complete, with a key and the rule for
\* "*", or his registration is not over, or a request has deleted what he
\* lacks; but for one client per failure.
HalfBounded ==
    Cardinality({c \in Names \ stripped :
                    /\ clients[c].origin = "register"
                    /\ ~ (clients[c].keys # {} /\ clients[c].star)
                    /\ ~ Busy(c)})
        <= failures

\* When the first server to be started finds a database without keys, whoever
\* reaches a server finds the master key in place: however many servers seed the
\* database at once, wherever a crash has cut off the bootstrap before, and
\* whatever is registered from then on.  A failure, or a request that deletes a
\* client or a key, ends this, and so does the race of two servers to insert the
\* client Default, whose loser does not wait for the master key.
MasterPresent ==
    Up /\ failures = 0 /\ fresh => "admin" \in clients[Default].keys

=============================================================================
