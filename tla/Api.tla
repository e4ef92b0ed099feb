-------------------------------- MODULE Api --------------------------------
(***************************************************************************)
(* What a tab of the dashboard and the server have between them:           *)
(* fetchApi of frontend/src/lib/api.ts, the key it keeps in localStorage,  *)
(* and the endpoints of the Go server that the dashboard calls.            *)
(*                                                                         *)
(* A call is sent with the key that is stored when it starts.  The server  *)
(* answers the calls in any order, and the answers arrive in any order; the*)
(* code that awaits an answer runs on when its component is unmounted.  An *)
(* endpoint is one atomic step here: what its statements do under failures *)
(* is the subject of KeyStore and Registry.                                *)
(***************************************************************************)
EXTENDS Integers, FiniteSets

CONSTANTS
    Keys,         \* API keys, those not generated yet included
    AdminKeys,    \* the ones that start with "admin-"
    NoKey,        \* nothing in localStorage
    Names,        \* names of clients
    Default,      \* the client of scripts/setup.sql
    AdminName,    \* "admin": the client the console names for an admin key
    Windowed,     \* clients whose first rule was made a sliding window
    Routes,
    Star,         \* the route "*"
    Slots,        \* calls a tab may have in flight
    Limits        \* what a behaviour may contain: one record is chosen

ASSUME ApiAssumption ==
    /\ AdminKeys \subseteq Keys /\ NoKey \notin Keys
    /\ Default \in Names /\ AdminName \notin Names
    /\ Star \in Routes /\ Windowed \subseteq Names

\* owner: the keys that exist from the start, with their clients; the routes
\* each client has a rule for; the names a user types; the pages visited; and
\* bounds on changes of the tables, failed requests, and switches of the stored
\* key by other tabs.
ASSUME LimitsAssumption ==
    \A limit \in Limits :
        /\ DOMAIN limit.owner \subseteq Keys
        /\ \A k \in DOMAIN limit.owner : limit.owner[k] \in Names
        /\ limit.routes \subseteq Routes /\ limit.names \subseteq Names
        /\ limit.pages \subseteq {"overview", "keys", "rules", "clients"}
        /\ {limit.changes, limit.failures, limit.switches} \subseteq Nat

VARIABLES
    limits,       \* the member of Limits chosen
    stored,       \* throttl_admin_key in localStorage
    calls,        \* the calls in flight
    apiKeys, clients, rules,   \* the tables, as sets of rows
    issued,       \* keys that were generated, deleted ones included
    changes,      \* how often the tables were changed
    failures

tables == <<apiKeys, clients, rules, issued, changes>>
apiVars == <<limits, stored, calls, tables, failures>>

Parts == {"keys", "clients", "rules"}
Bucket(limit, refill, capacity, window) ==
    [algorithm |-> "token_bucket", limit |-> limit, refill |-> refill,
     capacity |-> capacity, window |-> window]

Window(limit, window) ==
    [Bucket(limit, 0, 0, window) EXCEPT !.algorithm = "sliding_window"]

NoCall == [op |-> "none"]

ApiInit ==
    /\ stored = NoKey
    /\ calls = [s \in Slots |-> NoCall]
    /\ limits \in Limits
    /\ issued = DOMAIN limits.owner
    /\ apiKeys = {[key |-> k, owner |-> limits.owner[k], active |-> TRUE] :
                      k \in issued}
    /\ clients = {Default} \union {row.owner : row \in apiKeys}
    /\ rules = {[client |-> c, route |-> r,
                 content |-> IF c \in Windowed THEN Window(100, 5)
                             ELSE Bucket(100, 1, 10, 60)] :
                     c \in clients, r \in limits.routes}
    /\ changes = 0
    /\ failures = 0

-----------------------------------------------------------------------------
(* The dashboard's side: fetchApi. *)

IsAdmin(k) == k \in AdminKeys

\* A call and, once it is answered, the answer: code, the rows of a list
\* (body), a generated key (made), the number of changes it shows (at).
\* load: the page shows its spinner until the call is answered; then: the
\* lists the code that awaits the call fetches next.
Call(op, arg) ==
    [op |-> op, arg |-> arg, key |-> stored, live |-> TRUE, code |-> "sent",
     body |-> <<>>, made |-> NoKey, at |-> 0, load |-> FALSE, then |-> {}]
\* Mutant of Refreshing: the lists are not fetched again.
NoRefresh(op, arg, parts) == Call(op, arg)

Refreshing(op, arg, parts) == [Call(op, arg) EXCEPT !.then = parts]
Fetch(parts, load) == [Call("list", [parts |-> parts]) EXCEPT !.load = load]

Idle(s) == calls[s].op = "none"
Send(c) == \E s \in Slots : Idle(s) /\ calls' = [calls EXCEPT ![s] = c]
SendBoth(c, d) ==
    \E s, t \in Slots :
        /\ s # t /\ Idle(s) /\ Idle(t)
        /\ calls' = [calls EXCEPT ![s] = c, ![t] = d]

Mutations == {"createKey", "deleteKey", "rotateKey", "revokeKey", "putRule",
              "deleteRule", "createClient", "updateClient", "deleteClient",
              "register"}
Pending == {s \in Slots : calls[s].op \in Mutations /\ calls[s].code = "sent"}
\* Only as many changes are asked for as the limits allow.
Budget == changes + Cardinality(Pending) < limits.changes

Answered(s) == ~Idle(s) /\ calls[s].code # "sent"
Live(s) == ~Idle(s) /\ calls[s].live

\* A call whose component is gone.  Its answer has no effect any more except
\* through FollowUp and fetchApi itself, so what it lists is left out.
GoesOn(c) ==
    c.then # {} /\ (c.op = "list" \/ c.code \notin {"failed", "unauthorized"})
Forget(c) ==
    IF \/ c.op = "none"
       \/ c.op # "login" /\ c.code \in {"ok", "failed"} /\ ~GoesOn(c)
      THEN NoCall
    ELSE [c EXCEPT !.live = FALSE, !.load = FALSE, !.body = <<>>, !.at = 0,
                   !.made = NoKey, !.then = IF @ = {} THEN {} ELSE {"keys"},
                   !.arg = IF c.op = "list" THEN [parts |-> {"keys"}] ELSE @]

\* What the code that awaits the call in s sends next: after a mutation its
\* refresh, if it succeeded; in loadStats the second half, in any case.
FollowUp(s, key) ==
    LET c == calls[s]
        next == [Fetch(c.then, c.load) EXCEPT !.key = key,
                           !.body = IF c.code = "ok" THEN c.body ELSE <<>>]
    IN  IF ~GoesOn(c) THEN NoCall ELSE IF c.live THEN next ELSE Forget(next)
Consume(s) == calls' = [calls EXCEPT ![s] = FollowUp(s, stored)]

\* The answer to a call of a component that is gone.
DeadAnswer(s) ==
    /\ Answered(s) /\ ~Live(s)
    /\ calls[s].op # "login" /\ calls[s].code # "unauthorized"
    /\ Consume(s)
    /\ UNCHANGED <<limits, stored, tables, failures>>

-----------------------------------------------------------------------------
(* The server's side. *)

Valid(k) == \E row \in apiKeys : row.key = k /\ row.active
OwnerOf(k) == (CHOOSE row \in apiKeys : row.key = k).owner
Own(k, name) == IsAdmin(k) \/ name = OwnerOf(k)

\* The rows of a table the key k may list.  To a client the hashes of its own
\* keys are shown cut off: masked.
Listed(part, k) ==
    CASE part = "keys" ->
           {[key |-> row.key, owner |-> row.owner, active |-> row.active,
             masked |-> ~IsAdmin(k)] :
                 row \in {r \in apiKeys : Own(k, r.owner)}}
      [] part = "clients" -> {name \in clients : Own(k, name)}
      [] part = "rules" -> {row \in rules : Own(k, row.client)}

Reply(s, code) == calls' = [calls EXCEPT ![s].code = code]

\* Lists of one Promise.all are read one by one.
ServeList(s, part) ==
    LET c == calls[s]
        read == DOMAIN c.body \union {part}
    IN  /\ c.op = "list" /\ c.code = "sent" /\ Valid(c.key)
        /\ part \in c.arg.parts \ DOMAIN c.body
        /\ calls' = [calls EXCEPT
             ![s].body = [p \in read |-> IF p = part THEN Listed(p, c.key)
                                                     ELSE c.body[p]],
             ![s].at = IF c.arg.parts \intersect DOMAIN c.body = {}
                         THEN changes ELSE c.at,
             ![s].code = IF c.arg.parts \subseteq read THEN "ok" ELSE "sent"]
        /\ UNCHANGED <<limits, stored, tables, failures>>

\* The key rows a call names: its hash must be whole, and its owner right.
Named(c) == {row \in apiKeys : /\ row.key = c.arg.row.key
                               /\ ~c.arg.row.masked
                               /\ Own(c.key, row.owner)}
Same(row) == {r \in rules : r.client = row.client /\ r.route = row.route}
Validated(content) ==
    /\ content.limit > 0
    /\ content.algorithm = "token_bucket" =>
          content.refill > 0 /\ content.capacity > 0
    /\ content.algorithm = "sliding_window" => content.window > 0
Fresh(admin) == {k \in Keys \ issued : IsAdmin(k) = admin}

\* What the handler and its statement ask for before they change anything.
Accepts(c) ==
    \/ c.op = "createKey" /\ c.arg.client \in clients
                          /\ Own(c.key, c.arg.client)
    \/ c.op \in {"deleteKey", "revokeKey"} /\ Named(c) # {}
    \/ c.op = "rotateKey" /\ \E row \in Named(c) : row.active
    \/ c.op = "putRule" /\ c.arg.row.client \in clients
                        /\ Own(c.key, c.arg.row.client)
                        /\ Validated(c.arg.row.content)
    \/ c.op = "deleteRule" /\ Same(c.arg.row) # {}
                           /\ Own(c.key, c.arg.row.client)
    \/ c.op = "createClient" /\ IsAdmin(c.key) /\ c.arg.name \notin clients
    \/ c.op \in {"updateClient", "deleteClient"}
         /\ IsAdmin(c.key) /\ c.arg.name \in clients
    \/ c.op = "register" /\ c.arg.name \notin clients

\* The change itself; the answer holds a new key if one was made.
Insert(s, k, owner, old) ==
    /\ apiKeys' = (apiKeys \ old) \union
                  {[row EXCEPT !.active = FALSE] : row \in old} \union
                  {[key |-> k, owner |-> owner, active |-> TRUE]}
    /\ issued' = issued \union {k}
    /\ calls' = [calls EXCEPT ![s].code = "ok", ![s].made = k,
                              ![s].at = changes + 1]

Done(s) == calls' = [calls EXCEPT ![s].code = "ok", ![s].at = changes + 1]

ServeKeys(s) ==
    LET c == calls[s] IN
    \/ /\ c.op = "createKey"
       /\ \E k \in Fresh(FALSE) : Insert(s, k, c.arg.client, {})
    \/ /\ c.op = "rotateKey"
       /\ \E row \in Named(c), k \in Fresh(IsAdmin(c.arg.row.key)) :
             Insert(s, k, row.owner, {row})
    \/ /\ c.op = "revokeKey"
       /\ apiKeys' = (apiKeys \ Named(c)) \union
                     {[row EXCEPT !.active = FALSE] : row \in Named(c)}
       /\ Done(s) /\ UNCHANGED issued
    \/ /\ c.op = "deleteKey"
       /\ apiKeys' = apiKeys \ Named(c)
       /\ Done(s) /\ UNCHANGED issued

\* Mutant of ServeRules: an INSERT without ON CONFLICT DO UPDATE.
InsertRuleOnly(s) ==
    LET c == calls[s] IN
    /\ c.op = "putRule"
    /\ rules' = rules \union {c.arg.row}
    /\ Done(s)

ServeRules(s) ==
    LET c == calls[s] IN
    \/ /\ c.op = "putRule"
       /\ rules' = (rules \ Same(c.arg.row)) \union {c.arg.row}
       /\ Done(s)
    \/ /\ c.op = "deleteRule"
       /\ rules' = rules \ Same(c.arg.row)
       /\ Done(s)

\* DELETE cascades to the keys and the rules of the client.
ServeClients(s) ==
    LET c == calls[s] IN
    \/ /\ c.op = "createClient"
       /\ clients' = clients \union {c.arg.name}
       /\ Done(s) /\ UNCHANGED <<apiKeys, rules>>
    \/ /\ c.op = "updateClient"
       /\ Done(s) /\ UNCHANGED <<clients, apiKeys, rules>>
    \/ /\ c.op = "deleteClient"
       /\ clients' = clients \ {c.arg.name}
       /\ apiKeys' = {row \in apiKeys : row.owner # c.arg.name}
       /\ rules' = {row \in rules : row.client # c.arg.name}
       /\ Done(s)

\* /public/register: the client, its first key and its rule for "*".
ServeRegister(s) ==
    LET c == calls[s] IN
    /\ c.op = "register"
    /\ clients' = clients \union {c.arg.name}
    /\ rules' = rules \union {[client |-> c.arg.name, route |-> Star,
                               content |-> Bucket(100, 1, 10, 60)]}
    /\ \E k \in Fresh(FALSE) : Insert(s, k, c.arg.name, {})

Authorized(c) == c.op = "register" \/ Valid(c.key)

Serve(s) ==
    /\ ~Idle(s) /\ calls[s].code = "sent"
    /\ Authorized(calls[s]) /\ Accepts(calls[s])
    /\ \/ ServeKeys(s) /\ UNCHANGED <<clients, rules>>
       \/ ServeRules(s) /\ UNCHANGED <<apiKeys, clients, issued>>
       \/ ServeClients(s) /\ UNCHANGED issued
       \/ ServeRegister(s)
    /\ changes' = changes + 1
    /\ UNCHANGED <<limits, stored, failures>>

\* The login form asks for the list of keys, only to see whether it may.
ServeLogin(s) ==
    /\ calls[s].op = "login" /\ calls[s].code = "sent" /\ Valid(calls[s].key)
    /\ Reply(s, "ok")
    /\ UNCHANGED <<limits, stored, tables, failures>>

\* APIKeyAuth: no key, an unknown one or an inactive one.
Reject(s) ==
    /\ ~Idle(s) /\ calls[s].code = "sent" /\ ~Authorized(calls[s])
    /\ Reply(s, "unauthorized")
    /\ UNCHANGED <<limits, stored, tables, failures>>

\* A handler refuses.  Rotation and revocation may fail whatever they ask
\* for: they write a column that scripts/setup.sql does not have.
Refuse(s) ==
    /\ ~Idle(s) /\ calls[s].code = "sent" /\ Authorized(calls[s])
    /\ calls[s].op \in Mutations
    /\ ~Accepts(calls[s]) \/ calls[s].op \in {"rotateKey", "revokeKey"}
    /\ Reply(s, "failed")
    /\ UNCHANGED <<limits, stored, tables, failures>>

\* The request or its answer is lost, or the server fails; when the database
\* fails under APIKeyAuth, that too is answered with 401.
Fail(s) ==
    /\ ~Idle(s) /\ failures < limits.failures
    /\ calls[s].code \in {"sent", "ok"}
    /\ \/ Reply(s, "failed")
       \/ /\ calls[s].op # "register" /\ calls[s].code = "sent"
          /\ Reply(s, "unauthorized")
    /\ failures' = failures + 1
    /\ UNCHANGED <<limits, stored, tables>>

\* Somebody else: another tab, another administrator, a new client.
Others ==
    /\ Budget
    /\ \/ \E row \in apiKeys :
            apiKeys' = apiKeys \ {row} /\ UNCHANGED <<clients, rules>>
       \/ \E name \in limits.names \ clients :
            clients' = clients \union {name} /\ UNCHANGED <<apiKeys, rules>>
       \/ \E row \in rules :
            rules' = rules \ {row} /\ UNCHANGED <<apiKeys, clients>>
    /\ changes' = changes + 1
    /\ UNCHANGED <<limits, stored, calls, issued, failures>>

Server ==
    \/ \E s \in Slots :
         \/ \E part \in Parts : ServeList(s, part)
         \/ Serve(s) \/ ServeLogin(s) \/ Reject(s) \/ Refuse(s) \/ Fail(s)
    \/ Others
=============================================================================
