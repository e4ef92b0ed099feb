---------------------------- MODULE CheckService ----------------------------
(***************************************************************************)
(* The rate-limit check: the handler of /check (internal/handlers/check.go)*)
(* over the rules in PostgreSQL and the two limiters in Redis, while       *)
(* administrators change the rules (internal/handlers/config.go).          *)
(*                                                                         *)
(* A handler reads the rule of its user and route, runs the limiter that   *)
(* the rule names, and answers: three steps, between which other handlers  *)
(* and administrators take theirs.  What the decision then adds to the     *)
(* global counters is the module Statistics.                               *)
(*                                                                         *)
(* The limiters are those of TokenBucket and SlidingWindow during one      *)
(* burst, in which nothing is refilled and no stamp leaves its window.     *)
(***************************************************************************)
EXTENDS Integers

CONSTANTS
    Handlers,     \* goroutines serving /check
    Users,        \* client names, the user_id of a request
    Routes,
    Star,         \* the route "*" of the rule every registration inserts
    Quotas,       \* capacities and limits of rules
    MinQuota,     \* the smallest of them
    MaxQuota,     \* and the largest
    MaxShared,    \* bound on the requests of a user that share a stamp
    MaxFailures   \* bound on the failures of PostgreSQL, Redis or a server

ASSUME ServiceAssumption ==
    /\ Star \in Routes
    /\ MinQuota \in Nat \ {0}
    /\ MaxQuota \in Nat
    /\ MinQuota <= MaxQuota
    /\ Quotas \subseteq MinQuota .. MaxQuota
    /\ MaxShared \in Nat
    /\ MaxFailures \in Nat

Algorithms == {"token_bucket", "sliding_window"}
Rule == [algorithm : Algorithms, quota : Quotas]
NoRule == [algorithm |-> "none", quota |-> 0]
Absent == -1

VARIABLES
    rules,      \* the table rate_limits: rules[u][r], NoRule if there is no row
    bucket,     \* bucket[u], tokens in "tb:<u>", Absent if there is no hash
    window,     \* window[u], number of stamps in "sw:<u>"
    request,    \* what each handler is doing
    failures,
    \* History:
    grants,     \* grants[u][a], requests of u that the limiter a admitted
    shared      \* shared[u], those whose stamp was in the set already

limits == <<bucket, window, grants, shared>>
vars == <<rules, limits, request, failures>>

Answer(reply) == [phase |-> "idle", reply |-> reply]
Idle == [phase : {"idle"},
         reply : {"none", "allowed", "blocked", "not_found", "error"}]
Working == [phase : {"lookup", "limit", "respond"}, user : Users,
            route : Routes, rule : Rule \union {NoRule}, allowed : BOOLEAN]

Init ==
    /\ rules = [u \in Users |-> [r \in Routes |-> NoRule]]
    /\ bucket = [u \in Users |-> Absent]
    /\ window = [u \in Users |-> 0]
    /\ grants = [u \in Users |-> [a \in Algorithms |-> 0]]
    /\ shared = [u \in Users |-> 0]
    /\ request = [h \in Handlers |-> Answer("none")]
    /\ failures = 0

Fail == failures < MaxFailures /\ failures' = failures + 1

-----------------------------------------------------------------------------
(* Rules: the handlers of /admin/config, one SQL statement each. *)

\* Mutant of Upsert: a new rule starts with a fresh allowance, the keys of both
\* limiters being dropped.
UpsertResets(u, r, rule) ==
    /\ rules' = [rules EXCEPT ![u][r] = rule]
    /\ bucket' = [bucket EXCEPT ![u] = Absent]
    /\ window' = [window EXCEPT ![u] = 0]
    /\ UNCHANGED <<grants, shared, request, failures>>

\* INSERT ... ON CONFLICT DO UPDATE, after Validate.
Upsert(u, r, rule) ==
    /\ rules' = [rules EXCEPT ![u][r] = rule]
    /\ UNCHANGED <<limits, request, failures>>

DeleteRule(u, r) ==
    /\ rules[u][r] # NoRule
    /\ rules' = [rules EXCEPT ![u][r] = NoRule]
    /\ UNCHANGED <<limits, request, failures>>

\* DELETE of a client takes all its rules by the foreign key, and leaves Redis
\* alone: who registers under the name again gets its bucket and window.
DeleteClient(u) ==
    /\ rules' = [rules EXCEPT ![u] = [r \in Routes |-> NoRule]]
    /\ UNCHANGED <<limits, request, failures>>

-----------------------------------------------------------------------------
(* The handler of /check. *)

Receive(h, u, r) ==
    /\ request[h].phase = "idle"
    /\ request' = [request EXCEPT ![h] =
                     [phase |-> "lookup", user |-> u, route |-> r,
                      rule |-> NoRule, allowed |-> FALSE]]
    /\ UNCHANGED <<rules, limits, failures>>

\* GetRateLimitConfig: the row of exactly this user and route.
RuleOf(h) == rules[request[h].user][request[h].route]

Lookup(h) ==
    /\ request[h].phase = "lookup"
    /\ request' = [request EXCEPT ![h] =
                     IF RuleOf(h) = NoRule
                       THEN Answer("not_found")
                       ELSE [request[h] EXCEPT !.phase = "limit",
                                               !.rule = RuleOf(h)]]
    /\ UNCHANGED <<rules, limits, failures>>

\* The query fails: the handler does not tell this from a missing row.
LookupFails(h) ==
    /\ request[h].phase = "lookup"
    /\ Fail
    /\ request' = [request EXCEPT ![h] = Answer("not_found")]
    /\ UNCHANGED <<rules, limits>>

\* Mutant of Tokens: a capacity of less takes its difference away for good.
TokensLost(u, rule) ==
    CASE bucket[u] = Absent -> rule.quota
      [] bucket[u] <= rule.quota -> bucket[u]
      [] OTHER -> 0

\* The tokens that the script of the token bucket finds under a rule, in the
\* hash that all routes of the user share: at most the capacity of this rule.
Tokens(u, rule) ==
    IF bucket[u] = Absent \/ rule.quota < bucket[u] THEN rule.quota
                                                    ELSE bucket[u]

\* Mutant of Allows: the window compares with <= instead of <.
AllowsOneMore(u, rule) ==
    \/ rule.algorithm = "token_bucket" /\ Tokens(u, rule) >= 1
    \/ rule.algorithm = "sliding_window" /\ window[u] <= rule.quota

Allows(u, rule) ==
    \/ rule.algorithm = "token_bucket" /\ Tokens(u, rule) >= 1
    \/ rule.algorithm = "sliding_window" /\ window[u] < rule.quota

\* One run of the limiter's script.  A request whose stamp another request has
\* already added to the set is admitted and adds nothing to it.
RunLimiter(u, rule) ==
    LET taken == IF Allows(u, rule) THEN 1 ELSE 0
    IN  /\ grants' = [grants EXCEPT
                        ![u][rule.algorithm] = grants[u][rule.algorithm] + taken]
        /\ IF rule.algorithm = "token_bucket"
             THEN /\ bucket' = [bucket EXCEPT ![u] = Tokens(u, rule) - taken]
                  /\ UNCHANGED <<window, shared>>
             ELSE /\ UNCHANGED bucket
                  /\ \/ /\ window' = [window EXCEPT ![u] = window[u] + taken]
                        /\ UNCHANGED shared
                     \/ /\ taken = 1 /\ window[u] > 0 /\ shared[u] < MaxShared
                        /\ shared' = [shared EXCEPT ![u] = shared[u] + 1]
                        /\ UNCHANGED window

Limit(h) ==
    LET q == request[h]
    IN  /\ q.phase = "limit"
        /\ RunLimiter(q.user, q.rule)
        /\ request' = [request EXCEPT ![h] =
                         [q EXCEPT !.phase = "respond",
                                   !.allowed = Allows(q.user, q.rule)]]
        /\ UNCHANGED <<rules, failures>>

\* The answer of Redis is lost, its script run or not: the client sends the
\* script again, or the handler answers with an error.
LimitFails(h) ==
    LET q == request[h]
    IN  /\ q.phase = "limit"
        /\ Fail
        /\ RunLimiter(q.user, q.rule) \/ UNCHANGED limits
        /\ request' \in {request, [request EXCEPT ![h] = Answer("error")]}
        /\ UNCHANGED rules

Respond(h) ==
    LET q == request[h]
    IN  /\ q.phase = "respond"
        /\ request' = [request EXCEPT ![h] =
                         Answer(IF q.allowed THEN "allowed" ELSE "blocked")]
        /\ UNCHANGED <<rules, limits, failures>>

\* The server goes down with the requests it was serving: what the limiters
\* took stays taken.
Shutdown ==
    /\ Fail
    /\ request' = [h \in Handlers |->
                     IF request[h].phase = "idle" THEN request[h]
                                                  ELSE Answer("error")]
    /\ UNCHANGED <<rules, limits>>

Handle(h) == Lookup(h) \/ Limit(h) \/ Respond(h)

Next ==
    \/ \E u \in Users, r \in Routes :
         \/ \E rule \in Rule : Upsert(u, r, rule)
         \/ DeleteRule(u, r)
         \/ \E h \in Handlers : Receive(h, u, r)
    \/ \E u \in Users : DeleteClient(u)
    \/ \E h \in Handlers : Handle(h) \/ LookupFails(h) \/ LimitFails(h)
    \/ Shutdown

Spec == Init /\ [][Next]_vars

-----------------------------------------------------------------------------
(* Properties. *)

TypeOK ==
    /\ rules \in [Users -> [Routes -> Rule \union {NoRule}]]
    /\ bucket \in [Users -> {Absent} \union 0 .. MaxQuota]
    /\ window \in [Users -> 0 .. MaxQuota]
    /\ grants \in [Users -> [Algorithms -> Nat]]
    /\ shared \in [Users -> 0 .. MaxShared]
    /\ request \in [Handlers -> Idle \union Working]
    /\ failures \in 0 .. MaxFailures

\* However many routes, rules, rule changes, lost answers and concurrent
\* handlers a user has, a burst gets two allowances in all: the largest capacity
\* from the token bucket, and the largest limit from the sliding window, with
\* the requests that share a stamp on top.  A rule changed to the other algorithm
\* does begin with the allowance of that limiter, which keeps its own key
\* ("tb:<user>", "sw:<user>"); but changing it back and forth, another route, a
\* new rule, or a new client of the same name begins no third, because both keys
\* belong to the name.
BurstBound ==
    \A u \in Users :
        /\ grants[u]["token_bucket"] <= MaxQuota
        /\ grants[u]["sliding_window"] <= MaxQuota + shared[u]

\* A handler refuses only a user who has spent an allowance: with the token
\* bucket the smallest capacity of any rule (another rule may have cut the
\* bucket down to its own), with the sliding window that of the handler's rule,
\* though rules and state may have changed since the handler decided.
RefusedOnlyWhenSpent ==
    \A h \in Handlers :
        LET q == request[h]
        IN  q.phase = "respond" /\ ~ q.allowed =>
              IF q.rule.algorithm = "token_bucket"
                THEN grants[q.user]["token_bucket"] >= MinQuota
                ELSE window[q.user] >= q.rule.quota

\* What both rest on: tokens are neither created nor lost, but for what the
\* smallest and the largest capacity differ by, and the set has a stamp for every
\* admitted request that shares none.
Budget ==
    \A u \in Users :
        /\ IF bucket[u] = Absent
             THEN grants[u]["token_bucket"] = 0
             ELSE bucket[u] + grants[u]["token_bucket"] \in MinQuota .. MaxQuota
        /\ grants[u]["sliding_window"] = window[u] + shared[u]

=============================================================================
