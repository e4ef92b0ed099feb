------------------------- MODULE CheckServiceProofs -------------------------
(***************************************************************************)
(* Proofs about CheckService, for every number of handlers, users, routes, *)
(* failures and every set of quotas.                                       *)
(***************************************************************************)
EXTENDS CheckService, TLAPS

USE ServiceAssumption DEF ServiceAssumption, Rule, NoRule, Absent, Algorithms, Idle, Working, Answer

\* A rule that is there has a quota within the bounds.
LEMMA Quota ==
    ASSUME NEW rule \in Rule
    PROVE  /\ rule.quota \in Nat
           /\ MinQuota <= rule.quota /\ rule.quota <= MaxQuota
           /\ MinQuota \in Nat /\ MinQuota >= 1 /\ MaxQuota \in Nat
<1>1. rule.quota \in Quotas
  BY DEF Rule
<1>2. /\ rule.quota \in MinQuota .. MaxQuota
      /\ MinQuota \in Nat \ {0}
      /\ MaxQuota \in Nat
  BY <1>1
<1> QED
  BY <1>2

\* What one run of a limiter does to tokens and stamps: as many are gone from
\* the bucket as were granted, except those beyond the rule's capacity, as many
\* are in the set as were granted, except those that shared a stamp, and nothing
\* is gone when the request is refused.
LEMMA RunKeeps ==
    ASSUME TypeOK, Budget, NEW u \in Users, NEW rule \in Rule,
           RunLimiter(u, rule)
    PROVE  /\ bucket' \in [Users -> {Absent} \union 0 .. MaxQuota]
           /\ window' \in [Users -> 0 .. MaxQuota]
           /\ grants' \in [Users -> [Algorithms -> Nat]]
           /\ shared' \in [Users -> 0 .. MaxShared]
           /\ Budget'
           /\ \A v \in Users : /\ grants[v]["token_bucket"] <= grants'[v]["token_bucket"]
                               /\ window[v] <= window'[v]
           /\ ~ Allows(u, rule) =>
                IF rule.algorithm = "token_bucket"
                  THEN grants'[u]["token_bucket"] >= MinQuota
                  ELSE window'[u] >= rule.quota
<1> USE Quota
<1> DEFINE taken == IF Allows(u, rule) THEN 1 ELSE 0
<1> DEFINE tb == grants[u]["token_bucket"]
<1> DEFINE sw == grants[u]["sliding_window"]
<1>0. /\ tb \in Nat /\ sw \in Nat /\ window[u] \in 0 .. MaxQuota
      /\ shared[u] \in 0 .. MaxShared /\ sw = window[u] + shared[u]
      /\ taken \in {0, 1}
  BY DEF TypeOK, Budget
<1>v. /\ grants' = [grants EXCEPT
                      ![u][rule.algorithm] = grants[u][rule.algorithm] + taken]
      /\ \A v \in Users \ {u} : grants'[v] = grants[v]
  BY DEF RunLimiter, TypeOK
<1>1. CASE rule.algorithm = "token_bucket"
  <2>1. /\ bucket' = [bucket EXCEPT ![u] = Tokens(u, rule) - taken]
        /\ window' = window /\ shared' = shared
    BY <1>1 DEF RunLimiter
  <2>2. /\ Tokens(u, rule) \in 0 .. MaxQuota
        /\ Tokens(u, rule) + tb \in MinQuota .. MaxQuota
        /\ Allows(u, rule) <=> Tokens(u, rule) >= 1
    <3>1. CASE bucket[u] = Absent
      BY <3>1, <1>0, <1>1 DEF Tokens, Allows, Budget, TypeOK
    <3>2. CASE bucket[u] # Absent
      BY <3>2, <1>0, <1>1 DEF Tokens, Allows, Budget, TypeOK
    <3> QED
      BY <3>1, <3>2
  <2>3. /\ Tokens(u, rule) - taken \in 0 .. MaxQuota
        /\ Tokens(u, rule) - taken + (tb + taken) \in MinQuota .. MaxQuota
    BY <1>0, <2>2
  <2>4. /\ bucket'[u] = Tokens(u, rule) - taken
        /\ grants'[u]["token_bucket"] = tb + taken
        /\ grants'[u]["sliding_window"] = sw
        /\ \A v \in Users \ {u} : bucket'[v] = bucket[v]
    BY <1>1, <1>v, <2>1 DEF TypeOK
  <2>5. Budget'
    <3> SUFFICES ASSUME NEW v \in Users
                 PROVE  /\ IF bucket'[v] = Absent
                             THEN grants'[v]["token_bucket"] = 0
                             ELSE bucket'[v] + grants'[v]["token_bucket"]
                                    \in MinQuota .. MaxQuota
                        /\ grants'[v]["sliding_window"] = window'[v] + shared'[v]
      BY DEF Budget
    <3>1. CASE v = u
      <4> HIDE DEF taken, tb, sw
      <4> QED
        BY <3>1, <1>0, <2>1, <2>3, <2>4
    <3>2. CASE v # u
      BY <3>2, <1>v, <2>1, <2>4 DEF Budget
    <3> QED
      BY <3>1, <3>2
  <2>6. /\ bucket' \in [Users -> {Absent} \union 0 .. MaxQuota]
        /\ grants' \in [Users -> [Algorithms -> Nat]]
    <3>1. grants[u][rule.algorithm] + taken \in Nat
      BY <1>0, <1>1
    <3> HIDE DEF taken
    <3> QED
      BY <1>v, <2>1, <2>3, <3>1 DEF TypeOK
  <2>7. \A v \in Users : /\ grants[v]["token_bucket"] <= grants'[v]["token_bucket"]
                         /\ window[v] <= window'[v]
    BY <1>0, <1>v, <2>1, <2>4 DEF TypeOK
  <2>8. ~ Allows(u, rule) => grants'[u]["token_bucket"] >= MinQuota
    BY <1>0, <2>2, <2>3, <2>4
  <2> QED
    BY <1>1, <2>1, <2>5, <2>6, <2>7, <2>8 DEF TypeOK
<1>2. CASE rule.algorithm = "sliding_window"
  <2>1. /\ bucket' = bucket
        /\ \/ /\ window' = [window EXCEPT ![u] = window[u] + taken]
              /\ shared' = shared
           \/ /\ taken = 1 /\ shared[u] < MaxShared
              /\ shared' = [shared EXCEPT ![u] = shared[u] + 1]
              /\ window' = window
    BY <1>2 DEF RunLimiter
  <2>2. /\ Allows(u, rule) <=> window[u] < rule.quota
        /\ window[u] + taken \in 0 .. MaxQuota
    BY <1>0, <1>2 DEF Allows
  <2>3. /\ window'[u] + shared'[u] = window[u] + shared[u] + taken
        /\ window'[u] \in 0 .. MaxQuota /\ shared'[u] \in 0 .. MaxShared
        /\ window[u] <= window'[u]
        /\ \A v \in Users \ {u} : window'[v] = window[v] /\ shared'[v] = shared[v]
        /\ window' \in [Users -> 0 .. MaxQuota]
        /\ shared' \in [Users -> 0 .. MaxShared]
    <3>1. ASSUME taken = 1, shared[u] < MaxShared, window' = window,
                 shared' = [shared EXCEPT ![u] = shared[u] + 1]
          PROVE  /\ window'[u] + shared'[u] = window[u] + shared[u] + taken
                 /\ window'[u] \in 0 .. MaxQuota /\ shared'[u] \in 0 .. MaxShared
                 /\ window[u] <= window'[u]
                 /\ \A v \in Users \ {u} :
                      window'[v] = window[v] /\ shared'[v] = shared[v]
                 /\ window' \in [Users -> 0 .. MaxQuota]
                 /\ shared' \in [Users -> 0 .. MaxShared]
      <4>1. shared'[u] = shared[u] + 1 /\ shared[u] + 1 \in 0 .. MaxShared
        BY <1>0, <3>1 DEF TypeOK
      <4>2. /\ \A v \in Users \ {u} : window'[v] = window[v] /\ shared'[v] = shared[v]
            /\ window' \in [Users -> 0 .. MaxQuota]
            /\ shared' \in [Users -> 0 .. MaxShared]
        BY <3>1, <4>1 DEF TypeOK
      <4> HIDE DEF taken
      <4> QED
        BY <1>0, <3>1, <4>1, <4>2
    <3>2. ASSUME window' = [window EXCEPT ![u] = window[u] + taken], shared' = shared
          PROVE  /\ window'[u] + shared'[u] = window[u] + shared[u] + taken
                 /\ window'[u] \in 0 .. MaxQuota /\ shared'[u] \in 0 .. MaxShared
                 /\ window[u] <= window'[u]
                 /\ \A v \in Users \ {u} :
                      window'[v] = window[v] /\ shared'[v] = shared[v]
                 /\ window' \in [Users -> 0 .. MaxQuota]
                 /\ shared' \in [Users -> 0 .. MaxShared]
      <4> HIDE DEF taken
      <4>1. window'[u] = window[u] + taken
        BY <3>2 DEF TypeOK
      <4>2. /\ \A v \in Users \ {u} : window'[v] = window[v] /\ shared'[v] = shared[v]
            /\ window' \in [Users -> 0 .. MaxQuota]
            /\ shared' \in [Users -> 0 .. MaxShared]
        BY <3>2, <2>2 DEF TypeOK
      <4> QED
        BY <1>0, <2>2, <3>2, <4>1, <4>2
    <3> QED
      BY <3>1, <3>2, <2>1
  <2>4. /\ grants'[u]["sliding_window"] = sw + taken
        /\ grants'[u]["token_bucket"] = tb
        /\ grants' \in [Users -> [Algorithms -> Nat]]
    <3>1. grants[u][rule.algorithm] + taken \in Nat
      BY <1>0, <1>2
    <3> HIDE DEF taken
    <3> QED
      BY <1>2, <1>v, <3>1 DEF TypeOK
  <2>5. ~ Allows(u, rule) => window'[u] >= rule.quota
    BY <1>0, <2>2, <2>3
  <2>6. Budget'
    <3> SUFFICES ASSUME NEW v \in Users
                 PROVE  /\ IF bucket'[v] = Absent
                             THEN grants'[v]["token_bucket"] = 0
                             ELSE bucket'[v] + grants'[v]["token_bucket"]
                                    \in MinQuota .. MaxQuota
                        /\ grants'[v]["sliding_window"] = window'[v] + shared'[v]
      BY DEF Budget
    <3>1. CASE v = u
      <4>1. sw + taken = window'[u] + shared'[u]
        BY <1>0, <2>3
      <4> QED
        BY <3>1, <4>1, <2>1, <2>4 DEF Budget
    <3>2. CASE v # u
      BY <3>2, <1>v, <2>1, <2>3 DEF Budget
    <3> QED
      BY <3>1, <3>2
  <2>7. \A v \in Users : /\ grants[v]["token_bucket"] <= grants'[v]["token_bucket"]
                         /\ window[v] <= window'[v]
    BY <1>0, <1>v, <2>3, <2>4 DEF TypeOK
  <2> QED
    BY <1>2, <2>1, <2>3, <2>4, <2>5, <2>6, <2>7 DEF TypeOK
<1> QED
  BY <1>1, <1>2

-----------------------------------------------------------------------------
\* A handler past its lookup has found a rule.
RuleFound ==
    \A h \in Handlers :
        request[h].phase \in {"limit", "respond"} => request[h].rule \in Rule

\* The inductive invariant.
IInv == TypeOK /\ RuleFound /\ Budget /\ RefusedOnlyWhenSpent

LEMMA InitIInv == Init => IInv
  BY DEF Init, IInv, RuleFound, TypeOK, Budget, RefusedOnlyWhenSpent

\* A step that leaves the limiters alone and lets no handler decide.
LEMMA LimitsUnchanged ==
    ASSUME IInv, TypeOK', UNCHANGED limits,
           \A h \in Handlers :
               \/ request'[h] = request[h]
               \/ request'[h].phase \in {"idle", "lookup"}
               \/ request'[h].phase = "limit" /\ request'[h].rule \in Rule
    PROVE  IInv'
<1>1. UNCHANGED <<bucket, window, grants, shared>>
  BY DEF limits
<1>2. RuleFound'
  BY DEF IInv, RuleFound
<1>3. Budget'
  BY <1>1 DEF IInv, Budget
<1>4. \A h \in Handlers :
        request'[h].phase = "respond" => request'[h] = request[h]
  OBVIOUS
<1>5. RefusedOnlyWhenSpent'
  BY <1>1, <1>4 DEF IInv, RefusedOnlyWhenSpent
<1> QED
  BY <1>2, <1>3, <1>5 DEF IInv

\* A step of a handler that runs its limiter.
LEMMA LimiterRun ==
    ASSUME IInv, NEW h \in Handlers, request[h].phase = "limit",
           RunLimiter(request[h].user, request[h].rule),
           request[h].rule \in Rule,
           failures' \in 0 .. MaxFailures, rules' = rules,
           \/ request' = request
           \/ request' = [request EXCEPT ![h] = Answer("error")]
           \/ request' = [request EXCEPT ![h] =
                 [request[h] EXCEPT
                    !.phase = "respond",
                    !.allowed = Allows(request[h].user, request[h].rule)]]
    PROVE  IInv'
<1> DEFINE q == request[h]
<1>1. /\ q.user \in Users /\ q.route \in Routes
      /\ q \in Working
    BY DEF IInv, TypeOK
<1>2. /\ bucket' \in [Users -> {Absent} \union 0 .. MaxQuota]
      /\ window' \in [Users -> 0 .. MaxQuota]
      /\ grants' \in [Users -> [Algorithms -> Nat]]
      /\ shared' \in [Users -> 0 .. MaxShared]
      /\ Budget'
      /\ \A v \in Users : /\ grants[v]["token_bucket"] <= grants'[v]["token_bucket"]
                          /\ window[v] <= window'[v]
      /\ ~ Allows(q.user, q.rule) =>
           IF q.rule.algorithm = "token_bucket"
             THEN grants'[q.user]["token_bucket"] >= MinQuota
             ELSE window'[q.user] >= q.rule.quota
    BY <1>1, RunKeeps DEF IInv
<1>3. Allows(q.user, q.rule) \in BOOLEAN
    BY DEF Allows
<1>4. request' \in [Handlers -> Idle \union Working]
  <2> DEFINE p == [q EXCEPT !.phase = "respond",
                            !.allowed = Allows(q.user, q.rule)]
  <2>1. p \in Working
    BY <1>1, <1>3
  <2>2. Answer("error") \in Idle
    OBVIOUS
  <2>3. request \in [Handlers -> Idle \union Working]
    BY DEF IInv, TypeOK
  <2> HIDE DEF p
  <2>4. \/ request' = request
        \/ request' = [request EXCEPT ![h] = Answer("error")]
        \/ request' = [request EXCEPT ![h] = p]
    BY DEF p
  <2> QED
    BY <2>1, <2>2, <2>3, <2>4
<1>5. TypeOK'
    BY <1>2, <1>4 DEF IInv, TypeOK
<1>6. RefusedOnlyWhenSpent'
  <2> SUFFICES ASSUME NEW i \in Handlers, request'[i].phase = "respond",
                      ~ request'[i].allowed
               PROVE  IF request'[i].rule.algorithm = "token_bucket"
                        THEN grants'[request'[i].user]["token_bucket"] >= MinQuota
                        ELSE window'[request'[i].user] >= request'[i].rule.quota
    BY DEF RefusedOnlyWhenSpent
  <2>1. CASE request'[i] = request[i]
    <3>1. request[i] \in Working /\ request[i].user \in Users
      BY <2>1 DEF IInv, TypeOK
    <3>2. request[i].rule.quota \in Nat
      BY <3>1
    <3> QED
      <4> DEFINE u == request[i].user
      <4>1. /\ grants[u]["token_bucket"] \in Nat /\ grants'[u]["token_bucket"] \in Nat
            /\ window[u] \in Nat /\ window'[u] \in Nat
            /\ grants[u]["token_bucket"] <= grants'[u]["token_bucket"]
            /\ window[u] <= window'[u]
        BY <3>1, <1>2 DEF IInv, TypeOK
      <4>2. IF request[i].rule.algorithm = "token_bucket"
              THEN grants[u]["token_bucket"] >= MinQuota
              ELSE window[u] >= request[i].rule.quota
        BY <2>1 DEF IInv, RefusedOnlyWhenSpent
      <4> QED
        BY <2>1, <3>2, <4>1, <4>2
  <2>2. CASE request'[i] # request[i]
    <3>1. /\ i = h
          /\ request'[h] = [q EXCEPT !.phase = "respond",
                                     !.allowed = Allows(q.user, q.rule)]
      BY <2>2 DEF IInv, TypeOK
    <3>2. /\ request'[h].user = q.user
          /\ request'[h].rule = q.rule
          /\ request'[h].allowed = Allows(q.user, q.rule)
      BY <3>1, <1>1
    <3> QED
      BY <3>1, <3>2, <1>2
  <2> QED
    BY <2>1, <2>2
<1>7. RuleFound'
  <2> SUFFICES ASSUME NEW i \in Handlers,
                      request'[i].phase \in {"limit", "respond"}
               PROVE  request'[i].rule \in Rule
    BY DEF RuleFound
  <2>1. CASE request'[i] = request[i]
    BY <2>1 DEF IInv, RuleFound
  <2>2. CASE request'[i] # request[i]
    <3>1. request'[h] = [q EXCEPT !.phase = "respond",
                                  !.allowed = Allows(q.user, q.rule)]
          /\ i = h
      BY <2>2 DEF IInv, TypeOK
    <3>2. request'[h].rule = q.rule
      BY <3>1, <1>1
    <3> QED
      BY <3>1, <3>2
  <2> QED
    BY <2>1, <2>2
<1> QED
  BY <1>2, <1>5, <1>6, <1>7 DEF IInv

\* Every step keeps the invariant.
LEMMA NextIInv == IInv /\ [Next]_vars => IInv'
<1> SUFFICES ASSUME IInv, [Next]_vars
             PROVE  IInv'
  OBVIOUS
<1>t. TypeOK
  BY DEF IInv
<1>w. \A h \in Handlers :
        request[h].phase # "idle" =>
          /\ request[h] \in Working
          /\ request[h].user \in Users /\ request[h].route \in Routes
          /\ request[h].rule \in Rule \union {NoRule}
  BY <1>t DEF TypeOK
<1>1. ASSUME NEW u \in Users, NEW r \in Routes, NEW rule \in Rule,
             Upsert(u, r, rule)
      PROVE  IInv'
  BY <1>1, <1>t, LimitsUnchanged DEF Upsert, TypeOK, limits
<1>2. ASSUME NEW u \in Users, NEW r \in Routes, DeleteRule(u, r)
      PROVE  IInv'
  BY <1>2, <1>t, LimitsUnchanged DEF DeleteRule, TypeOK, limits
<1>d. ASSUME NEW u \in Users, DeleteClient(u)
      PROVE  IInv'
  BY <1>d, <1>t, LimitsUnchanged DEF DeleteClient, TypeOK, limits
<1>3. ASSUME NEW u \in Users, NEW r \in Routes, NEW h \in Handlers,
             Receive(h, u, r)
      PROVE  IInv'
  <2> DEFINE q == [phase |-> "lookup", user |-> u, route |-> r,
                   rule |-> NoRule, allowed |-> FALSE]
  <2>1. request' = [request EXCEPT ![h] = q] /\ q \in Working
    BY <1>3 DEF Receive
  <2>2. TypeOK'
    BY <1>3, <1>t, <2>1 DEF Receive, TypeOK, limits
  <2> QED
    BY <1>3, <1>t, <2>1, <2>2, LimitsUnchanged DEF Receive, TypeOK
<1>4. ASSUME NEW h \in Handlers, Lookup(h)
      PROVE  IInv'
  <2> DEFINE q == [request[h] EXCEPT !.phase = "limit", !.rule = RuleOf(h)]
  <2>1. RuleOf(h) # NoRule => RuleOf(h) \in Rule
    BY <1>4, <1>t, <1>w DEF Lookup, RuleOf, TypeOK
  <2>2. /\ q.phase = "limit" /\ q.rule = RuleOf(h)
        /\ RuleOf(h) # NoRule => q \in Working
    BY <1>4, <1>w, <2>1 DEF Lookup
  <2>3. /\ request' = [request EXCEPT ![h] =
                         IF RuleOf(h) = NoRule THEN Answer("not_found") ELSE q]
        /\ UNCHANGED <<rules, limits, failures>>
    BY <1>4 DEF Lookup
  <2>4. TypeOK'
    BY <1>t, <2>2, <2>3 DEF TypeOK, limits
  <2> QED
    BY <1>t, <2>1, <2>2, <2>3, <2>4, LimitsUnchanged DEF TypeOK
<1>5. ASSUME NEW h \in Handlers, LookupFails(h)
      PROVE  IInv'
  BY <1>5, <1>t, LimitsUnchanged DEF LookupFails, Fail, TypeOK, limits
<1>6. ASSUME NEW h \in Handlers, Limit(h)
      PROVE  IInv'
  BY <1>6, <1>t, LimiterRun DEF Limit, IInv, RuleFound, TypeOK
<1>7. ASSUME NEW h \in Handlers, LimitFails(h)
      PROVE  IInv'
  <2>1. /\ request[h].phase = "limit"
        /\ failures' \in 0 .. MaxFailures
        /\ rules' = rules
        /\ \/ request' = request
           \/ request' = [request EXCEPT ![h] = Answer("error")]
    BY <1>7, <1>t DEF LimitFails, Fail, TypeOK
  <2>2. CASE RunLimiter(request[h].user, request[h].rule)
    BY <2>1, <2>2, LimiterRun DEF IInv, RuleFound
  <2>3. CASE UNCHANGED limits
    <3>1. Answer("error") \in Idle
      OBVIOUS
    <3>2. request' \in [Handlers -> Idle \union Working]
      BY <2>1, <3>1, <1>t DEF TypeOK
    <3>3. TypeOK'
      BY <2>1, <2>3, <3>2, <1>t DEF TypeOK, limits
    <3> QED
      BY <2>1, <2>3, <3>3, <1>t, LimitsUnchanged DEF TypeOK
  <2> QED
    BY <1>7, <2>2, <2>3 DEF LimitFails
<1>8. ASSUME NEW h \in Handlers, Respond(h)
      PROVE  IInv'
  BY <1>8, <1>t, LimitsUnchanged DEF Respond, TypeOK, limits
<1>9. CASE Shutdown
  BY <1>9, <1>t, LimitsUnchanged DEF Shutdown, Fail, TypeOK, limits
<1>10. CASE UNCHANGED vars
  BY <1>10, <1>t, LimitsUnchanged DEF vars, TypeOK, limits
<1> QED
  BY <1>1, <1>2, <1>d, <1>3, <1>4, <1>5, <1>6, <1>7, <1>8, <1>9, <1>10
  DEF Next, Handle

-----------------------------------------------------------------------------
\* The invariant holds throughout.
THEOREM Invariant == Spec => []IInv
  BY InitIInv, NextIInv, PTL DEF Spec

\* Every variable keeps its type: in particular no bucket is overdrawn and no
\* set of stamps outgrows the largest limit.
THEOREM Typing == Spec => []TypeOK
<1>1. IInv => TypeOK
  BY DEF IInv
<1> QED
  BY <1>1, Invariant, PTL

\* However many routes, rules, rule changes, resent scripts, crashes and
\* handlers there are, a burst of one user gets at most two allowances: the
\* largest capacity from his bucket (the script of token_bucket.go on the key
\* "tb:<user>"), and the largest limit, with the requests that shared a stamp,
\* from his window (that of sliding_window.go on "sw:<user>").
THEOREM BurstBounded == Spec => []BurstBound
<1>1. IInv => BurstBound
  <2> SUFFICES ASSUME IInv, NEW u \in Users
               PROVE  /\ grants[u]["token_bucket"] <= MaxQuota
                      /\ grants[u]["sliding_window"] <= MaxQuota + shared[u]
    BY DEF BurstBound
  <2>1. /\ grants[u]["token_bucket"] \in Nat
        /\ bucket[u] \in {Absent} \union 0 .. MaxQuota
        /\ window[u] \in 0 .. MaxQuota /\ shared[u] \in Nat
    BY DEF IInv, TypeOK
  <2>2. grants[u]["token_bucket"] <= MaxQuota
    <3>1. CASE bucket[u] = Absent
      BY <2>1, <3>1 DEF IInv, Budget
    <3>2. CASE bucket[u] # Absent
      BY <2>1, <3>2 DEF IInv, Budget
    <3> QED
      BY <3>1, <3>2
  <2>3. grants[u]["sliding_window"] = window[u] + shared[u]
    BY DEF IInv, Budget
  <2> QED
    BY <2>1, <2>2, <2>3
<1> QED
  BY <1>1, Invariant, PTL

\* A handler of /check about to refuse has found the user's allowance spent.
THEOREM RefusalsJustified == Spec => []RefusedOnlyWhenSpent
<1>1. IInv => RefusedOnlyWhenSpent
  BY DEF IInv
<1> QED
  BY <1>1, Invariant, PTL

\* What both rest on: tokens are conserved up to the difference of capacities,
\* stamps up to those that are shared.
THEOREM Conservation == Spec => []Budget
<1>1. IInv => Budget
  BY DEF IInv
<1> QED
  BY <1>1, Invariant, PTL

=============================================================================
