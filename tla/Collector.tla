----------------------------- MODULE Collector -----------------------------
(***************************************************************************)
(* The metrics collector (internal/metrics/collector.go): a goroutine that *)
(* wakes on a ticker, counts rows in three queries and sets Prometheus     *)
(* gauges (internal/metrics/metrics.go), until it is stopped.              *)
(*                                                                         *)
(* A series is a gauge with its labels: active keys by client and type,    *)
(* rules by client and algorithm, rules by client.  A part of a pass reads *)
(* its table with one query and then sets the gauges one at a time, while  *)
(* rows come and go; it sets a gauge only for a series that has a row.     *)
(***************************************************************************)
EXTENDS Integers

CONSTANTS
    KeySeries,    \* label pairs of throttl_active_api_keys
    RuleSeries,   \* label pairs of throttl_rate_limit_configs
    ClientSeries, \* labels of the gauge of client activity
    MaxRows,      \* bound on the rows of a series
    MaxFailures   \* bound on failed queries

Series == KeySeries \union RuleSeries \union ClientSeries

ASSUME CollectorAssumption ==
    /\ KeySeries \intersect RuleSeries = {}
    /\ KeySeries \intersect ClientSeries = {}
    /\ RuleSeries \intersect ClientSeries = {}
    /\ MaxRows \in Nat
    /\ MaxFailures \in Nat

VARIABLES
    rows,       \* rows[s], active keys or rules with the labels s
    gauge,      \* gauge[s], Unset until it is set for the first time
    redis,      \* the states of which throttl_redis_connections shows 1
    phase,      \* where the collector is
    ticking,    \* is the ticker there?  Start collects once before it is
    snapshot,   \* what its query has read and it has not shown yet
    tick,       \* is a tick waiting in the ticker's channel?
    stopping,   \* has stopCh been closed?
    failures

timer == <<ticking, tick, stopping>>
vars == <<rows, gauge, redis, phase, snapshot, timer, failures>>

Unset == -1
Nothing == [s \in Series |-> 0]

Init ==
    /\ rows \in [Series -> 0 .. MaxRows]
    /\ gauge = [s \in Series |-> Unset]
    /\ redis = {}
    /\ phase = "keys"
    /\ ticking = FALSE
    /\ snapshot = Nothing
    /\ tick = FALSE
    /\ stopping = FALSE
    /\ failures = 0

Fail == failures < MaxFailures /\ failures' = failures + 1

-----------------------------------------------------------------------------
(* The goroutine. *)

\* collectMetrics: the parts of a pass in their order.
After ==
    [keys |-> "rules", rules |-> "redis", redis |-> "activity",
     activity |-> "waiting"]

Tables == [keys |-> KeySeries, rules |-> RuleSeries, activity |-> ClientSeries]
Showing == [keys |-> "show keys", rules |-> "show rules",
            activity |-> "show activity"]
Parts == DOMAIN Tables

\* Mutant of Query: only the series never shown before are counted.
QueryStale(p) ==
    /\ phase = p
    /\ snapshot' = [s \in Series |-> IF s \in Tables[p] /\ gauge[s] = Unset
                                       THEN rows[s] ELSE 0]
    /\ phase' = Showing[p]
    /\ UNCHANGED <<rows, gauge, redis, timer, failures>>

\* ListAPIKeys, or GetAllRateLimitConfigs for the two others.
Query(p) ==
    /\ phase = p
    /\ snapshot' = [s \in Series |-> IF s \in Tables[p] THEN rows[s] ELSE 0]
    /\ phase' = Showing[p]
    /\ UNCHANGED <<rows, gauge, redis, timer, failures>>

\* The ticker starts when the first pass is over.
Ends(p) == ticking' = (ticking \/ After[p] = "waiting")

QueryFails(p) ==
    /\ phase = p
    /\ Fail
    /\ phase' = After[p]
    /\ Ends(p)
    /\ UNCHANGED <<rows, gauge, redis, snapshot, tick, stopping>>

\* The loop over the counts: only series with rows are in the map.
Show(p, s) ==
    /\ phase = Showing[p]
    /\ snapshot[s] > 0
    /\ gauge' = [gauge EXCEPT ![s] = snapshot[s]]
    /\ snapshot' = [snapshot EXCEPT ![s] = 0]
    /\ UNCHANGED <<rows, redis, phase, timer, failures>>

Shown(p) ==
    /\ phase = Showing[p]
    /\ snapshot = Nothing
    /\ phase' = After[p]
    /\ Ends(p)
    /\ UNCHANGED <<rows, gauge, redis, snapshot, tick, stopping, failures>>

\* INFO: what was shown before stays.
Info ==
    /\ phase = "redis"
    /\ redis' = redis \union {"connected"}
    /\ phase' = After["redis"]
    /\ UNCHANGED <<rows, gauge, snapshot, timer, failures>>

InfoFails ==
    /\ phase = "redis"
    /\ Fail
    /\ redis' = redis \union {"error"}
    /\ phase' = After["redis"]
    /\ UNCHANGED <<rows, gauge, snapshot, tick, stopping, ticking>>

\* The select: when both channels are ready it takes either.
Wake ==
    /\ phase = "waiting"
    /\ tick
    /\ tick' = FALSE
    /\ phase' = "keys"
    /\ UNCHANGED <<rows, gauge, redis, snapshot, stopping, failures, ticking>>

\* Mutant of Leave: the stop is seen only if no tick is waiting.
LeaveLast ==
    /\ phase = "waiting"
    /\ stopping /\ ~ tick
    /\ phase' = "stopped"
    /\ UNCHANGED <<rows, gauge, redis, snapshot, timer, failures>>

Leave ==
    /\ phase = "waiting"
    /\ stopping
    /\ phase' = "stopped"
    /\ UNCHANGED <<rows, gauge, redis, snapshot, timer, failures>>

-----------------------------------------------------------------------------
(* Time, the tables and the server's shutdown. *)

\* The ticker's channel holds one tick; a slow collector loses the others.
Tick ==
    /\ ticking
    /\ phase # "stopped"
    /\ ~ tick
    /\ tick' = TRUE
    /\ UNCHANGED <<rows, gauge, redis, phase, snapshot, ticking, stopping,
                   failures>>

\* Keys and rules are created, deleted, revoked, or expire.
Change(s) ==
    /\ \E n \in 0 .. MaxRows :
         n \in {rows[s] - 1, rows[s] + 1} /\ rows' = [rows EXCEPT ![s] = n]
    /\ UNCHANGED <<gauge, redis, phase, snapshot, timer, failures>>

\* The signal handler is set up after the first pass.
Stop ==
    /\ ticking
    /\ ~ stopping
    /\ stopping' = TRUE
    /\ UNCHANGED <<rows, gauge, redis, phase, snapshot, ticking, tick,
                   failures>>

Collect ==
    \/ \E p \in Parts :
         \/ Query(p) \/ Shown(p)
         \/ \E s \in Series : Show(p, s)
    \/ Info
    \/ Wake

Next ==
    \/ Collect \/ Leave
    \/ \E p \in Parts : QueryFails(p)
    \/ InfoFails
    \/ Tick
    \/ \E s \in Series : Change(s)
    \/ Stop

Spec == Init /\ [][Next]_vars

\* The goroutine runs, time passes, and the select does not pass over a ready
\* channel for ever.
FairSpec ==
    /\ Spec
    /\ WF_vars(Collect) /\ WF_vars(Tick)
    /\ SF_vars(Leave)

-----------------------------------------------------------------------------
(* Properties. *)

TypeOK ==
    /\ rows \in [Series -> 0 .. MaxRows]
    /\ gauge \in [Series -> {Unset} \union 1 .. MaxRows]
    /\ redis \subseteq {"connected", "error"}
    /\ phase \in {"keys", "show keys", "rules", "show rules", "redis",
                  "activity", "show activity", "waiting", "stopped"}
    /\ ticking \in BOOLEAN
    /\ snapshot \in [Series -> 0 .. MaxRows]
    /\ tick \in BOOLEAN
    /\ stopping \in BOOLEAN
    /\ failures \in 0 .. MaxFailures

\* A gauge comes to show the number of rows once that stays the same and is
\* not zero, though queries fail and rows change while gauges are being set.
GaugeCatchesUp ==
    \A s \in Series, n \in 1 .. MaxRows :
        <>[](rows[s] = n /\ ~ stopping) => <>[](gauge[s] = n)

\* A collector that is stopped ends, in whatever pass it is.
StopsInTheEnd == stopping ~> phase = "stopped"

=============================================================================
