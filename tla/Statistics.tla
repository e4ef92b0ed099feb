----------------------------- MODULE Statistics -----------------------------
(***************************************************************************)
(* The global statistics.  Behind the caller's back the handler of /check  *)
(* starts a goroutine for every decision, which adds it to four counters   *)
(* in Redis; GetGlobalStatsHandler reads the counters for the dashboard.   *)
(*                                                                         *)
(* Both send pipelines: Redis executes their commands in order, but those  *)
(* of others between them, and after a broken connection the client sends  *)
(* the whole pipeline again, whatever was executed.  No transaction makes  *)
(* the counters agree: what holds of them follows from the order of the    *)
(* commands.                                                               *)
(***************************************************************************)
EXTENDS Integers, FiniteSets

CONSTANTS
    MaxDecisions, \* bound on the decisions taken
    MaxRetries,   \* times the Redis client repeats a pipeline
    MaxFailures   \* bound on broken connections and crashes

ASSUME StatisticsAssumption ==
    /\ MaxDecisions \in Nat
    /\ MaxRetries \in Nat
    /\ MaxFailures \in Nat

Decisions == 1 .. MaxDecisions
Counters == {"total", "allowed", "blocked", "timed"}

VARIABLES
    updates,    \* the goroutines, in the order of the decisions
    stats,      \* stats[c], the counters "throttl:stats:*"; "timed" is the
                \* number of latencies in the sum total_latency_ms
    report,     \* one request of the dashboard: values read, GETs executed
    failures

vars == <<updates, stats, report, failures>>

\* A goroutine: the decision it counts, the commands of its pipeline that
\* Redis has executed, the resends the client has left.
NoUpdate == [phase |-> "none", allowed |-> FALSE, done |-> 0, left |-> 0]
Update == [phase : {"running", "done", "lost"}, allowed : BOOLEAN,
           done : 0 .. 3, left : 0 .. MaxRetries]

Zero == [c \in Counters |-> 0]
Reading(read, values) == [read |-> read, values |-> values]

Init ==
    /\ updates = [i \in Decisions |-> NoUpdate]
    /\ stats = Zero
    /\ report = Reading(0, Zero)
    /\ failures = 0

\* The decisions taken so far are 1 .. Decided.
Decided == Cardinality({i \in Decisions : updates[i].phase # "none"})

Fail == failures < MaxFailures /\ failures' = failures + 1

-----------------------------------------------------------------------------
(* The goroutine of a decision. *)

Decide(allowed) ==
    /\ Decided < MaxDecisions
    /\ updates' = [updates EXCEPT ![Decided + 1] =
                     [phase |-> "running", allowed |-> allowed,
                      done |-> 0, left |-> MaxRetries]]
    /\ UNCHANGED <<stats, report, failures>>

\* Mutant of Command: the verdict is counted before the request.
CommandVerdictFirst(i) ==
    LET verdict == IF updates[i].allowed THEN "allowed" ELSE "blocked"
    IN  <<verdict, "total", "timed">>[updates[i].done + 1]

\* Mutant of Command: the latency is added before the verdict.
CommandLatencyEarly(i) ==
    LET verdict == IF updates[i].allowed THEN "allowed" ELSE "blocked"
    IN  <<"total", "timed", verdict>>[updates[i].done + 1]

\* Mutant of Command: a refusal is counted as an admission.
CommandAllowed(i) == <<"total", "allowed", "timed">>[updates[i].done + 1]

\* The counter that the next command of goroutine i increments.
Command(i) ==
    LET verdict == IF updates[i].allowed THEN "allowed" ELSE "blocked"
    IN  <<"total", verdict, "timed">>[updates[i].done + 1]

\* Mutant of Execute: the pipeline stops short of its last command.
ExecuteShort(i) ==
    /\ updates[i].phase = "running"
    /\ updates[i].done < 2
    /\ stats' = [stats EXCEPT ![Command(i)] = @ + 1]
    /\ updates' = [updates EXCEPT ![i].done = @ + 1]
    /\ UNCHANGED <<report, failures>>

Execute(i) ==
    /\ updates[i].phase = "running"
    /\ updates[i].done < 3
    /\ stats' = [stats EXCEPT ![Command(i)] = @ + 1]
    /\ updates' = [updates EXCEPT ![i].done = @ + 1]
    /\ UNCHANGED <<report, failures>>

Finish(i) ==
    /\ updates[i].phase = "running"
    /\ updates[i].done = 3
    /\ updates' = [updates EXCEPT ![i].phase = "done"]
    /\ UNCHANGED <<stats, report, failures>>

\* The connection breaks, after any number of commands: the client sends the
\* whole pipeline again or, out of retries or past the two seconds of its
\* context, reports the error, which the goroutine logs before it ends.
Break(i) ==
    /\ updates[i].phase = "running"
    /\ Fail
    /\ \/ /\ updates[i].left > 0
          /\ updates' = [updates EXCEPT ![i].done = 0, ![i].left = @ - 1]
       \/ updates' = [updates EXCEPT ![i].phase = "lost"]
    /\ UNCHANGED <<stats, report>>

\* setupGracefulShutdown exits without waiting for the goroutines.
Shutdown ==
    /\ Fail
    /\ updates' = [i \in Decisions |->
                     IF updates[i].phase = "running"
                       THEN [updates[i] EXCEPT !.phase = "lost"]
                       ELSE updates[i]]
    /\ UNCHANGED <<stats, report>>

-----------------------------------------------------------------------------
(* GetGlobalStatsHandler: a pipeline of four GETs. *)

Gets == <<"total", "allowed", "blocked", "timed">>

Query == report.read = 4 /\ report' = Reading(0, Zero)

Get ==
    /\ report.read < 4
    /\ LET c == Gets[report.read + 1]
       IN  report' = Reading(report.read + 1,
                             [report.values EXCEPT ![c] = stats[c]])

\* The pipeline is sent again, or its error is ignored: what it has not read
\* is shown as zero.
GetsBreak ==
    /\ report.read < 4
    /\ Fail
    /\ report' \in {Reading(0, Zero), Reading(4, report.values)}

Next ==
    \/ \E allowed \in BOOLEAN : Decide(allowed)
    \/ \E i \in Decisions : Execute(i) \/ Finish(i) \/ Break(i)
    \/ Shutdown
    \/ (Query \/ Get) /\ UNCHANGED <<updates, stats, failures>>
    \/ GetsBreak /\ UNCHANGED <<updates, stats>>

Spec == Init /\ [][Next]_vars

\* A goroutine runs on: Redis executes its commands or its connection breaks.
FairSpec == Spec /\ \A i \in Decisions : WF_vars(Execute(i) \/ Finish(i))

-----------------------------------------------------------------------------
(* Properties. *)

\* The goroutines of decisions with one of these verdicts, in one of these
\* phases, that have executed that many commands.
Count(verdicts, phases, done) ==
    Cardinality({i \in Decisions : /\ updates[i].allowed \in verdicts
                                   /\ updates[i].phase \in phases
                                   /\ updates[i].done >= done})

TypeOK ==
    /\ updates \in [Decisions -> Update \union {NoUpdate}]
    /\ stats \in [Counters -> Nat]
    /\ report \in [read : 0 .. 4, values : [Counters -> Nat]]
    /\ failures \in 0 .. MaxFailures

\* Whatever is repeated or lost half-way, at no instant do the counters in Redis
\* hold a verdict of a decision before its request, or a latency before its
\* verdict.  This is said of the counters: a report reads them one after the
\* other, the total first, while others count, so the verdicts it shows may
\* exceed the total it shows (ReportCovered says what it can be trusted for).
CountersOrdered ==
    /\ stats["allowed"] + stats["blocked"] <= stats["total"]
    /\ stats["timed"] <= stats["allowed"] + stats["blocked"]

\* A goroutine that ends without an error has counted its decision, under its
\* own verdict, and while nothing fails every counter is exact.
CountersExact ==
    LET ended(verdicts) == Count(verdicts, {"done"}, 3)
        begun(verdicts, done) == Count(verdicts, {"running", "done"}, done)
    IN  /\ stats["total"] >= ended(BOOLEAN)
        /\ stats["allowed"] >= ended({TRUE})
        /\ stats["blocked"] >= ended({FALSE})
        /\ failures = 0 =>
             /\ stats["total"] = begun(BOOLEAN, 1)
             /\ stats["allowed"] = begun({TRUE}, 2)
             /\ stats["blocked"] = begun({FALSE}, 2)
             /\ stats["timed"] = begun(BOOLEAN, 3)

\* A report may be torn, but it shows no more verdicts, nor latencies, than
\* requests have been counted by the time it is answered.
ReportCovered ==
    /\ report.values["allowed"] + report.values["blocked"] <= stats["total"]
    /\ report.values["timed"] <= stats["total"]

\* Every decision is counted in the end, all of it, unless its goroutine gave
\* up or the server went down.
EventuallyCounted ==
    \A n \in Decisions :
        Decided >= n ~> /\ Count(BOOLEAN, {"done", "lost"}, 0) >= n
                        /\ stats["timed"] >= Count(BOOLEAN, {"done"}, 3)

=============================================================================
