-------------------------- MODULE StatisticsProofs --------------------------
(***************************************************************************)
(* Statistics for any number of decisions, retries and failures: the       *)
(* counters keep their order, they are exact without failures, and a report*)
(* is covered by them.                                                     *)
(***************************************************************************)
EXTENDS Statistics, FiniteSetTheorems, TLAPS

LEMMA DecisionsFinite ==
    /\ IsFiniteSet(Decisions)
    /\ \A S \in SUBSET Decisions : IsFiniteSet(S) /\ Cardinality(S) \in Nat
<1>1. IsFiniteSet(Decisions)
  BY FS_Interval, StatisticsAssumption DEF Decisions, StatisticsAssumption
<1> QED
  BY <1>1, FS_Subset, FS_CardinalityType

Taken == {i \in Decisions : updates[i].phase # "none"}

LEMMA DecidedType == Decided \in Nat /\ Decided = Cardinality(Taken)
  BY DecisionsFinite DEF Decided, Taken

LEMMA NextDecision ==
    Decided < MaxDecisions => Decided + 1 \in Decisions
  BY DecidedType, StatisticsAssumption DEF Decisions, StatisticsAssumption

LEMMA TypeStep == TypeOK /\ [Next]_vars => TypeOK'
<1> SUFFICES ASSUME TypeOK, [Next]_vars PROVE TypeOK'
  OBVIOUS
<1> USE StatisticsAssumption DEF StatisticsAssumption
<1>1. CASE UNCHANGED vars
  BY <1>1 DEF vars, TypeOK
<1>2. ASSUME NEW allowed \in BOOLEAN, Decide(allowed)
      PROVE  TypeOK'
  <2>1. [phase |-> "running", allowed |-> allowed, done |-> 0,
         left |-> MaxRetries] \in Update
    BY DEF Update
  <2> QED
    BY <1>2, <2>1, NextDecision DEF Decide, TypeOK
<1>3. ASSUME NEW i \in Decisions, Execute(i)
      PROVE  TypeOK'
  <2>1. updates[i] \in Update /\ updates[i].done \in 0 .. 2
    BY <1>3 DEF Execute, TypeOK, NoUpdate, Update
  <2>2. [updates[i] EXCEPT !.done = @ + 1] \in Update
    BY <2>1 DEF Update
  <2>3. Command(i) \in Counters
    BY <2>1 DEF Command, Counters
  <2> QED
    BY <1>3, <2>2, <2>3 DEF Execute, TypeOK
<1>4. ASSUME NEW i \in Decisions, Finish(i)
      PROVE  TypeOK'
  <2>1. [updates[i] EXCEPT !.phase = "done"] \in Update
    BY <1>4 DEF Finish, TypeOK, NoUpdate, Update
  <2> QED
    BY <1>4, <2>1 DEF Finish, TypeOK
<1>5. ASSUME NEW i \in Decisions, Break(i)
      PROVE  TypeOK'
  <2>1. updates[i] \in Update
    BY <1>5 DEF Break, TypeOK, NoUpdate
  <2>2. /\ [updates[i] EXCEPT !.phase = "lost"] \in Update
        /\ updates[i].left > 0 =>
             [updates[i] EXCEPT !.done = 0, !.left = @ - 1] \in Update
    <3>1. updates[i].left > 0 => updates[i].left - 1 \in 0 .. MaxRetries
      BY <2>1 DEF Update
    <3>2. ASSUME NEW n \in 0 .. MaxRetries
          PROVE  [updates[i] EXCEPT !.done = 0, !.left = n] \in Update
      <4>1. 0 \in 0 .. 3
        OBVIOUS
      <4> QED
        BY <2>1, <4>1 DEF Update
    <3>3. [updates[i] EXCEPT !.phase = "lost"] \in Update
      BY <2>1 DEF Update
    <3> QED
      BY <3>1, <3>2, <3>3
  <2>3. updates' \in [Decisions -> Update \union {NoUpdate}]
    BY <1>5, <2>2 DEF Break, TypeOK
  <2> QED
    BY <1>5, <2>3 DEF Break, Fail, TypeOK
<1>6. CASE Shutdown
  <2>1. \A u \in Update \union {NoUpdate} :
           u.phase = "running" => [u EXCEPT !.phase = "lost"] \in Update
    BY DEF Update, NoUpdate
  <2>2. updates' \in [Decisions -> Update \union {NoUpdate}]
    BY <1>6, <2>1 DEF Shutdown, TypeOK
  <2> QED
    BY <1>6, <2>2 DEF Shutdown, Fail, TypeOK
<1>7. CASE (Query \/ Get) /\ UNCHANGED <<updates, stats, failures>>
  <2>1. Query => report' \in [read : 0 .. 4, values : [Counters -> Nat]]
    BY DEF Query, Reading, Zero, Counters
  <2>2. Get => report' \in [read : 0 .. 4, values : [Counters -> Nat]]
    BY DEF Get, Reading, Gets, Counters, TypeOK
  <2> QED
    BY <1>7, <2>1, <2>2 DEF TypeOK
<1>8. CASE GetsBreak /\ UNCHANGED <<updates, stats>>
  <2>1. report' \in [read : 0 .. 4, values : [Counters -> Nat]]
    BY <1>8 DEF GetsBreak, Reading, Zero, Counters, TypeOK
  <2> QED
    BY <1>8, <2>1 DEF GetsBreak, Fail, TypeOK
<1> QED
  BY <1>1, <1>2, <1>3, <1>4, <1>5, <1>6, <1>7, <1>8 DEF Next

LEMMA InitType == Init => TypeOK
  BY StatisticsAssumption
  DEF Init, TypeOK, Zero, Reading, Counters, StatisticsAssumption

\* The goroutines, the counters and the report keep their form.
THEOREM Typing == Spec => []TypeOK
  BY InitType, TypeStep, PTL DEF Spec

-----------------------------------------------------------------------------
(* The order of the counters. *)

\* The goroutines between two commands.
At(k) ==
    {i \in Decisions : updates[i].phase = "running" /\ updates[i].done = k}

\* What was counted as a request and has no verdict yet, and what has a verdict
\* and no latency, of the goroutines that go on: those that are repeated or
\* lost only widen the gap.
Gap ==
    /\ stats["allowed"] + stats["blocked"] + Cardinality(At(1)) <= stats["total"]
    /\ stats["timed"] + Cardinality(At(2)) <= stats["allowed"] + stats["blocked"]

LEMMA AtType == \A k : IsFiniteSet(At(k)) /\ Cardinality(At(k)) \in Nat
  BY DecisionsFinite DEF At

\* Steps that send no command.
LEMMA GapShrinks ==
    ASSUME TypeOK, Gap, UNCHANGED stats,
           At(1)' \subseteq At(1), At(2)' \subseteq At(2)
    PROVE  Gap'
<1>1. /\ Cardinality(At(1)') \in Nat /\ Cardinality(At(1)') <= Cardinality(At(1))
      /\ Cardinality(At(2)') \in Nat /\ Cardinality(At(2)') <= Cardinality(At(2))
  BY AtType, FS_Subset, FS_CardinalityType
<1>2. /\ Cardinality(At(1)) \in Nat /\ Cardinality(At(2)) \in Nat
      /\ \A c \in Counters : stats[c] \in Nat
  BY AtType DEF TypeOK
<1> QED
  BY <1>1, <1>2 DEF Gap, Counters

LEMMA GapExecute ==
    ASSUME TypeOK, Gap, NEW i \in Decisions, Execute(i)
    PROVE  Gap'
<1> DEFINE k == updates[i].done
           n == Cardinality(At(1))
           m == Cardinality(At(2))
           verdict == IF updates[i].allowed THEN "allowed" ELSE "blocked"
<1>1. /\ updates[i] \in Update /\ k \in 0 .. 2
      /\ updates[i].phase = "running"
      /\ updates' = [updates EXCEPT ![i].done = k + 1]
      /\ updates \in [Decisions -> Update \union {NoUpdate}]
  BY DEF Execute, TypeOK, NoUpdate, Update
<1>2. /\ updates'[i].phase = "running" /\ updates'[i].done = k + 1
      /\ \A j \in Decisions \ {i} : updates'[j] = updates[j]
  BY <1>1 DEF Update
<1>3. /\ n \in Nat /\ m \in Nat /\ IsFiniteSet(At(1)) /\ IsFiniteSet(At(2))
      /\ \A c \in Counters : stats[c] \in Nat
      /\ stats' = [stats EXCEPT ![Command(i)] = stats[Command(i)] + 1]
      /\ stats \in [Counters -> Nat]
  BY AtType DEF Execute, TypeOK
<1>4. CASE k = 0
  <2>1. At(1)' = At(1) \union {i} /\ i \notin At(1) /\ At(2)' = At(2)
    BY <1>1, <1>2, <1>4 DEF At
  <2>2. Cardinality(At(1)') = n + 1 /\ Cardinality(At(2)') = m
    BY <1>3, <2>1, FS_AddElement
  <2>3. Command(i) = "total"
    BY <1>4 DEF Command
  <2>4. /\ stats'["total"] = stats["total"] + 1
        /\ \A c \in {"allowed", "blocked", "timed"} : stats'[c] = stats[c]
    BY <1>3, <2>3 DEF Counters
  <2> QED
    BY <1>3, <2>2, <2>4 DEF Gap, Counters
<1>5. CASE k = 1
  <2>1. /\ At(1)' = At(1) \ {i} /\ i \in At(1)
        /\ At(2)' = At(2) \union {i} /\ i \notin At(2)
    BY <1>1, <1>2, <1>5 DEF At
  <2>2. Cardinality(At(1)') = n - 1 /\ Cardinality(At(2)') = m + 1
    BY <1>3, <2>1, FS_AddElement, FS_RemoveElement
  <2>3. Command(i) = verdict
    BY <1>5 DEF Command
  <2>4. /\ \A c \in {"total", "timed"} : stats'[c] = stats[c]
        /\ stats'["allowed"] + stats'["blocked"] =
             stats["allowed"] + stats["blocked"] + 1
    <3>1. CASE updates[i].allowed
      BY <1>3, <2>3, <3>1 DEF Counters
    <3>2. CASE ~ updates[i].allowed
      BY <1>3, <2>3, <3>2 DEF Counters
    <3> QED
      BY <3>1, <3>2
  <2>5. \A c \in Counters : stats'[c] \in Nat
    BY TypeStep DEF TypeOK, Next
  <2> QED
    BY <1>3, <2>2, <2>4, <2>5 DEF Gap, Counters
<1>6. CASE k = 2
  <2>1. At(1)' = At(1) /\ At(2)' = At(2) \ {i} /\ i \in At(2)
    BY <1>1, <1>2, <1>6 DEF At
  <2>2. Cardinality(At(1)') = n /\ Cardinality(At(2)') = m - 1
    BY <1>3, <2>1, FS_RemoveElement
  <2>3. Command(i) = "timed"
    BY <1>6 DEF Command
  <2>4. /\ stats'["timed"] = stats["timed"] + 1
        /\ \A c \in {"total", "allowed", "blocked"} : stats'[c] = stats[c]
    BY <1>3, <2>3 DEF Counters
  <2> QED
    BY <1>3, <2>2, <2>4 DEF Gap, Counters
<1> QED
  BY <1>1, <1>4, <1>5, <1>6

GapInv == TypeOK /\ Gap

LEMMA GapStep == GapInv /\ [Next]_vars => GapInv'
<1> SUFFICES ASSUME GapInv, [Next]_vars PROVE Gap'
  BY TypeStep DEF GapInv
<1>t. TypeOK /\ Gap
  BY DEF GapInv
<1>1. CASE UNCHANGED vars
  BY <1>1, <1>t, GapShrinks DEF vars, At
<1>2. ASSUME NEW allowed \in BOOLEAN, Decide(allowed)
      PROVE  Gap'
  <2>1. /\ updates'[Decided + 1].done = 0
        /\ \A j \in Decisions \ {Decided + 1} : updates'[j] = updates[j]
    BY <1>2, <1>t, NextDecision DEF Decide, TypeOK
  <2>2. At(1)' \subseteq At(1) /\ At(2)' \subseteq At(2)
    BY <2>1 DEF At
  <2> QED
    BY <1>2, <1>t, <2>2, GapShrinks DEF Decide
<1>3. ASSUME NEW i \in Decisions, Execute(i)
      PROVE  Gap'
  BY <1>3, <1>t, GapExecute
<1>4. ASSUME NEW i \in Decisions, Finish(i) \/ Break(i)
      PROVE  Gap'
  <2>1. \A j \in Decisions \ {i} : updates'[j] = updates[j]
    BY <1>4, <1>t DEF Finish, Break, TypeOK
  <2>2. updates'[i].phase # "running" \/ updates'[i].done = 0
    <3>1. updates[i] \in Update
      BY <1>4, <1>t DEF Finish, Break, TypeOK, NoUpdate
    <3> QED
      BY <1>4, <1>t, <3>1 DEF Finish, Break, TypeOK, Update
  <2>3. At(1)' \subseteq At(1) /\ At(2)' \subseteq At(2)
    BY <2>1, <2>2 DEF At
  <2> QED
    BY <1>4, <1>t, <2>3, GapShrinks DEF Finish, Break
<1>5. CASE Shutdown
  <2>1. \A j \in Decisions : updates'[j].phase # "running"
    <3>1. \A u \in Update \union {NoUpdate} :
             [u EXCEPT !.phase = "lost"].phase = "lost"
      BY DEF Update, NoUpdate
    <3> QED
      BY <1>5, <1>t, <3>1 DEF Shutdown, TypeOK
  <2>2. At(1)' \subseteq At(1) /\ At(2)' \subseteq At(2)
    BY <2>1 DEF At
  <2> QED
    BY <1>5, <1>t, <2>2, GapShrinks DEF Shutdown
<1>6. CASE UNCHANGED <<updates, stats>>
  BY <1>6, <1>t, GapShrinks DEF At
<1> QED
  BY <1>1, <1>2, <1>3, <1>4, <1>5, <1>6 DEF Next

LEMMA GapInit == Init => GapInv
<1> SUFFICES ASSUME Init PROVE Gap
  BY InitType DEF GapInv
<1>1. \A k : At(k) = {}
  BY DEF Init, At, NoUpdate
<1>2. Cardinality(At(1)) = 0 /\ Cardinality(At(2)) = 0
  BY <1>1, FS_EmptySet
<1>3. \A c \in Counters : stats[c] = 0
  BY DEF Init, Zero
<1> QED
  BY <1>2, <1>3 DEF Gap, Counters

LEMMA GapOrders == GapInv => CountersOrdered
<1> SUFFICES ASSUME GapInv PROVE CountersOrdered
  OBVIOUS
<1>1. /\ \A c \in Counters : stats[c] \in Nat
      /\ Cardinality(At(1)) \in Nat /\ Cardinality(At(2)) \in Nat
  BY AtType DEF GapInv, TypeOK
<1> QED
  BY <1>1 DEF GapInv, Gap, Counters, CountersOrdered

\* At no instant, whatever is repeated or lost, are there more verdicts than
\* requests or more latencies than verdicts.
THEOREM Ordered == Spec => []CountersOrdered
  BY GapInit, GapStep, GapOrders, PTL DEF Spec

-----------------------------------------------------------------------------
(* The report. *)

Monotone == \A c \in Counters : stats[c] <= stats'[c]

LEMMA CountersGrow == TypeOK /\ [Next]_vars => Monotone
<1> SUFFICES ASSUME TypeOK, [Next]_vars PROVE Monotone
  OBVIOUS
<1>1. \A c \in Counters : stats[c] \in Nat
  BY DEF TypeOK
<1>2. UNCHANGED stats \/ \E i \in Decisions : Execute(i)
  BY DEF Next, vars, Decide, Finish, Break, Shutdown
<1>3. ASSUME NEW i \in Decisions, Execute(i) PROVE Monotone
  BY <1>1, <1>3 DEF Execute, Monotone, TypeOK
<1> QED
  BY <1>1, <1>2, <1>3 DEF Monotone

\* What a report has read of a counter, the counter has reached.
Reached == \A c \in Counters : report.values[c] <= stats[c]

LEMMA ReachedStep == TypeOK /\ Reached /\ [Next]_vars => Reached'
<1> SUFFICES ASSUME TypeOK, Reached, [Next]_vars PROVE Reached'
  OBVIOUS
<1>1. /\ Monotone /\ stats' \in [Counters -> Nat]
      /\ \A c \in Counters : stats[c] \in Nat /\ report.values[c] \in Nat
      /\ report.values \in [Counters -> Nat] /\ report.read \in 0 .. 4
  BY CountersGrow, TypeStep DEF TypeOK
<1>2. CASE report' = report
  BY <1>1, <1>2 DEF Reached, Monotone
<1>3. CASE Get /\ UNCHANGED <<updates, stats, failures>>
  <2>1. PICK c \in Counters :
           report' = Reading(report.read + 1,
                             [report.values EXCEPT ![c] = stats[c]])
    BY <1>1, <1>3 DEF Get, Gets, Counters
  <2> QED
    BY <1>1, <1>3, <2>1 DEF Reached, Reading
<1>4. CASE report' \in {Reading(0, Zero), Reading(4, report.values)}
  <2>1. report'.values = report.values \/ \A c \in Counters : report'.values[c] = 0
    BY <1>4 DEF Reading, Zero
  <2> QED
    BY <1>1, <2>1 DEF Reached, Monotone
<1> QED
  BY <1>2, <1>3, <1>4
  DEF Next, vars, Decide, Execute, Finish, Break, Shutdown, Query, GetsBreak

\* A torn report shows no more verdicts or latencies than requests.
THEOREM Covered == Spec => []ReportCovered
<1>1. Init => GapInv /\ Reached
  <2>1. Init => Reached
    BY DEF Init, Reached, Reading, Zero
  <2> QED
    BY <2>1, GapInit
<1>2. GapInv /\ Reached /\ [Next]_vars => (GapInv /\ Reached)'
  BY GapStep, ReachedStep DEF GapInv
<1>3. GapInv /\ Reached => ReportCovered
  <2> SUFFICES ASSUME GapInv, Reached PROVE ReportCovered
    OBVIOUS
  <2>1. /\ \A c \in Counters : stats[c] \in Nat /\ report.values[c] \in Nat
        /\ CountersOrdered
    BY GapOrders DEF GapInv, TypeOK
  <2> QED
    BY <2>1 DEF Reached, CountersOrdered, ReportCovered, Counters
<1> QED
  BY <1>1, <1>2, <1>3, PTL DEF Spec

-----------------------------------------------------------------------------
(* What the counters count. *)

\* The goroutines that go on or have ended well whose command for counter c was
\* executed in their last attempt.
Counting(c) ==
    {i \in Decisions :
        /\ updates[i].phase \in {"running", "done"}
        /\ \/ c = "total" /\ updates[i].done >= 1
           \/ c = "allowed" /\ updates[i].allowed /\ updates[i].done >= 2
           \/ c = "blocked" /\ ~ updates[i].allowed /\ updates[i].done >= 2
           \/ c = "timed" /\ updates[i].done >= 3}

\* Decisions are taken in their order.
InSequence == \A i \in Decisions : updates[i].phase # "none" <=> i <= Decided

Tallied ==
    \A c \in Counters :
        /\ Cardinality(Counting(c)) <= stats[c]
        /\ failures = 0 => Cardinality(Counting(c)) = stats[c]

Ended ==
    \A i \in Decisions : updates[i].phase = "done" => updates[i].done = 3

ExactInv == TypeOK /\ InSequence /\ Tallied /\ Ended

LEMMA CountingType ==
    \A c : IsFiniteSet(Counting(c)) /\ Cardinality(Counting(c)) \in Nat
  BY DecisionsFinite DEF Counting

LEMMA SequenceStep == TypeOK /\ InSequence /\ [Next]_vars => InSequence'
<1> SUFFICES ASSUME TypeOK, InSequence, [Next]_vars PROVE InSequence'
  OBVIOUS
<1>1. ASSUME Taken' = Taken PROVE InSequence'
  <2>1. Decided' = Decided
    <3>1. Decided' = Cardinality(Taken')
      BY DEF Decided, Taken
    <3> QED
      BY <1>1, <3>1, DecidedType
  <2>2. \A i \in Decisions : updates'[i].phase # "none" <=> updates[i].phase # "none"
    BY <1>1 DEF Taken
  <2> QED
    BY <2>1, <2>2 DEF InSequence
<1>2. ASSUME NEW allowed \in BOOLEAN, Decide(allowed)
      PROVE  InSequence'
  <2> DEFINE n == Decided + 1
  <2>1. n \in Decisions /\ Decided \in Nat /\ n \notin Taken
    BY <1>2, NextDecision, DecidedType DEF Decide, InSequence, Taken, Decisions
  <2>2. /\ updates'[n].phase = "running"
        /\ \A j \in Decisions \ {n} : updates'[j] = updates[j]
    BY <1>2, <2>1 DEF Decide, TypeOK
  <2>3. Taken' = Taken \union {n}
    BY <2>1, <2>2 DEF Taken
  <2>4. Cardinality(Taken') = Cardinality(Taken) + 1
    <3>1. IsFiniteSet(Taken)
      BY DecisionsFinite DEF Taken
    <3> QED
      BY <2>1, <2>3, <3>1, FS_AddElement
  <2>5. Decided' = Decided + 1
    <3>1. Decided' = Cardinality(Taken')
      BY DEF Decided, Taken
    <3> QED
      BY <2>4, <3>1, DecidedType
  <2>6. \A j \in Decisions : j \in Int
    BY DEF Decisions
  <2> QED
    BY <2>1, <2>2, <2>5, <2>6 DEF InSequence
<1>3. ASSUME NEW i \in Decisions, Execute(i) \/ Finish(i) \/ Break(i)
      PROVE  Taken' = Taken
  <2>1. \A j \in Decisions \ {i} : updates'[j] = updates[j]
    BY <1>3 DEF Execute, Finish, Break, TypeOK
  <2>2. updates[i] \in Update /\ updates[i].phase = "running"
    BY <1>3 DEF Execute, Finish, Break, TypeOK, NoUpdate
  <2>3. updates'[i].phase # "none"
    BY <1>3, <2>2 DEF Execute, Finish, Break, TypeOK, Update
  <2> QED
    BY <2>1, <2>2, <2>3 DEF Taken
<1>4. ASSUME Shutdown PROVE Taken' = Taken
  <2>1. \A u \in Update \union {NoUpdate} :
           [u EXCEPT !.phase = "lost"].phase = "lost"
    BY DEF Update, NoUpdate
  <2>2. \A j \in Decisions : \/ updates'[j] = updates[j]
                             \/ /\ updates[j].phase = "running"
                                /\ updates'[j].phase = "lost"
    BY <1>4, <2>1 DEF Shutdown, TypeOK
  <2> QED
    BY <2>2 DEF Taken
<1>5. ASSUME UNCHANGED updates PROVE Taken' = Taken
  BY <1>5 DEF Taken
<1> QED
  BY <1>1, <1>2, <1>3, <1>4, <1>5 DEF Next, vars

LEMMA ExecuteCounts ==
    ASSUME ExactInv, NEW i \in Decisions, Execute(i)
    PROVE  Tallied'
<1> DEFINE k == updates[i].done
           command == Command(i)
<1>1. /\ updates[i] \in Update /\ k \in 0 .. 2
      /\ updates[i].phase = "running"
      /\ updates' = [updates EXCEPT ![i].done = k + 1]
      /\ updates \in [Decisions -> Update \union {NoUpdate}]
  BY DEF Execute, ExactInv, TypeOK, NoUpdate, Update
<1>2. /\ updates'[i].phase = "running" /\ updates'[i].done = k + 1
      /\ updates'[i].allowed = updates[i].allowed
      /\ \A j \in Decisions \ {i} : updates'[j] = updates[j]
  BY <1>1 DEF Update
<1>3. /\ stats \in [Counters -> Nat]
      /\ stats' = [stats EXCEPT ![command] = stats[command] + 1]
      /\ UNCHANGED failures
  BY DEF Execute, ExactInv, TypeOK
<1>4. /\ k = 0 => command = "total"
      /\ k = 1 => command = IF updates[i].allowed THEN "allowed" ELSE "blocked"
      /\ k = 2 => command = "timed"
  BY DEF Command
<1>5. command \in Counters
  BY <1>1, <1>4 DEF Counters
<1>6. ASSUME NEW c \in Counters, c = command
      PROVE  /\ Cardinality(Counting(c)') = Cardinality(Counting(c)) + 1
             /\ stats'[c] = stats[c] + 1
  <2>1. Counting(c)' = Counting(c) \union {i} /\ i \notin Counting(c)
    <3>1. CASE k = 0
      BY <1>1, <1>2, <1>4, <1>6, <3>1 DEF Counting
    <3>2. CASE k = 1
      BY <1>1, <1>2, <1>4, <1>6, <3>2 DEF Counting
    <3>3. CASE k = 2
      BY <1>1, <1>2, <1>4, <1>6, <3>3 DEF Counting
    <3> QED
      BY <1>1, <3>1, <3>2, <3>3
  <2> QED
    BY <1>3, <1>6, <2>1, CountingType, FS_AddElement
<1>7. ASSUME NEW c \in Counters, c # command
      PROVE  Counting(c)' = Counting(c) /\ stats'[c] = stats[c]
  <2>1. i \in Counting(c)' <=> i \in Counting(c)
    <3>1. CASE k = 0
      BY <1>1, <1>2, <1>4, <1>7, <3>1 DEF Counting, Counters
    <3>2. CASE k = 1
      BY <1>1, <1>2, <1>4, <1>7, <3>2 DEF Counting, Counters
    <3>3. CASE k = 2
      BY <1>1, <1>2, <1>4, <1>7, <3>3 DEF Counting, Counters
    <3> QED
      BY <1>1, <3>1, <3>2, <3>3
  <2>2. \A j \in Decisions \ {i} : j \in Counting(c)' <=> j \in Counting(c)
    BY <1>2 DEF Counting
  <2>3. Counting(c) \subseteq Decisions /\ Counting(c)' \subseteq Decisions
    BY DEF Counting
  <2> QED
    BY <1>3, <1>7, <2>1, <2>2, <2>3
<1>8. \A c \in Counters : /\ stats[c] \in Nat
                          /\ Cardinality(Counting(c)) <= stats[c]
                          /\ failures = 0 => Cardinality(Counting(c)) = stats[c]
                          /\ Cardinality(Counting(c)) \in Nat
  BY CountingType, <1>3 DEF ExactInv, Tallied
<1> QED
  BY <1>3, <1>6, <1>7, <1>8 DEF Tallied

\* A step that sends no command counts no goroutine more, and only a failure
\* counts one less.
LEMMA OthersCount ==
    ASSUME ExactInv, UNCHANGED stats, failures' = failures \/ Fail,
           NEW c \in Counters,
           Counting(c)' \subseteq Counting(c),
           Counting(c)' = Counting(c) \/ Fail
    PROVE  /\ Cardinality(Counting(c)') <= stats'[c]
           /\ failures' = 0 => Cardinality(Counting(c)') = stats'[c]
<1>1. /\ Cardinality(Counting(c)') \in Nat
      /\ Cardinality(Counting(c)') <= Cardinality(Counting(c))
      /\ Cardinality(Counting(c)) \in Nat /\ stats[c] \in Nat
  BY CountingType, FS_Subset, FS_CardinalityType DEF ExactInv, TypeOK
<1>2. Fail => failures' # 0
  BY StatisticsAssumption DEF Fail, ExactInv, TypeOK
<1> QED
  BY <1>1, <1>2 DEF ExactInv, Tallied

LEMMA ExactStep == ExactInv /\ [Next]_vars => ExactInv'
<1> SUFFICES ASSUME ExactInv, [Next]_vars PROVE Tallied' /\ Ended'
  BY TypeStep, SequenceStep DEF ExactInv
<1>t. TypeOK /\ updates \in [Decisions -> Update \union {NoUpdate}] /\ Ended
  BY DEF ExactInv, TypeOK
<1>1. ASSUME UNCHANGED <<updates, stats>>, failures' = failures \/ Fail
      PROVE  Tallied' /\ Ended'
  <2>1. \A c \in Counters : Counting(c)' = Counting(c)
    BY <1>1 DEF Counting
  <2>2. Tallied'
    BY <1>1, <2>1, OthersCount DEF Tallied
  <2>3. Ended'
    BY <1>1, <1>t DEF Ended
  <2> QED
    BY <2>2, <2>3
<1>2. ASSUME NEW allowed \in BOOLEAN, Decide(allowed)
      PROVE  Tallied' /\ Ended'
  <2> DEFINE n == Decided + 1
  <2>1. n \in Decisions /\ updates[n].phase = "none"
    BY <1>2, NextDecision, DecidedType DEF Decide, ExactInv, InSequence
  <2>2. /\ updates'[n].done = 0 /\ updates'[n].phase = "running"
        /\ \A j \in Decisions \ {n} : updates'[j] = updates[j]
    BY <1>2, <1>t, <2>1 DEF Decide
  <2>3. \A c \in Counters : Counting(c)' = Counting(c)
    BY <2>1, <2>2 DEF Counting
  <2>4. UNCHANGED <<stats, failures>>
    BY <1>2 DEF Decide
  <2>5. Tallied'
    BY <2>3, <2>4, OthersCount DEF Tallied
  <2>6. Ended'
    BY <1>t, <2>1, <2>2 DEF Ended
  <2> QED
    BY <2>5, <2>6
<1>3. ASSUME NEW i \in Decisions, Execute(i)
      PROVE  Tallied' /\ Ended'
  <2>1. \A j \in Decisions \ {i} : updates'[j] = updates[j]
    BY <1>3, <1>t DEF Execute
  <2>2. updates'[i].phase = "running"
    BY <1>3, <1>t DEF Execute, Update, NoUpdate
  <2> QED
    BY <1>3, <1>t, <2>1, <2>2, ExecuteCounts DEF Ended
<1>4. ASSUME NEW i \in Decisions, Finish(i)
      PROVE  Tallied' /\ Ended'
  <2>1. \A j \in Decisions \ {i} : updates'[j] = updates[j]
    BY <1>4, <1>t DEF Finish
  <2>2. /\ updates'[i].phase = "done" /\ updates[i].phase = "running"
        /\ updates'[i].done = updates[i].done /\ updates[i].done = 3
        /\ updates'[i].allowed = updates[i].allowed
    BY <1>4, <1>t DEF Finish, Update, NoUpdate
  <2>3. \A c \in Counters : Counting(c)' = Counting(c)
    BY <2>1, <2>2 DEF Counting
  <2>4. UNCHANGED <<stats, failures>>
    BY <1>4 DEF Finish
  <2>5. Tallied'
    BY <2>3, <2>4, OthersCount DEF Tallied
  <2> QED
    BY <1>t, <2>1, <2>2, <2>5 DEF Ended
<1>5. ASSUME Fail, UNCHANGED stats,
             \A j \in Decisions :
                \/ updates'[j] = updates[j]
                \/ updates'[j].phase = "lost"
                \/ updates'[j].phase = "running" /\ updates'[j].done = 0
      PROVE  Tallied' /\ Ended'
  <2>1. \A c \in Counters : Counting(c)' \subseteq Counting(c)
    BY <1>5 DEF Counting
  <2>2. Tallied'
    BY <1>5, <2>1, OthersCount DEF Tallied
  <2> QED
    BY <1>5, <1>t, <2>2 DEF Ended
<1>6. ASSUME NEW i \in Decisions, Break(i)
      PROVE  Tallied' /\ Ended'
  <2>1. \A j \in Decisions \ {i} : updates'[j] = updates[j]
    BY <1>6, <1>t DEF Break
  <2>2. updates[i] \in Update
    BY <1>6, <1>t DEF Break, NoUpdate
  <2>3. \/ updates'[i].phase = "lost"
        \/ updates'[i].phase = "running" /\ updates'[i].done = 0
    BY <1>6, <1>t, <2>2 DEF Break, Update
  <2> QED
    BY <1>5, <1>6, <2>1, <2>3 DEF Break
<1>7. CASE Shutdown
  <2>1. \A u \in Update \union {NoUpdate} :
           [u EXCEPT !.phase = "lost"].phase = "lost"
    BY DEF Update, NoUpdate
  <2>2. \A j \in Decisions :
           updates'[j] = updates[j] \/ updates'[j].phase = "lost"
    BY <1>7, <1>t, <2>1 DEF Shutdown
  <2> QED
    BY <1>5, <1>7, <2>2 DEF Shutdown
<1> QED
  BY <1>1, <1>2, <1>3, <1>4, <1>6, <1>7 DEF Next, vars, Query, Get, GetsBreak

LEMMA ExactInit == Init => ExactInv
<1> SUFFICES ASSUME Init PROVE InSequence /\ Tallied /\ Ended
  BY InitType DEF ExactInv
<1>1. \A i \in Decisions : updates[i] = NoUpdate
  BY DEF Init
<1>2. Taken = {} /\ \A c : Counting(c) = {}
  BY <1>1 DEF Taken, Counting, NoUpdate
<1>3. Decided = 0 /\ \A c : Cardinality(Counting(c)) = 0
  BY <1>2, DecidedType, FS_EmptySet
<1>4. \A c \in Counters : stats[c] = 0
  BY DEF Init, Zero
<1>5. InSequence
  BY <1>1, <1>3 DEF InSequence, NoUpdate, Decisions
<1>6. Ended
  BY <1>1 DEF Ended, NoUpdate
<1> QED
  BY <1>3, <1>4, <1>5, <1>6 DEF Tallied

\* Nothing that ended well is missing from the counters, and without failures
\* they are exact.
THEOREM Exact == Spec => []CountersExact
<1>1. ExactInv => CountersExact
  <2> SUFFICES ASSUME ExactInv PROVE CountersExact
    OBVIOUS
  <2> DEFINE over(verdicts, phases, done) ==
               {i \in Decisions : /\ updates[i].allowed \in verdicts
                                  /\ updates[i].phase \in phases
                                  /\ updates[i].done >= done}
  <2>1. \A i \in Decisions : /\ updates[i].allowed \in BOOLEAN
                             /\ updates[i].done \in 0 .. 3
    <3>1. \A u \in Update \union {NoUpdate} :
            u.allowed \in BOOLEAN /\ u.done \in 0 .. 3
      <4>1. NoUpdate.allowed \in BOOLEAN /\ NoUpdate.done \in 0 .. 3
        BY DEF NoUpdate
      <4>2. ASSUME NEW u \in Update
            PROVE  u.allowed \in BOOLEAN /\ u.done \in 0 .. 3
        BY DEF Update
      <4> QED
        BY <4>1, <4>2
    <3>2. \A i \in Decisions : updates[i] \in Update \union {NoUpdate}
      BY DEF ExactInv, TypeOK
    <3> QED
      BY <3>1, <3>2
  <2>2. /\ Counting("total") = over(BOOLEAN, {"running", "done"}, 1)
        /\ Counting("allowed") = over({TRUE}, {"running", "done"}, 2)
        /\ Counting("blocked") = over({FALSE}, {"running", "done"}, 2)
        /\ Counting("timed") = over(BOOLEAN, {"running", "done"}, 3)
    BY <2>1 DEF Counting
  <2>3. /\ over(BOOLEAN, {"done"}, 3) \subseteq Counting("total")
        /\ over({TRUE}, {"done"}, 3) \subseteq Counting("allowed")
        /\ over({FALSE}, {"done"}, 3) \subseteq Counting("blocked")
    <3>1. \A i \in Decisions :
            updates[i].done >= 3 => updates[i].done >= 1 /\ updates[i].done >= 2
      BY <2>1
    <3>2. over(BOOLEAN, {"done"}, 3) \subseteq Counting("total")
      BY <2>2, <3>1
    <3>3. over({TRUE}, {"done"}, 3) \subseteq Counting("allowed")
      BY <2>2, <3>1
    <3>4. over({FALSE}, {"done"}, 3) \subseteq Counting("blocked")
      BY <2>2, <3>1
    <3> QED
      BY <3>2, <3>3, <3>4
  <2>4. \A verdicts, phases, done :
           /\ Count(verdicts, phases, done) = Cardinality(over(verdicts, phases, done))
           /\ Cardinality(over(verdicts, phases, done)) \in Nat
    BY DecisionsFinite DEF Count
  <2> HIDE DEF over
  <2>5. /\ Cardinality(over(BOOLEAN, {"done"}, 3)) <= Cardinality(Counting("total"))
        /\ Cardinality(over({TRUE}, {"done"}, 3)) <= Cardinality(Counting("allowed"))
        /\ Cardinality(over({FALSE}, {"done"}, 3)) <= Cardinality(Counting("blocked"))
    BY <2>3, CountingType, FS_Subset
  <2>6. \A c \in Counters : /\ stats[c] \in Nat
                            /\ Cardinality(Counting(c)) \in Nat
                            /\ Cardinality(Counting(c)) <= stats[c]
                            /\ failures = 0 => Cardinality(Counting(c)) = stats[c]
    BY CountingType DEF ExactInv, TypeOK, Tallied
  <2> QED
    BY <2>2, <2>4, <2>5, <2>6 DEF CountersExact, Counters
<1> QED
  BY <1>1, ExactInit, ExactStep, PTL DEF Spec

=============================================================================
