--------------------------- MODULE CollectorProofs ---------------------------
(***************************************************************************)
(* Collector for any series, rows and failures: types, and what a pass has *)
(* in hand is about its own gauges, so that a part that was skipped or     *)
(* ended leaves nothing behind that a later part would show.               *)
(***************************************************************************)
EXTENDS Collector, TLAPS

LEMMA PartsAre ==
    /\ Parts = {"keys", "rules", "activity"}
    /\ \A p \in Parts : Tables[p] \subseteq Series
    /\ Tables["keys"] = KeySeries /\ Tables["rules"] = RuleSeries
    /\ Tables["activity"] = ClientSeries
    /\ Showing["keys"] = "show keys" /\ Showing["rules"] = "show rules"
    /\ Showing["activity"] = "show activity"
    /\ After["keys"] = "rules" /\ After["rules"] = "redis"
    /\ After["redis"] = "activity" /\ After["activity"] = "waiting"
  BY DEF Parts, Tables, Showing, After, Series

LEMMA Bounds ==
    /\ 0 \in 0 .. MaxRows /\ 0 \in 0 .. MaxFailures
    /\ \A n \in 0 .. MaxRows : n > 0 => n \in 1 .. MaxRows
  BY CollectorAssumption DEF CollectorAssumption

LEMMA FailType == failures \in 0 .. MaxFailures /\ Fail =>
                     failures' \in 0 .. MaxFailures
  BY CollectorAssumption DEF CollectorAssumption, Fail

LEMMA TypeInit == Init => TypeOK
<1>1. [s \in Series |-> Unset] \in [Series -> {Unset} \union 1 .. MaxRows]
  OBVIOUS
<1>2. Nothing \in [Series -> 0 .. MaxRows]
  BY Bounds DEF Nothing
<1> QED
  BY <1>1, <1>2, Bounds DEF Init, TypeOK

LEMMA TypeStep == TypeOK /\ [Next]_vars => TypeOK'
<1> SUFFICES ASSUME TypeOK, [Next]_vars
             PROVE  TypeOK'
  OBVIOUS
<1>1. CASE UNCHANGED vars
  BY <1>1 DEF vars, timer, TypeOK
<1>2. ASSUME NEW p \in Parts, Query(p)
      PROVE  TypeOK'
  <2>1. \A s \in Series :
           (IF s \in Tables[p] THEN rows[s] ELSE 0) \in 0 .. MaxRows
    BY Bounds DEF TypeOK
  <2>2. snapshot' \in [Series -> 0 .. MaxRows]
    BY <1>2, <2>1 DEF Query
  <2>3. phase' \in {"show keys", "show rules", "show activity"}
    BY <1>2, PartsAre DEF Query
  <2> QED
    BY <1>2, <2>2, <2>3 DEF Query, TypeOK, timer
<1>3. ASSUME NEW p \in Parts, Shown(p) \/ QueryFails(p)
      PROVE  TypeOK'
  <2>1. phase' \in {"rules", "redis", "waiting"}
    BY <1>3, PartsAre DEF Shown, QueryFails
  <2>2. ticking' \in BOOLEAN /\ failures' \in 0 .. MaxFailures
    BY <1>3, FailType DEF Shown, QueryFails, Ends, TypeOK
  <2> QED
    BY <1>3, <2>1, <2>2 DEF Shown, QueryFails, TypeOK
<1>4. ASSUME NEW p \in Parts, NEW s \in Series, Show(p, s)
      PROVE  TypeOK'
  <2>1. snapshot[s] \in {Unset} \union 1 .. MaxRows
    BY <1>4, Bounds DEF Show, TypeOK
  <2>2. /\ gauge' \in [Series -> {Unset} \union 1 .. MaxRows]
        /\ snapshot' \in [Series -> 0 .. MaxRows]
    BY <1>4, <2>1, Bounds DEF Show, TypeOK
  <2> QED
    BY <1>4, <2>2 DEF Show, TypeOK, timer
<1>5. CASE Info \/ InfoFails
  <2>1. phase' = "activity" /\ failures' \in 0 .. MaxFailures
    BY <1>5, PartsAre, FailType DEF Info, InfoFails, TypeOK
  <2> QED
    BY <1>5, <2>1 DEF Info, InfoFails, TypeOK, timer
<1>6. CASE Wake \/ Leave \/ Tick \/ Stop
  BY <1>6 DEF Wake, Leave, Tick, Stop, TypeOK, timer
<1>7. ASSUME NEW s \in Series, Change(s)
      PROVE  TypeOK'
  BY <1>7 DEF Change, TypeOK, timer
<1> QED
  BY <1>1, <1>2, <1>3, <1>4, <1>5, <1>6, <1>7 DEF Next, Collect

\* The collector, its gauges and the tables keep their form.
THEOREM Typing == Spec => []TypeOK
  BY TypeInit, TypeStep, PTL DEF Spec

-----------------------------------------------------------------------------

\* What a query has read and was not shown yet belongs to the part that is
\* being shown.
OwnSnapshot ==
    \A s \in Series : snapshot[s] > 0 =>
        \E p \in Parts : phase = Showing[p] /\ s \in Tables[p]

\* Nobody waits for a tick or a stop before the first pass is over.
Started ==
    /\ phase \in {"waiting", "stopped"} \/ tick \/ stopping => ticking
    /\ phase = "stopped" => stopping

PassInv == TypeOK /\ OwnSnapshot /\ Started

LEMMA PassStep == PassInv /\ [Next]_vars => PassInv'
<1> SUFFICES ASSUME PassInv, [Next]_vars
             PROVE  PassInv'
  OBVIOUS
<1> USE DEF PassInv
<1>0. TypeOK'
  BY TypeStep
<1>1. CASE UNCHANGED vars
  BY <1>0, <1>1 DEF vars, timer, OwnSnapshot, Started
<1>2. ASSUME NEW p \in Parts, Query(p)
      PROVE  PassInv'
  <2>1. OwnSnapshot'
    BY <1>2 DEF Query, OwnSnapshot
  <2>2. Started'
    BY <1>2, PartsAre DEF Query, Started, timer
  <2> QED
    BY <1>0, <2>1, <2>2
<1>3. ASSUME NEW p \in Parts, Shown(p) \/ QueryFails(p)
      PROVE  PassInv'
  <2>1. \A s \in Series : ~ snapshot'[s] > 0
    <3>1. CASE Shown(p)
      BY <3>1 DEF Shown, Nothing
    <3>2. CASE QueryFails(p)
      BY <1>3, <3>2, PartsAre DEF QueryFails, OwnSnapshot
    <3> QED
      BY <1>3, <3>1, <3>2
  <2>2. Started'
    <3>1. /\ phase' = After[p] /\ phase' # "stopped"
          /\ phase' = "waiting" => ticking' = TRUE
          /\ ticking = TRUE => ticking' = TRUE
      BY <1>3, PartsAre DEF Shown, QueryFails, Ends
    <3>2. UNCHANGED <<tick, stopping>>
      BY <1>3 DEF Shown, QueryFails
    <3>3. ticking \in BOOLEAN
      BY DEF TypeOK
    <3> QED
      BY <3>1, <3>2, <3>3 DEF Started
  <2> QED
    BY <1>0, <2>1, <2>2 DEF OwnSnapshot
<1>4. ASSUME NEW p \in Parts, NEW s \in Series, Show(p, s)
      PROVE  PassInv'
  <2>1. \A r \in Series : snapshot'[r] > 0 => snapshot[r] > 0
    BY <1>4 DEF Show, TypeOK
  <2>2. OwnSnapshot'
    BY <1>4, <2>1 DEF Show, OwnSnapshot
  <2>3. Started'
    BY <1>4 DEF Show, Started, timer
  <2> QED
    BY <1>0, <2>2, <2>3
<1>5. CASE Info \/ InfoFails
  <2>1. \A s \in Series : ~ snapshot[s] > 0
    BY <1>5, PartsAre DEF Info, InfoFails, OwnSnapshot
  <2>2. UNCHANGED snapshot /\ phase' = "activity" /\ UNCHANGED timer
    BY <1>5, PartsAre DEF Info, InfoFails, timer
  <2> QED
    BY <1>0, <2>1, <2>2 DEF OwnSnapshot, Started, timer
<1>6. CASE Wake \/ Leave \/ Tick \/ Stop
  <2>1. OwnSnapshot'
    BY <1>6, PartsAre DEF Wake, Leave, Tick, Stop, OwnSnapshot
  <2>2. Started'
    BY <1>6 DEF Wake, Leave, Tick, Stop, Started, timer, TypeOK
  <2> QED
    BY <1>0, <2>1, <2>2
<1>7. ASSUME NEW s \in Series, Change(s)
      PROVE  PassInv'
  BY <1>0, <1>7 DEF Change, OwnSnapshot, Started, timer
<1> QED
  BY <1>1, <1>2, <1>3, <1>4, <1>5, <1>6, <1>7 DEF Next, Collect

\* Nothing that one part of a pass has counted is shown by another, and no
\* stop is taken before the first pass (collectMetrics and Start).
THEOREM PassesApart == Spec => [](OwnSnapshot /\ Started)
<1>1. Init => PassInv
  BY TypeInit DEF PassInv, Init, OwnSnapshot, Started, Nothing
<1>2. PassInv => OwnSnapshot /\ Started
  BY DEF PassInv
<1> QED
  BY <1>1, <1>2, PassStep, PTL DEF Spec

=============================================================================
