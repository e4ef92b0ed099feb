------------------------ MODULE SlidingWindowProofs ------------------------
(***************************************************************************)
(* Proofs about SlidingWindow for every value of its constants.            *)
(***************************************************************************)
EXTENDS SlidingWindow, FiniteSetTheorems, TLAPS

-----------------------------------------------------------------------------
(* Lemmas about the sorted set. *)

\* Sets of stamps are finite, and their cardinalities are monotone.
LEMMA StampSets ==
    ASSUME NEW S \in SUBSET Times
    PROVE  /\ IsFiniteSet(S)
           /\ Cardinality(S) \in Nat
           /\ \A T \in SUBSET S : Cardinality(T) <= Cardinality(S)
<1>1. IsFiniteSet(Times)
  BY FS_Interval, WindowAssumption DEF Times
<1>2. IsFiniteSet(S)
  BY <1>1, FS_Subset
<1>. QED  BY <1>2, FS_Subset, FS_CardinalityType

\* One more element makes a set larger by at most one.
LEMMA AddStamp ==
    ASSUME NEW S \in SUBSET Times, NEW x
    PROVE  /\ IsFiniteSet(S \union {x})
           /\ Cardinality(S \union {x}) \in Nat
           /\ Cardinality(S \union {x}) <= Cardinality(S) + 1
<1>1. IsFiniteSet(S) /\ Cardinality(S) \in Nat
  BY StampSets
<1>. QED  BY <1>1, FS_AddElement

\* What a script leaves in the set is within the limit of its rule, if it
\* admitted its stamp.
LEMMA AdmittedFits ==
    ASSUME entries \in SUBSET Times, NEW r \in Rules, NEW now \in Times,
           Allows(r, now)
    PROVE  Cardinality(Kept(r, now) \union {now}) <= MaxLimit
<1>1. Kept(r, now) \in SUBSET Times
  BY DEF Kept
<1>2. Cardinality(Kept(r, now)) \in Nat
  BY <1>1, StampSets
<1>3. Cardinality(Kept(r, now) \union {now}) \in Nat
      /\ Cardinality(Kept(r, now) \union {now}) <= Cardinality(Kept(r, now)) + 1
  BY <1>1, AddStamp
<1>4. Limit[r] \in Nat /\ Limit[r] <= MaxLimit
  BY WindowAssumption
<1>. QED  BY <1>2, <1>3, <1>4, WindowAssumption DEF Allows

-----------------------------------------------------------------------------
(* Typing and size. *)

\* Every variable keeps its type, and the set its bound: what GetWindowState
\* reports is within the limit whatever runs between its two commands.
THEOREM TypingAndSize == Spec => [](TypeOK /\ SizeBound)
<1>. USE WindowAssumption
<1>1. ASSUME Init
      PROVE  TypeOK /\ SizeBound
  <2>1. call \in [Calls -> Idle]
    BY <1>1 DEF Init, Idle, Returned
  <2>2. 0 \in 0 .. MaxClock
    OBVIOUS
  <2>3. SizeBound
    BY <1>1, FS_EmptySet DEF Init, SizeBound
  <2>. QED  BY <1>1, <2>1, <2>2, <2>3 DEF Init, TypeOK
<1>2. TypeOK /\ SizeBound /\ [Next]_vars => TypeOK' /\ SizeBound'
  <2>. SUFFICES ASSUME TypeOK, SizeBound, [Next]_vars
                PROVE  TypeOK' /\ SizeBound'
    OBVIOUS
  <2>. DEFINE States == Sent \union Purging \union Counting \union Idle
  <2>1. ASSUME NEW c \in Calls, call[c].phase = "sent"
        PROVE  /\ call[c] \in Sent
               /\ call[c].rule \in Rules /\ call[c].now \in Times
               /\ call[c].left \in 0 .. MaxRetries /\ call[c].counted \in BOOLEAN
    <3>1. call[c] \in Sent
      BY <2>1 DEF TypeOK, Sent, Purging, Counting, Idle
    <3>. QED  BY <3>1 DEF Sent
  <2>2. ASSUME NEW r \in Rules, NEW now \in Times
        PROVE  Kept(r, now) \in SUBSET Times /\ Cardinality(Kept(r, now)) <= MaxLimit
    <3>1. Kept(r, now) \in SUBSET entries /\ entries \in SUBSET Times
      BY DEF Kept, TypeOK
    <3>2. /\ Cardinality(entries) \in Nat /\ Cardinality(Kept(r, now)) \in Nat
          /\ Cardinality(Kept(r, now)) <= Cardinality(entries)
      BY <3>1, StampSets
    <3>. QED  BY <3>1, <3>2 DEF SizeBound
  <2>3. ASSUME NEW c \in Calls, call[c].phase = "sent", RunScript(c),
               clock' = clock, call' \in [Calls -> States]
        PROVE  TypeOK' /\ SizeBound'
    <3>. DEFINE r == call[c].rule
                now == call[c].now
    <3>1. r \in Rules /\ now \in Times
      BY <2>1, <2>3
    <3>2. entries' \in SUBSET Times /\ SizeBound'
      <4>1. CASE Allows(r, now)
        BY <2>2, <2>3, <3>1, <4>1, AdmittedFits
           DEF RunScript, Script, SizeBound, TypeOK
      <4>2. CASE ~ Allows(r, now)
        BY <2>2, <2>3, <3>1, <4>2 DEF RunScript, Script, SizeBound
      <4>. QED  BY <4>1, <4>2
    <3>3. expires' \in Nat
      BY <2>3, <3>1 DEF RunScript, Script, TypeOK
    <3>4. granted' \in [Rules -> [Times -> Nat]]
      <4>1. granted[r][now] + 1 \in Nat
        BY <3>1 DEF TypeOK
      <4>2. [granted[r] EXCEPT ![now] = granted[r][now] + 1] \in [Times -> Nat]
        BY <3>1, <4>1 DEF TypeOK
      <4>. QED  BY <2>3, <3>1, <4>2 DEF RunScript, Script, TypeOK
    <3>5. verdict' \in {"none", "allow", "deny"}
      BY <2>3 DEF RunScript, Script
    <3>. QED  BY <2>3, <3>2, <3>3, <3>4, <3>5 DEF TypeOK
  <2>4. ASSUME NEW reply \in {"none", "allowed", "denied", "counted", "error"},
               NEW n \in 0 .. MaxLimit
        PROVE  Returned(reply, n) \in States
    BY DEF Returned, Idle
  <2>5. ASSUME NEW c \in Calls, NEW counted \in BOOLEAN,
               call[c].phase = "sent", Resend(c, counted)
        PROVE  call' \in [Calls -> States]
    <3>1. CASE call[c].left > 0
      <4>. DEFINE again == [call[c] EXCEPT !.left = call[c].left - 1,
                                           !.counted = counted]
      <4>1. again \in Sent
        <5>1. call[c] \in Sent /\ call[c].left - 1 \in 0 .. MaxRetries
          BY <2>1, <2>5, <3>1
        <5>. QED  BY <5>1 DEF Sent
      <4>2. call' = [call EXCEPT ![c] = again]
        BY <2>5, <3>1 DEF Resend
      <4>. HIDE DEF again
      <4>. QED  BY <4>1, <4>2 DEF TypeOK
    <3>2. CASE ~ (call[c].left > 0)
      <4>1. call' = [call EXCEPT ![c] = Returned("error", 0)]
        BY <2>5, <3>2 DEF Resend
      <4>2. Returned("error", 0) \in States
        BY <2>4
      <4>. QED  BY <4>1, <4>2 DEF TypeOK
    <3>. QED  BY <3>1, <3>2
  <2>6. ASSUME NEW c \in Calls, NEW r \in Rules, NEW now \in Times,
               AllowRequest(c, r, now) \/ GetWindowState(c, r, now)
        PROVE  TypeOK' /\ SizeBound'
    <3>1. call' \in [Calls -> States]
      <4>1. CASE AllowRequest(c, r, now)
        BY <4>1 DEF AllowRequest, TypeOK, Sent
      <4>2. CASE GetWindowState(c, r, now)
        BY <4>2 DEF GetWindowState, TypeOK, Purging
      <4>. QED  BY <2>6, <4>1, <4>2
    <3>. QED  BY <2>6, <3>1
              DEF AllowRequest, GetWindowState, TypeOK, SizeBound, history
  <2>7. ASSUME NEW c \in Calls, Eval(c)
        PROVE  TypeOK' /\ SizeBound'
    <3>1. PICK reply \in {"allowed", "denied"} :
            call' = [call EXCEPT ![c] = Returned(reply, 0)]
      BY <2>7 DEF Eval
    <3>2. Returned(reply, 0) \in States
      BY <2>4
    <3>3. call' \in [Calls -> States]
      BY <3>1, <3>2 DEF TypeOK
    <3>. QED  BY <2>3, <2>7, <3>3 DEF Eval
  <2>8. ASSUME NEW c \in Calls, EvalReplyLost(c)
        PROVE  TypeOK' /\ SizeBound'
    <3>1. (call[c].counted \/ Allows(call[c].rule, call[c].now)) \in BOOLEAN
      BY <2>1, <2>8 DEF EvalReplyLost, Allows
    <3>. QED  BY <2>3, <2>5, <2>8, <3>1 DEF EvalReplyLost
  <2>9. ASSUME NEW c \in Calls, EvalNotSent(c)
        PROVE  TypeOK' /\ SizeBound'
    <3>1. call' \in [Calls -> States]
      BY <2>1, <2>5, <2>9 DEF EvalNotSent
    <3>. QED  BY <2>9, <3>1 DEF EvalNotSent, TypeOK, SizeBound, history
  <2>10. ASSUME NEW c \in Calls, Purge(c)
         PROVE  TypeOK' /\ SizeBound'
    <3>1. call[c].rule \in Rules /\ call[c].now \in Times
      BY <2>10 DEF Purge, TypeOK, Sent, Purging, Counting, Idle
    <3>2. call' \in [Calls -> States]
      BY <2>10 DEF Purge, TypeOK, Counting
    <3>. QED  BY <2>2, <2>10, <3>1, <3>2 DEF Purge, TypeOK, SizeBound, history
  <2>11. ASSUME NEW c \in Calls, Count(c)
         PROVE  TypeOK' /\ SizeBound'
    <3>1. Cardinality(entries) \in 0 .. MaxLimit
      BY StampSets DEF TypeOK, SizeBound
    <3>2. Returned("counted", Cardinality(entries)) \in States
      BY <2>4, <3>1
    <3>. QED  BY <2>11, <3>2 DEF Count, TypeOK, SizeBound, history
  <2>12. ASSUME NEW c \in Calls, StateError(c)
         PROVE  TypeOK' /\ SizeBound'
    <3>1. Returned("error", 0) \in States
      BY <2>4
    <3>. QED  BY <2>12, <3>1 DEF StateError, TypeOK, SizeBound, history
  <2>13. CASE Expire
    BY <2>13, FS_EmptySet DEF Expire, TypeOK, SizeBound, history
  <2>14. CASE Tick
    BY <2>14 DEF Tick, TypeOK, SizeBound, history
  <2>15. CASE UNCHANGED vars
    BY <2>15 DEF vars, TypeOK, SizeBound, history
  <2>. QED  BY <2>6, <2>7, <2>8, <2>9, <2>10, <2>11, <2>12, <2>13, <2>14, <2>15
            DEF Next
<1>. QED  BY <1>1, <1>2, PTL DEF Spec

\* Every variable keeps its type: the set holds stamps, each admitted once or
\* more, and each call what its phase has read.
THEOREM Typing == Spec => []TypeOK
  BY TypingAndSize, PTL

\* The set never holds more stamps than the largest limit, and GetWindowState
\* never reports more, whatever runs between its two commands.
THEOREM Sizes == Spec => []SizeBound
  BY TypingAndSize, PTL

-----------------------------------------------------------------------------
(* What the limiter forgets is out of reach. *)

\* A call whose script is on its way carries a stamp close to the clock.
LEMMA SentStamp ==
    ASSUME TypeOK, Retained, NEW c \in Calls,
           call[c].phase \in {"sent", "purging"}
    PROVE  /\ call[c].rule \in Rules /\ call[c].now \in Times
           /\ call[c].now <= clock + MaxSkew /\ clock <= call[c].now + MaxLag
<1>1. call[c] \in Sent \union Purging
  BY DEF TypeOK, Sent, Purging, Counting, Idle
<1>2. /\ call[c].issued \in Nat /\ call[c].now \in Times /\ call[c].now \in Nat
      /\ call[c].rule \in Rules /\ clock \in Nat
  BY <1>1, WindowAssumption DEF TypeOK, Sent, Purging, Times
<1>3. /\ call[c].issued <= clock /\ clock <= call[c].issued + MaxLag
      /\ call[c].issued <= call[c].now /\ call[c].now <= call[c].issued + MaxSkew
  BY DEF Retained
<1>. QED  BY <1>2, <1>3, WindowAssumption

\* Counting a request adds at most its stamp to the admitted ones.
LEMMA ScriptStamps ==
    ASSUME TypeOK, Retained, NEW c \in Calls, call[c].phase = "sent", RunScript(c)
    PROVE  /\ Stamps' = IF Allows(call[c].rule, call[c].now)
                           THEN Stamps \union {call[c].now} ELSE Stamps
           /\ \A q \in Rules, s \in Times : granted'[q][s] >= granted[q][s]
<1>. DEFINE r == call[c].rule
            now == call[c].now
<1>1. r \in Rules /\ now \in Times
  BY SentStamp
<1>2. \A q \in Rules, s \in Times : granted[q][s] \in Nat
  BY DEF TypeOK
<1>3. CASE Allows(r, now) /\ ~ call[c].counted
  <2>1. granted' = [granted EXCEPT ![r][now] = granted[r][now] + 1]
    BY <1>3 DEF RunScript, Script
  <2>2. \A q \in Rules, s \in Times :
           granted'[q][s] = IF q = r /\ s = now THEN granted[q][s] + 1
                                               ELSE granted[q][s]
    BY <1>1, <2>1 DEF TypeOK
  <2>3. Stamps' = {s \in Times : \E q \in Rules : granted'[q][s] > 0}
    BY DEF Stamps
  <2>. QED  BY <1>1, <1>2, <1>3, <2>2, <2>3 DEF Stamps
<1>4. CASE ~ (Allows(r, now) /\ ~ call[c].counted)
  <2>1. granted' = granted
    BY <1>4 DEF RunScript, Script
  <2>2. call[c].counted => now \in Stamps
    BY <1>1 DEF Retained, Stamps
  <2>. QED  BY <1>2, <1>4, <2>1, <2>2, SentStamp DEF Stamps, TypeOK, Sent, Purging
<1>. QED  BY <1>3, <1>4

\* The sorted set loses an admitted stamp only when no stamp still to come can
\* have it in its window, disorder apart.
THEOREM Retention == Spec => []Retained
<1>. USE WindowAssumption
<1>1. Init => Retained
  BY DEF Init, Retained, Returned, Stamps
<1>2. TypeOK /\ TypeOK' /\ Retained /\ [Next]_vars => Retained'
  <2>. SUFFICES ASSUME TypeOK, TypeOK', Retained, [Next]_vars
                PROVE  Retained'
    OBVIOUS
  <2>. DEFINE InTime(d) ==
                call[d].phase \in {"sent", "purging"} =>
                  /\ call[d].issued <= clock /\ clock <= call[d].issued + MaxLag
                  /\ call[d].issued <= call[d].now
                  /\ call[d].now <= call[d].issued + MaxSkew
              Counted(d) == call[d].phase = "sent" /\ call[d].counted =>
                              granted[call[d].rule][call[d].now] > 0
              Held == /\ \A s \in Stamps : s <= clock + MaxSkew
                      /\ entries \subseteq Stamps
                      /\ \A e \in entries :
                           e + MinWindow + Slack <= expires + MaxSkew
                      /\ \A s \in Stamps \ entries :
                           s + MinWindow <= clock + MaxSkew
  <2>1. Retained' <=> (\A d \in Calls : InTime(d)' /\ Counted(d)') /\ Held'
    BY DEF Retained
  <2>2. \A d \in Calls : InTime(d) /\ Counted(d)
    BY DEF Retained
  <2>3. ASSUME UNCHANGED granted
        PROVE  Stamps' = Stamps
    BY <2>3 DEF Stamps
  <2>4. Times \subseteq Nat /\ clock \in Nat /\ expires \in Nat
        /\ entries \subseteq Times /\ Stamps \subseteq Times
    BY DEF TypeOK, Times, Stamps
  <2>5. ASSUME UNCHANGED <<clock, entries, expires, granted>>
        PROVE  Held'
    BY <2>3, <2>5 DEF Retained
  <2>6. ASSUME NEW c \in Calls, call[c].phase = "sent", RunScript(c), clock' = clock
        PROVE  Held'
    <3>. DEFINE r == call[c].rule
                now == call[c].now
    <3>1. /\ r \in Rules /\ now \in Times /\ now \in Nat
          /\ now <= clock + MaxSkew /\ clock <= now + MaxLag
      BY <2>4, <2>6, SentStamp
    <3>2. Stamps' = IF Allows(r, now) THEN Stamps \union {now} ELSE Stamps
      BY <2>6, ScriptStamps
    <3>3. /\ entries' = IF Allows(r, now) THEN Kept(r, now) \union {now}
                                          ELSE Kept(r, now)
          /\ expires' = clock + Window[r] + Slack
      BY <2>6 DEF RunScript, Script
    <3>4. Window[r] \in Nat /\ MinWindow <= Window[r]
      BY <3>1
    <3>5. entries \subseteq Stamps /\ Kept(r, now) \subseteq entries
      BY DEF Retained, Kept
    <3>6. entries' \subseteq Stamps'
      BY <3>2, <3>3, <3>5
    <3>7. \A s \in Stamps' : s <= clock + MaxSkew
      BY <3>1, <3>2 DEF Retained
    <3>8. ASSUME NEW e \in entries'
          PROVE  e + MinWindow + Slack <= expires' + MaxSkew
      <4>1. e \in Nat /\ e <= clock + MaxSkew
        BY <2>4, <3>1, <3>2, <3>6, <3>7, <3>8
      <4>. QED  BY <2>4, <3>3, <3>4, <4>1
    <3>9. ASSUME NEW s \in Stamps' \ entries'
          PROVE  s + MinWindow <= clock' + MaxSkew
      <4>1. s \in Stamps /\ s \in Nat /\ s \notin Kept(r, now)
        BY <2>4, <3>2, <3>3, <3>9
      <4>2. CASE s \in entries
        <5>1. s <= now - Window[r]
          BY <3>1, <3>4, <4>1, <4>2 DEF Kept
        <5>. QED  BY <2>4, <2>6, <3>1, <3>4, <4>1, <5>1
      <4>3. CASE s \notin entries
        BY <2>6, <4>1, <4>3 DEF Retained
      <4>. QED  BY <4>2, <4>3
    <3>. QED  BY <2>6, <3>6, <3>7, <3>8, <3>9
  <2>7. ASSUME NEW c \in Calls, NEW r \in Rules, NEW now \in Times,
               AllowRequest(c, r, now) \/ GetWindowState(c, r, now)
        PROVE  Retained'
    <3>1. ASSUME NEW d \in Calls
          PROVE  InTime(d)' /\ Counted(d)'
      <4>1. CASE d = c
        BY <2>4, <2>7, <4>1 DEF AllowRequest, GetWindowState, TypeOK
      <4>2. CASE d # c
        BY <2>2, <2>7, <4>2 DEF AllowRequest, GetWindowState, TypeOK, history
      <4>. QED  BY <4>1, <4>2
    <3>2. Held'
      BY <2>5, <2>7 DEF AllowRequest, GetWindowState, history
    <3>. QED  BY <2>1, <3>1, <3>2
  <2>8. ASSUME NEW c \in Calls, Eval(c) \/ EvalReplyLost(c) \/ EvalNotSent(c)
        PROVE  Retained'
    <3>1. call[c] \in Sent /\ clock' = clock
      BY <2>8 DEF Eval, EvalReplyLost, EvalNotSent, TypeOK,
                  Sent, Purging, Counting, Idle
    <3>. DEFINE counts == call[c].counted
                          \/ (RunScript(c) /\ Allows(call[c].rule, call[c].now))
    <3>2. /\ \A d \in Calls : d # c => call'[d] = call[d]
          /\ \/ call'[c].phase = "idle"
             \/ /\ call'[c].phase = "sent" /\ call'[c].rule = call[c].rule
                /\ call'[c].issued = call[c].issued /\ call'[c].now = call[c].now
                /\ call'[c].counted => counts
      <4>1. ASSUME NEW reply, call' = [call EXCEPT ![c] = Returned(reply, 0)]
            PROVE  call'[c].phase = "idle" /\ \A d \in Calls : d # c => call'[d] = call[d]
        BY <4>1 DEF TypeOK, Returned
      <4>2. ASSUME NEW counted, Resend(c, counted)
            PROVE  /\ \A d \in Calls : d # c => call'[d] = call[d]
                   /\ \/ call'[c].phase = "idle"
                      \/ /\ call'[c].phase = "sent"
                         /\ call'[c].rule = call[c].rule
                         /\ call'[c].issued = call[c].issued
                         /\ call'[c].now = call[c].now
                         /\ call'[c].counted = counted
        <5>1. CASE call[c].left > 0
          <6>1. call'= [call EXCEPT ![c] = [call[c] EXCEPT !.left = call[c].left - 1,
                                                          !.counted = counted]]
            BY <4>2, <5>1 DEF Resend
          <6>2. call'[c] = [call[c] EXCEPT !.left = call[c].left - 1,
                                           !.counted = counted]
            BY <6>1 DEF TypeOK
          <6>. QED  BY <3>1, <6>1, <6>2 DEF TypeOK, Sent
        <5>2. CASE ~ (call[c].left > 0)
          BY <4>1, <4>2, <5>2 DEF Resend
        <5>. QED  BY <5>1, <5>2
      <4>3. CASE Eval(c)
        BY <4>1, <4>3 DEF Eval
      <4>4. CASE EvalReplyLost(c)
        BY <4>2, <4>4 DEF EvalReplyLost
      <4>5. CASE EvalNotSent(c)
        BY <4>2, <4>5 DEF EvalNotSent
      <4>. QED  BY <2>8, <4>3, <4>4, <4>5
    <3>3. \A q \in Rules, s \in Times :
             granted[q][s] > 0 => granted'[q][s] > 0
      <4>1. CASE RunScript(c)
        BY <2>8, <4>1, ScriptStamps
           DEF Eval, EvalReplyLost, EvalNotSent, TypeOK
      <4>2. CASE ~ RunScript(c)
        BY <2>8, <4>2 DEF Eval, EvalReplyLost, EvalNotSent, history
      <4>. QED  BY <4>1, <4>2
    <3>4. ASSUME NEW d \in Calls
          PROVE  InTime(d)'
      BY <2>2, <3>1, <3>2, <3>4 DEF Sent
    <3>5. ASSUME NEW d \in Calls, call'[d].phase = "sent", call'[d].counted
          PROVE  granted'[call'[d].rule][call'[d].now] > 0
      <4>1. CASE d # c
        <5>1. call[d] \in Sent
          BY <3>2, <3>5, <4>1 DEF TypeOK, Sent, Purging, Counting, Idle
        <5>. QED  BY <2>2, <3>2, <3>3, <3>5, <4>1, <5>1 DEF Sent
      <4>2. CASE d = c /\ call[c].counted
        BY <2>2, <3>1, <3>2, <3>3, <3>5, <4>2 DEF Sent
      <4>3. CASE d = c /\ ~ call[c].counted
        <5>1. /\ RunScript(c) /\ Allows(call[c].rule, call[c].now)
              /\ call[c].rule \in Rules /\ call[c].now \in Times
          BY <3>1, <3>2, <3>5, <4>3 DEF Sent
        <5>2. granted' = [granted EXCEPT ![call[c].rule][call[c].now] =
                            granted[call[c].rule][call[c].now] + 1]
          BY <4>3, <5>1 DEF RunScript, Script
        <5>3. granted'[call[c].rule][call[c].now]
                = granted[call[c].rule][call[c].now] + 1
          BY <5>1, <5>2 DEF TypeOK
        <5>. QED  BY <3>2, <3>5, <4>3, <5>1, <5>3 DEF TypeOK
      <4>. QED  BY <4>1, <4>2, <4>3
    <3>6. Held'
      BY <2>5, <2>6, <2>8 DEF Eval, EvalReplyLost, EvalNotSent, history
    <3>. QED  BY <2>1, <3>4, <3>5, <3>6
  <2>9. ASSUME NEW c \in Calls, Purge(c)
        PROVE  Retained'
    <3>. DEFINE r == call[c].rule
                now == call[c].now
    <3>1. /\ r \in Rules /\ now \in Times /\ now \in Nat /\ now <= clock + MaxSkew
          /\ Window[r] \in Nat /\ MinWindow <= Window[r]
      BY <2>4, <2>9, SentStamp DEF Purge
    <3>2. /\ entries' = Kept(r, now) /\ clock' = clock /\ expires' = expires
          /\ Stamps' = Stamps
      BY <2>3, <2>9 DEF Purge, history
    <3>3. ASSUME NEW s \in Stamps' \ entries'
          PROVE  s + MinWindow <= clock' + MaxSkew
      <4>1. CASE s \in entries
        BY <2>4, <3>1, <3>2, <3>3, <4>1 DEF Kept
      <4>2. CASE s \notin entries
        BY <3>2, <3>3, <4>2 DEF Retained
      <4>. QED  BY <4>1, <4>2
    <3>4. Held'
      BY <3>2, <3>3 DEF Kept, Retained
    <3>5. \A d \in Calls : InTime(d)' /\ Counted(d)'
      BY <2>2, <2>9 DEF Purge, TypeOK, history
    <3>. QED  BY <2>1, <3>4, <3>5
  <2>10. ASSUME NEW c \in Calls, Count(c) \/ StateError(c)
         PROVE  Retained'
    <3>1. \A d \in Calls : InTime(d)' /\ Counted(d)'
      BY <2>2, <2>10 DEF Count, StateError, Returned, TypeOK, history
    <3>2. Held'
      BY <2>5, <2>10 DEF Count, StateError, history
    <3>. QED  BY <2>1, <3>1, <3>2
  <2>11. CASE Expire
    <3>1. ASSUME NEW s \in Stamps' \ entries'
          PROVE  s + MinWindow <= clock' + MaxSkew
      <4>1. /\ Stamps' = Stamps /\ clock' = clock /\ clock >= expires
            /\ s \in Stamps /\ s \in Nat
        BY <2>3, <2>4, <2>11, <3>1 DEF Expire, history
      <4>2. CASE s \in entries
        <5>1. s + MinWindow + Slack <= expires + MaxSkew
          BY <4>2 DEF Retained
        <5>. QED  BY <2>4, <4>1, <5>1
      <4>3. CASE s \notin entries
        BY <4>1, <4>3 DEF Retained
      <4>. QED  BY <4>2, <4>3
    <3>2. Held'
      BY <2>3, <2>11, <3>1 DEF Expire, Retained, history
    <3>. QED  BY <2>1, <2>2, <2>11, <3>2 DEF Expire, history
  <2>12. CASE Tick
    <3>1. ASSUME NEW d \in Calls
          PROVE  InTime(d)' /\ Counted(d)'
      <4>1. call' = call /\ granted' = granted /\ clock' = clock + 1
            /\ (call[d].phase \in {"sent", "purging"} =>
                  clock < call[d].issued + MaxLag)
        BY <2>12 DEF Tick, history
      <4>2. call[d].phase \in {"sent", "purging"} => call[d].issued \in Nat
        BY DEF TypeOK, Sent, Purging, Counting, Idle
      <4>. QED  BY <2>2, <2>4, <4>1, <4>2
    <3>2. Held'
      <4>1. /\ clock' = clock + 1 /\ Stamps' = Stamps /\ entries' = entries
            /\ expires' = expires
        BY <2>3, <2>12 DEF Tick, history
      <4>2. Held
        BY DEF Retained
      <4>. QED  BY <2>4, <4>1, <4>2
    <3>. QED  BY <2>1, <3>1, <3>2
  <2>13. CASE UNCHANGED vars
    BY <2>1, <2>2, <2>5, <2>13 DEF vars, history
  <2>. QED  BY <2>7, <2>8, <2>9, <2>10, <2>11, <2>12, <2>13 DEF Next
<1>. QED  BY <1>1, <1>2, TypingAndSize, PTL DEF Spec

-----------------------------------------------------------------------------
(* The limit, and its converse. *)

\* Out-of-order stamps, resent scripts and changing rules included, no interval
\* of MinWindow less the disorder holds more than MaxLimit admitted stamps.
THEOREM StampsLimited == Spec => []DistinctStampLimit
<1>. USE WindowAssumption
<1>. DEFINE Span == MinWindow - MaxLag - MaxSkew
            Seen(t) == {s \in Stamps : s <= t /\ s > t - Span}
<1>1. DistinctStampLimit <=> \A t \in Times : Cardinality(Seen(t)) <= MaxLimit
  BY DEF DistinctStampLimit
<1>2. Init => DistinctStampLimit
  <2>. SUFFICES ASSUME Init, NEW t \in Times
                PROVE  Cardinality(Seen(t)) <= MaxLimit
    BY <1>1
  <2>1. Seen(t) = {}
    BY DEF Init, Stamps
  <2>2. MaxLimit \in Nat /\ Cardinality({}) = 0
    BY FS_EmptySet DEF WindowAssumption
  <2>. QED  BY <2>1, <2>2
<1>3. /\ TypeOK /\ Retained /\ DistinctStampLimit /\ [Next]_vars
      => DistinctStampLimit'
  <2>. SUFFICES ASSUME TypeOK, Retained, DistinctStampLimit, [Next]_vars
                PROVE  DistinctStampLimit'
    OBVIOUS
  <2>1. ASSUME Stamps' = Stamps
        PROVE  DistinctStampLimit'
    BY <1>1, <2>1 DEF DistinctStampLimit
  <2>2. ASSUME NEW c \in Calls, call[c].phase = "sent", RunScript(c)
        PROVE  DistinctStampLimit'
    <3>. DEFINE r == call[c].rule
                now == call[c].now
    <3>1. /\ r \in Rules /\ now \in Times /\ now \in Nat /\ clock \in Nat
          /\ now <= clock + MaxSkew /\ clock <= now + MaxLag
          /\ Window[r] \in Nat /\ MinWindow <= Window[r]
      BY <2>2, SentStamp DEF Times, TypeOK
    <3>2. CASE ~ Allows(r, now)
      BY <2>1, <2>2, <3>2, ScriptStamps
    <3>3. CASE Allows(r, now)
      <4>1. Stamps' = Stamps \union {now}
        BY <2>2, <3>3, ScriptStamps
      <4>. SUFFICES ASSUME NEW t \in Times
                    PROVE  Cardinality({s \in Stamps' : s <= t /\ s > t - Span})
                             <= MaxLimit
        BY DEF DistinctStampLimit
      <4>. DEFINE Seen1 == {s \in Stamps' : s <= t /\ s > t - Span}
      <4>2. CASE now <= t /\ now > t - Span
        \* Every stamp the interval holds is still in the set.
        <5>1. Seen1 \subseteq Kept(r, now) \union {now}
          <6>. SUFFICES ASSUME NEW s \in Stamps, s > t - Span
                        PROVE  s \in Kept(r, now)
            BY <4>1
          <6>1. s \in Nat /\ t \in Nat
            BY DEF Stamps, Times
          <6>2. s + MinWindow > clock + MaxSkew /\ s > now - Window[r]
            BY <3>1, <4>2, <6>1
          <6>3. s \in entries
            BY <3>1, <6>1, <6>2 DEF Retained
          <6>. QED  BY <6>2, <6>3 DEF Kept
        <5>2. Kept(r, now) \union {now} \in SUBSET Times
          BY <3>1 DEF Kept, TypeOK
        <5>3. /\ Cardinality(Seen1) \in Nat
              /\ Cardinality(Kept(r, now) \union {now}) \in Nat
              /\ Cardinality(Seen1) <= Cardinality(Kept(r, now) \union {now})
          BY <5>1, <5>2, StampSets
        <5>4. Cardinality(Kept(r, now) \union {now}) <= MaxLimit
          BY <3>1, <3>3, AdmittedFits DEF TypeOK
        <5>5. Cardinality(Seen1) <= MaxLimit
          <6>. HIDE DEF Seen1
          <6>. QED  BY <5>3, <5>4
        <5>. QED  BY <5>5
      <4>3. CASE ~ (now <= t /\ now > t - Span)
        <5>1. Seen1 = Seen(t)
          BY <4>1, <4>3
        <5>2. Cardinality(Seen(t)) <= MaxLimit
          BY <1>1
        <5>. QED  BY <5>1, <5>2
      <4>. QED  BY <4>2, <4>3
    <3>. QED  BY <3>2, <3>3
  <2>3. ASSUME UNCHANGED granted
        PROVE  DistinctStampLimit'
    BY <2>1, <2>3 DEF Stamps
  <2>4. ASSUME NEW c \in Calls, Eval(c) \/ EvalReplyLost(c)
        PROVE  DistinctStampLimit'
    BY <2>2, <2>4 DEF Eval, EvalReplyLost
  <2>5. ASSUME NEW c \in Calls,
               EvalNotSent(c) \/ Purge(c) \/ Count(c) \/ StateError(c)
        PROVE  DistinctStampLimit'
    BY <2>3, <2>5 DEF EvalNotSent, Purge, Count, StateError, history
  <2>6. ASSUME NEW c \in Calls, NEW r \in Rules, NEW now \in Times,
               AllowRequest(c, r, now) \/ GetWindowState(c, r, now)
        PROVE  DistinctStampLimit'
    BY <2>3, <2>6 DEF AllowRequest, GetWindowState, history
  <2>7. CASE Tick \/ Expire \/ UNCHANGED vars
    BY <2>3, <2>7 DEF Tick, Expire, vars, history
  <2>. QED  BY <2>4, <2>5, <2>6, <2>7 DEF Next
<1>. QED  BY <1>2, <1>3, TypingAndSize, Retention, PTL DEF Spec

\* A refusal is never too early: the window of the refused request holds as
\* many admitted stamps as its rule allows.
THEOREM RefusalsJustified == Spec => RefusedOnlyWhenFull
<1>1. TypeOK /\ Retained /\ [Next]_vars =>
        [\A c \in Calls :
           Eval(c) /\ verdict' = "deny" =>
             Cardinality({s \in Stamps : s > call[c].now - Window[call[c].rule]})
               >= Limit[call[c].rule]]_vars
  <2>. SUFFICES ASSUME TypeOK, Retained, NEW c \in Calls, Eval(c), verdict' = "deny"
                PROVE  Cardinality({s \in Stamps :
                                      s > call[c].now - Window[call[c].rule]})
                         >= Limit[call[c].rule]
    OBVIOUS
  <2>. DEFINE r == call[c].rule
              now == call[c].now
              Recent == {s \in Stamps : s > now - Window[r]}
  <2>1. r \in Rules /\ now \in Times
    BY SentStamp DEF Eval
  <2>2. ~ Allows(r, now)
    BY DEF Eval, RunScript, Script
  <2>3. Kept(r, now) \subseteq Recent /\ Recent \in SUBSET Times
    BY DEF Retained, Kept, Stamps
  <2>4. /\ Cardinality(Kept(r, now)) \in Nat /\ Cardinality(Recent) \in Nat
        /\ Cardinality(Kept(r, now)) <= Cardinality(Recent)
    BY <2>3, StampSets
  <2>5. Limit[r] \in Nat
    BY <2>1, WindowAssumption
  <2>. HIDE DEF Recent
  <2>6. Cardinality(Recent) >= Limit[r]
    BY <2>2, <2>4, <2>5 DEF Allows
  <2>. QED  BY <2>6 DEF Recent
<1>. QED  BY <1>1, TypingAndSize, Retention, PTL DEF Spec, RefusedOnlyWhenFull

-----------------------------------------------------------------------------
(* Prompt calls: the limiter that never forgets. *)

\* The log counts as the limiter does.
LEMMA SameCardinality ==
    ASSUME NEW S
    PROVE  Log!Cardinality(S) = Cardinality(S)
BY DEF Cardinality, Log!Cardinality

\* Purging and expiry are not observable: each step of the limiter is a step of
\* the log that keeps every stamp, or changes nothing of it.
THEOREM Refinement ==
    ASSUME PromptCalls, SingleRule
    PROVE  Spec => RefinesLog
<1>. USE WindowAssumption
<1>1. Init => Log!Init
  BY DEF Init, Log!Init, Stamps
<1>2. TypeOK /\ Retained /\ [Next]_vars => [Log!Next]_(Log!vars)
  <2>. SUFFICES ASSUME TypeOK, Retained, [Next]_vars
                PROVE  Log!Next \/ UNCHANGED Log!vars
    OBVIOUS
  <2>1. ASSUME NEW c \in Calls, call[c].phase = "sent", RunScript(c), clock' = clock
        PROVE  Log!Next
    <3>. DEFINE r == call[c].rule
    <3>1. /\ r \in Rules /\ clock \in Nat /\ call[c].now = clock
          /\ Limit[r] = MaxLimit /\ Window[r] = MinWindow
      BY <2>1, SentStamp DEF PromptCalls, SingleRule, TypeOK, Times
    <3>2. Kept(r, clock) = Log!InWindow
      <4>1. ASSUME NEW s \in Stamps, s > clock - MinWindow
            PROVE  s \in entries
        BY <3>1, <4>1 DEF Retained, PromptCalls, Stamps, Times
      <4>. QED  BY <3>1, <4>1 DEF Kept, Log!InWindow, Retained
    <3>3. Allows(r, clock) <=> Cardinality(Log!InWindow) < MaxLimit
      BY <3>1, <3>2 DEF Allows
    <3>4. Stamps' = IF Allows(r, clock) THEN Stamps \union {clock} ELSE Stamps
      BY <2>1, <3>1, ScriptStamps
    <3>5. verdict' = IF Allows(r, clock) THEN "allow" ELSE "deny"
      BY <2>1, <3>1 DEF RunScript, Script
    <3>6. CASE Allows(r, clock)
      BY <2>1, <3>3, <3>4, <3>5, <3>6, SameCardinality
         DEF Log!Next, Log!Admit
    <3>7. CASE ~ Allows(r, clock)
      <4>1. Log!InWindow \in SUBSET Times
        BY DEF Log!InWindow, Stamps
      <4>2. Cardinality(Log!InWindow) \in Nat
        BY <4>1, StampSets
      <4>. QED  BY <2>1, <3>3, <3>4, <3>5, <3>7, <4>2, SameCardinality
                DEF Log!Next, Log!Refuse
    <3>. QED  BY <3>6, <3>7
  <2>2. ASSUME NEW c \in Calls, Eval(c) \/ EvalReplyLost(c)
        PROVE  Log!Next
    BY <2>1, <2>2 DEF Eval, EvalReplyLost
  <2>3. ASSUME UNCHANGED <<clock, history>>
        PROVE  UNCHANGED Log!vars
    BY <2>3 DEF Log!vars, Stamps, history
  <2>4. CASE Tick
    BY <2>4 DEF Tick, Log!Next, Log!Tick, Stamps, history
  <2>5. ASSUME NEW c \in Calls,
               EvalNotSent(c) \/ Purge(c) \/ Count(c) \/ StateError(c)
        PROVE  UNCHANGED Log!vars
    BY <2>3, <2>5 DEF EvalNotSent, Purge, Count, StateError
  <2>6. ASSUME NEW c \in Calls, NEW r \in Rules, NEW now \in Times,
               AllowRequest(c, r, now) \/ GetWindowState(c, r, now)
        PROVE  UNCHANGED Log!vars
    BY <2>3, <2>6 DEF AllowRequest, GetWindowState
  <2>7. CASE Expire \/ UNCHANGED vars
    BY <2>3, <2>7 DEF Expire, vars
  <2>. QED  BY <2>2, <2>4, <2>5, <2>6, <2>7 DEF Next
<1>. QED  BY <1>1, <1>2, TypingAndSize, Retention, PTL DEF Spec, Log!Spec, RefinesLog
=============================================================================
