------------------------- MODULE TokenBucketProofs -------------------------
(***************************************************************************)
(* Proofs about TokenBucket for every value of its constants.              *)
(***************************************************************************)
EXTENDS TokenBucket, TLAPS

-----------------------------------------------------------------------------
(* Lemmas about the script's arithmetic. *)

\* A product of naturals is a natural, and grows with its factors.
LEMMA ProductMonotone ==
    ASSUME NEW a \in Nat, NEW b \in Nat, NEW m \in Nat, NEW n \in Nat,
           a <= b, m <= n
    PROVE  /\ a * m \in Nat
           /\ a * m <= b * n
<1>1. a * m \in Nat /\ b * m \in Nat /\ b * n \in Nat
  BY SMT
<1>2. a * m <= b * m
  <2>1. (b - a) * m >= 0
    BY SMT
  <2>2. b * m = a * m + (b - a) * m
    BY SMT
  <2>. QED  BY <1>1, <2>1, <2>2
<1>3. b * m <= b * n
  <2>1. b * (n - m) >= 0
    BY SMT
  <2>2. b * n = b * m + b * (n - m)
    BY SMT
  <2>. QED  BY <1>1, <2>1, <2>2
<1>. QED  BY <1>1, <1>2, <1>3

\* The refilled balance lies between zero and the rule's capacity, and exceeds
\* the stored one by at most MaxRate a second.
LEMMA RefilledBounds ==
    ASSUME TypeOK, NEW r \in Rules, NEW now \in Times
    PROVE  /\ Refilled(r, now) \in 0 .. MaxCapacity
           /\ stored => Refilled(r, now)
                          <= tokens + MaxRate * AtLeast(0, now - last_refill)
<1>. USE BucketAssumption DEF Times
<1>1. Capacity[r] \in Nat \ {0} /\ Capacity[r] <= MaxCapacity
  OBVIOUS
<1>2. RefillRate[r] \in Nat /\ RefillRate[r] <= MaxRate
  OBVIOUS
<1>. DEFINE elapsed == AtLeast(0, now - Since(now))
            earned == elapsed * RefillRate[r]
<1>3. elapsed \in Nat
  BY DEF TypeOK, AtLeast, Since
<1>4. earned \in Nat /\ earned <= elapsed * MaxRate
  BY <1>2, <1>3, ProductMonotone
<1>5. Held(r) \in Nat
  BY <1>1 DEF TypeOK, Held
<1>6. Refilled(r, now) = AtMost(Capacity[r], Held(r) + earned)
  BY DEF Refilled
<1>7. Refilled(r, now) \in 0 .. MaxCapacity /\ Refilled(r, now) <= Held(r) + earned
  <2>. HIDE DEF earned
  <2>. QED  BY <1>1, <1>4, <1>5, <1>6 DEF AtMost
<1>8. ASSUME stored
      PROVE  Refilled(r, now)
               <= tokens + MaxRate * AtLeast(0, now - last_refill)
  <2>1. elapsed = AtLeast(0, now - last_refill) /\ Held(r) = tokens
    BY <1>8 DEF Since, Held
  <2>2. elapsed * MaxRate = MaxRate * elapsed
    BY <1>3
  <2>. HIDE DEF elapsed
  <2>. QED  BY <1>7, <1>3, <1>4, <1>5, <2>1, <2>2
<1>. QED  BY <1>7, <1>8

-----------------------------------------------------------------------------
(* Typing. *)

\* Every variable keeps its type, whatever runs: in particular the balance
\* never leaves 0 .. MaxCapacity, though the script never checks it.
THEOREM Typing == Spec => []TypeOK
<1>. USE BucketAssumption
<1>1. ASSUME Init
      PROVE  TypeOK
  <2>1. 0 \in Times /\ 0 \in 0 .. MaxClock /\ 0 \in 0 .. (MaxClock + TTL)
        /\ 0 \in 0 .. MaxCapacity
    BY DEF Times
  <2>2. call \in [Calls -> Sent \union Idle]
    BY <1>1 DEF Init, Idle
  <2>. QED  BY <1>1, <2>1, <2>2 DEF Init, TypeOK
<1>2. TypeOK /\ [Next]_vars => TypeOK'
  <2>. SUFFICES ASSUME TypeOK, [Next]_vars
                PROVE  TypeOK'
    OBVIOUS
  <2>1. CASE Tick
    BY <2>1 DEF Tick, TypeOK, bucket, history
  <2>2. CASE Expire
    BY <2>2 DEF Expire, TypeOK, history
  <2>3. ASSUME NEW c \in Calls, NEW r \in Rules, NEW now \in Times,
               AllowRequest(c, r, now)
        PROVE  TypeOK'
    <3>1. call' \in [Calls -> Sent \union Idle]
      BY <2>3 DEF AllowRequest, TypeOK, Sent
    <3>. QED  BY <2>3, <3>1 DEF AllowRequest, TypeOK, bucket, history
  <2>4. ASSUME NEW r \in Rules, NEW now \in Times, Script(r, now), clock' = clock
        PROVE  /\ stored' \in BOOLEAN
               /\ tokens' \in 0 .. MaxCapacity
               /\ last_refill' \in Times
               /\ expires' \in 0 .. (MaxClock + TTL)
               /\ verdict' \in {"none", "allow", "deny"}
               /\ admitted' \in [Times -> Nat]
               /\ slip' \in Nat
    <3>1. Refilled(r, now) \in 0 .. MaxCapacity
      BY RefilledBounds
    <3>2. tokens' \in 0 .. MaxCapacity
      BY <2>4, <3>1 DEF Script, Allows
    <3>3. admitted' \in [Times -> Nat]
      BY <2>4 DEF Script, TypeOK
    <3>4. slip' \in Nat
      BY <2>4 DEF Script, TypeOK, AtLeast, Times
    <3>. QED  BY <2>4, <3>2, <3>3, <3>4 DEF Script, TypeOK
  <2>5. ASSUME NEW c \in Calls, call[c].phase = "sent"
        PROVE  /\ call[c] \in Sent
               /\ call[c].rule \in Rules
               /\ call[c].now \in Times
    <3>1. call[c] \in Sent
      BY <2>5 DEF TypeOK, Sent, Idle
    <3>. QED  BY <3>1 DEF Sent
  <2>6. ASSUME NEW c \in Calls, Eval(c)
        PROVE  TypeOK'
    <3>1. call' \in [Calls -> Sent \union Idle]
      BY <2>5, <2>6 DEF Eval, TypeOK, Returned, Idle
    <3>2. /\ call[c].rule \in Rules /\ call[c].now \in Times
          /\ Script(call[c].rule, call[c].now) /\ clock' = clock
      BY <2>5, <2>6 DEF Eval
    <3>. QED  BY <2>4, <3>1, <3>2 DEF TypeOK
  <2>7. ASSUME NEW c \in Calls, call[c].phase = "sent", Resend(c)
        PROVE  call' \in [Calls -> Sent \union Idle]
    <3>1. call[c] \in Sent
      BY <2>5, <2>7
    <3>2. CASE call[c].left > 0
      <4>. DEFINE again == [call[c] EXCEPT !.left = call[c].left - 1]
      <4>1. call[c].left - 1 \in 0 .. MaxRetries
        BY <3>1, <3>2 DEF Sent
      <4>2. again \in Sent
        BY <3>1, <4>1 DEF Sent
      <4>3. call' = [call EXCEPT ![c] = again]
        BY <3>2, <2>7 DEF Resend
      <4>. HIDE DEF again
      <4>. QED  BY <4>2, <4>3 DEF TypeOK
    <3>3. CASE ~(call[c].left > 0)
      <4>1. Returned("error") \in Idle
        BY DEF Returned, Idle
      <4>2. call' = [call EXCEPT ![c] = Returned("error")]
        BY <3>3, <2>7 DEF Resend
      <4>. QED  BY <4>1, <4>2 DEF TypeOK
    <3>. QED  BY <3>2, <3>3
  <2>8. ASSUME NEW c \in Calls, EvalReplyLost(c)
        PROVE  TypeOK'
    <3>1. call' \in [Calls -> Sent \union Idle]
      BY <2>5, <2>7, <2>8 DEF EvalReplyLost
    <3>2. /\ call[c].rule \in Rules /\ call[c].now \in Times
          /\ Script(call[c].rule, call[c].now) /\ clock' = clock
      BY <2>5, <2>8 DEF EvalReplyLost
    <3>. QED  BY <2>4, <3>1, <3>2 DEF TypeOK
  <2>9. ASSUME NEW c \in Calls, EvalNotSent(c)
        PROVE  TypeOK'
    <3>1. call' \in [Calls -> Sent \union Idle]
      BY <2>7, <2>9 DEF EvalNotSent
    <3>. QED  BY <2>9, <3>1 DEF EvalNotSent, TypeOK, bucket, history
  <2>10. CASE UNCHANGED vars
    BY <2>10 DEF vars, TypeOK, bucket, history
  <2>. QED  BY <2>1, <2>2, <2>3, <2>6, <2>8, <2>9, <2>10 DEF Next
<1>. QED  BY <1>1, <1>2, PTL DEF Spec

-----------------------------------------------------------------------------
(* The rate bound. *)

\* Stamps stay close to the time at which their script runs, and the hash
\* outlives its last script run by TTL.
THEOREM Timing == Spec => []InTime
<1>. USE BucketAssumption
<1>1. Init => InTime
  BY DEF Init, InTime
<1>2. TypeOK /\ TypeOK' /\ InTime /\ [Next]_vars => InTime'
  <2>. SUFFICES ASSUME TypeOK, TypeOK', InTime, [Next]_vars
                PROVE  InTime'
    OBVIOUS
  <2>1. CASE Tick
    BY <2>1 DEF Tick, InTime, TypeOK, bucket, history, Sent, Idle
  <2>2. CASE Expire
    BY <2>2 DEF Expire, InTime, TypeOK, history
  <2>3. ASSUME NEW c \in Calls, NEW r \in Rules, NEW now \in Times,
               AllowRequest(c, r, now)
        PROVE  InTime'
    BY <2>3 DEF AllowRequest, InTime, TypeOK, bucket, history
  <2>4. ASSUME NEW c \in Calls, call[c].phase = "sent",
               Script(call[c].rule, call[c].now), clock' = clock
        PROVE  /\ stored' /\ clock' <= expires'
               /\ last_refill' + TTL <= expires' + MaxSkew
    <3>1. call[c] \in Sent
      BY <2>4 DEF TypeOK, Sent, Idle
    <3>2. /\ call[c].issued \in Nat /\ call[c].now \in Nat
          /\ call[c].issued <= clock
          /\ call[c].now <= call[c].issued + MaxSkew
      BY <2>4, <3>1 DEF InTime, Sent, Times
    <3>. QED  BY <2>4, <3>2 DEF Script, TypeOK
  <2>5. ASSUME NEW c \in Calls, call[c].phase = "sent", clock' = clock,
               \/ Resend(c)
               \/ \E reply : call' = [call EXCEPT ![c] = Returned(reply)]
        PROVE  \A d \in Calls : call'[d].phase = "sent" =>
                  /\ call'[d].issued <= clock'
                  /\ clock' <= call'[d].issued + MaxLag
                  /\ call'[d].issued <= call'[d].now
                  /\ call'[d].now <= call'[d].issued + MaxSkew
    <3>. SUFFICES ASSUME NEW d \in Calls, call'[d].phase = "sent"
                  PROVE  /\ call[d].phase = "sent"
                         /\ call'[d].issued = call[d].issued
                         /\ call'[d].now = call[d].now
      BY <2>5 DEF InTime
    <3>1. call[c] \in Sent
      BY <2>5 DEF TypeOK, Sent, Idle
    <3>2. CASE d # c
      BY <2>5, <3>2 DEF Resend, TypeOK
    <3>3. CASE d = c
      <4>1. PICK reply : call'[c] \in {Returned(reply),
                            [call[c] EXCEPT !.left = call[c].left - 1]}
        BY <2>5 DEF Resend, TypeOK
      <4>2. call'[c] # Returned(reply)
        BY <3>3 DEF Returned
      <4>. QED  BY <2>5, <3>1, <3>3, <4>1, <4>2 DEF Sent
    <3>. QED  BY <3>2, <3>3
  <2>6. ASSUME NEW c \in Calls, Eval(c)
        PROVE  InTime'
    BY <2>4, <2>5, <2>6 DEF Eval, InTime
  <2>7. ASSUME NEW c \in Calls, EvalReplyLost(c)
        PROVE  InTime'
    BY <2>4, <2>5, <2>7 DEF EvalReplyLost, InTime
  <2>8. ASSUME NEW c \in Calls, EvalNotSent(c)
        PROVE  InTime'
    BY <2>5, <2>8 DEF EvalNotSent, InTime, bucket, history
  <2>9. CASE UNCHANGED vars
    BY <2>9 DEF vars, InTime, bucket, history
  <2>. QED  BY <2>1, <2>2, <2>3, <2>6, <2>7, <2>8, <2>9 DEF Next
<1>. QED  BY <1>1, <1>2, Typing, PTL DEF Spec

\* The step of the argument that a script run makes: what it admits and what it
\* leaves in the bucket stay within the budget of the elapsed time.
LEMMA ScriptKeepsRateBound ==
    ASSUME TypeOK, TypeOK', InTime, RateBound, TTLCoversRefill,
           NEW c \in Calls, call[c].phase = "sent",
           Script(call[c].rule, call[c].now), clock' = clock
    PROVE  RateBound'
<1>. USE BucketAssumption
<1>. DEFINE r == call[c].rule
            now == call[c].now
            forward == AtLeast(0, now - last_refill)
            before(s) == last_refill + slip - s
            after(s) == now + slip' - s
<1>1. call[c] \in Sent
  BY DEF TypeOK, Sent, Idle
<1>2. r \in Rules /\ now \in Times /\ now \in Nat
  BY <1>1 DEF Sent, Times
<1>3. /\ last_refill \in Nat /\ slip \in Nat /\ tokens \in Nat /\ slip' \in Nat
      /\ tokens' \in Nat /\ Times \subseteq Nat /\ expires \in Nat /\ clock \in Nat
      /\ MaxRate \in Nat /\ MaxCapacity \in Nat /\ last_refill' = now
      /\ \A s \in Times : admitted[s] \in Nat /\ admitted'[s] \in Nat
  BY <1>2 DEF TypeOK, Times, Script
<1>4. Refilled(r, now) \in 0 .. MaxCapacity
  BY <1>2, RefilledBounds
<1>5. forward \in Nat /\ \A s \in Times : after(s) = before(s) + forward
  BY <1>2, <1>3 DEF Script, AtLeast
<1>6. MaxRate * forward \in Nat
  BY <1>3, <1>5, ProductMonotone
<1>. SUFFICES ASSUME NEW s \in Times, admitted'[s] > 0
              PROVE  admitted'[s] + tokens' <= MaxCapacity + MaxRate * after(s)
  BY <1>3 DEF RateBound
<1>7. admitted'[s] + tokens' <= admitted[s] + Refilled(r, now)
  BY <1>3, <1>4 DEF Script, Allows
<1>8. CASE admitted[s] = 0
  <2>1. s <= now
    BY <1>8 DEF Script
  <2>2. after(s) \in Nat
    BY <1>2, <1>3, <2>1
  <2>3. MaxRate * after(s) \in Nat
    BY <1>3, <2>2, ProductMonotone
  <2>. QED  BY <1>3, <1>4, <1>7, <1>8, <2>3
<1>9. CASE admitted[s] > 0
  <2>1. before(s) \in Int /\ MaxRate * before(s) \in Int
    BY <1>3
  <2>2. MaxRate * after(s) = MaxRate * before(s) + MaxRate * forward
    BY <1>3, <1>5, <2>1
  <2>3. admitted[s] + tokens <= MaxCapacity + MaxRate * before(s)
    BY <1>9 DEF RateBound
  <2>4. CASE stored
    <3>1. Refilled(r, now) <= tokens + MaxRate * forward
      BY <1>2, <2>4, RefilledBounds
    <3>. HIDE DEF before, after, forward
    <3>. QED  BY <1>3, <1>4, <1>6, <1>7, <2>1, <2>2, <2>3, <3>1
  <2>5. CASE ~stored
    \* The hash was dropped: enough time has passed to fill the bucket.
    <3>1. last_refill + TTL <= expires + MaxSkew /\ expires <= clock
      BY <1>9, <2>5 DEF InTime
    <3>2. clock <= now + MaxLag
      BY <1>1, <1>2, <1>3 DEF InTime, Sent
    <3>3. TTL - MaxLag - MaxSkew \in Int /\ TTL - MaxLag - MaxSkew <= forward
      BY <1>2, <1>3, <3>1, <3>2 DEF AtLeast
    <3>4. MaxCapacity <= MaxRate * forward
      <4>1. CASE TTL - MaxLag - MaxSkew \in Nat
        BY <1>3, <1>5, <3>3, <4>1, ProductMonotone DEF TTLCoversRefill
      <4>2. CASE TTL - MaxLag - MaxSkew < 0
        <5>. DEFINE lack == 0 - (TTL - MaxLag - MaxSkew)
        <5>1. lack \in Nat
          BY <3>3, <4>2
        <5>2. MaxRate * lack \in Nat
          BY <1>3, <5>1, ProductMonotone
        <5>3. MaxRate * (TTL - MaxLag - MaxSkew) = 0 - MaxRate * lack
          BY <1>3, <3>3
        <5>. QED  BY <1>3, <5>2, <5>3 DEF TTLCoversRefill
      <4>. QED  BY <3>3, <4>1, <4>2
    <3>. HIDE DEF before, after, forward
    <3>. QED  BY <1>3, <1>4, <1>6, <1>7, <2>1, <2>2, <2>3, <3>4
  <2>. QED  BY <2>4, <2>5
<1>. QED  BY <1>3, <1>8, <1>9

\* Out-of-order stamps, resent scripts and changing rules included, what a
\* user is granted is bounded by the elapsed time plus the slip, provided that
\* the time to live covers a refill.
THEOREM RateBounded ==
    ASSUME TTLCoversRefill
    PROVE  Spec => []RateBound
<1>. USE BucketAssumption
<1>1. Init => RateBound
  BY DEF Init, RateBound
<1>2. /\ TypeOK /\ TypeOK' /\ InTime /\ RateBound /\ [Next]_vars
      => RateBound'
  <2>. SUFFICES ASSUME TypeOK, TypeOK', InTime, RateBound, [Next]_vars
                PROVE  RateBound'
    OBVIOUS
  <2>1. ASSUME UNCHANGED <<tokens, last_refill, admitted, slip>>
        PROVE  RateBound'
    BY <2>1 DEF RateBound
  <2>2. ASSUME NEW c \in Calls, Eval(c) \/ EvalReplyLost(c)
        PROVE  RateBound'
    BY <2>2, TTLCoversRefill, ScriptKeepsRateBound DEF Eval, EvalReplyLost
  <2>3. ASSUME NEW c \in Calls, EvalNotSent(c)
        PROVE  RateBound'
    BY <2>1, <2>3 DEF EvalNotSent, bucket, history
  <2>4. ASSUME NEW c \in Calls, NEW r \in Rules, NEW now \in Times,
               AllowRequest(c, r, now)
        PROVE  RateBound'
    BY <2>1, <2>4 DEF AllowRequest, bucket, history
  <2>5. CASE Tick \/ Expire
    BY <2>1, <2>5 DEF Tick, Expire, bucket, history
  <2>6. CASE UNCHANGED vars
    BY <2>1, <2>6 DEF vars, bucket, history
  <2>. QED  BY <2>2, <2>3, <2>4, <2>5, <2>6 DEF Next
<1>. QED  BY <1>1, <1>2, Typing, Timing, PTL DEF Spec

-----------------------------------------------------------------------------
(* Prompt calls: the classical bound, and the bucket refilled every second. *)

\* A prompt call's script runs at the second of its stamp.
LEMMA PromptStamp ==
    ASSUME PromptCalls, TypeOK, InTime, NEW c \in Calls, call[c].phase = "sent"
    PROVE  call[c].now = clock /\ call[c].rule \in Rules
<1>1. call[c] \in Sent
  BY DEF TypeOK, Sent, Idle
<1>2. /\ call[c].issued \in Nat /\ call[c].now \in Nat /\ call[c].rule \in Rules
      /\ clock \in Nat
  BY <1>1, BucketAssumption DEF TypeOK, Sent, Times
<1>3. /\ call[c].issued <= clock /\ clock <= call[c].issued + 0
      /\ call[c].issued <= call[c].now /\ call[c].now <= call[c].issued + 0
  BY DEF PromptCalls, InTime
<1>. QED  BY <1>2, <1>3

\* With prompt calls last_refill never moves back.
THEOREM InOrderAlways ==
    ASSUME PromptCalls
    PROVE  Spec => []InOrder
<1>. USE BucketAssumption
<1>1. Init => InOrder
  BY DEF Init, InOrder
<1>2. TypeOK /\ InTime /\ InOrder /\ [Next]_vars => InOrder'
  <2>. SUFFICES ASSUME TypeOK, InTime, InOrder, [Next]_vars
                PROVE  InOrder'
    OBVIOUS
  <2>1. ASSUME NEW c \in Calls, Eval(c) \/ EvalReplyLost(c)
        PROVE  InOrder'
    <3>1. /\ call[c].phase = "sent" /\ clock' = clock
          /\ Script(call[c].rule, call[c].now)
      BY <2>1 DEF Eval, EvalReplyLost
    <3>2. call[c].now = clock
      BY <3>1, PromptStamp
    <3>. QED  BY <3>1, <3>2 DEF Script, InOrder, TypeOK, AtLeast, Times
  <2>2. ASSUME NEW c \in Calls, EvalNotSent(c)
        PROVE  InOrder'
    BY <2>2 DEF EvalNotSent, InOrder, bucket, history
  <2>3. ASSUME NEW c \in Calls, NEW r \in Rules, NEW now \in Times,
               AllowRequest(c, r, now)
        PROVE  InOrder'
    BY <2>3 DEF AllowRequest, InOrder, bucket, history
  <2>4. CASE Tick
    BY <2>4 DEF Tick, InOrder, TypeOK, Times, bucket, history
  <2>5. CASE Expire
    BY <2>5 DEF Expire, InOrder, history
  <2>6. CASE UNCHANGED vars
    BY <2>6 DEF vars, InOrder, bucket, history
  <2>. QED  BY <2>1, <2>2, <2>3, <2>4, <2>5, <2>6 DEF Next
<1>. QED  BY <1>1, <1>2, Typing, Timing, PTL DEF Spec

\* Prompt calls are granted at most a full bucket plus the average rate, over
\* any stretch of time.
THEOREM BurstsControlled ==
    ASSUME PromptCalls, TTLCoversRefill
    PROVE  Spec => []ControlledBursts
<1>1. TypeOK /\ InOrder /\ RateBound => ControlledBursts
  <2>. SUFFICES ASSUME TypeOK, InOrder, RateBound, NEW s \in Times, admitted[s] > 0
                PROVE  admitted[s] <= MaxCapacity + MaxRate * (last_refill - s)
    BY DEF ControlledBursts
  <2>1. last_refill + slip - s = last_refill - s
    BY BucketAssumption DEF InOrder, TypeOK, Times
  <2>2. admitted[s] + tokens <= MaxCapacity + MaxRate * (last_refill - s)
    BY <2>1 DEF RateBound
  <2>3. MaxCapacity \in Int /\ MaxRate * (last_refill - s) \in Int
    BY BucketAssumption DEF TypeOK, Times
  <2>. QED  BY <2>2, <2>3, BucketAssumption DEF TypeOK
<1>. QED  BY <1>1, Typing, RateBounded, InOrderAlways, PTL

\* Refilling on demand is not observable: each step of the limiter is a step
\* of the bucket that is refilled at every second, or changes nothing of it.
THEOREM Refinement ==
    ASSUME PromptCalls, SingleRule, MaxRate * TTL >= MaxCapacity
    PROVE  Spec => RefinesEager
<1>. USE BucketAssumption
<1>1. Init => Eager!Init
  BY DEF Init, Eager!Init, Level
<1>2. TypeOK /\ InTime /\ InOrder /\ [Next]_vars => [Eager!Next]_(Eager!vars)
  <2>. SUFFICES ASSUME TypeOK, InTime, InOrder, [Next]_vars
                PROVE  Eager!Next \/ UNCHANGED Eager!vars
    OBVIOUS
  <2>. DEFINE earned == (clock - last_refill) * MaxRate
  <2>1. /\ clock \in Nat /\ last_refill \in Nat /\ tokens \in Nat
        /\ tokens <= MaxCapacity
        /\ clock - last_refill \in Nat /\ earned \in Nat
    <3>1. /\ clock \in Nat /\ last_refill \in Nat /\ tokens \in Nat
          /\ tokens <= MaxCapacity /\ clock - last_refill \in Nat
      BY DEF TypeOK, InOrder, Times
    <3>. QED  BY <3>1, ProductMonotone
  <2>2. ASSUME NEW c \in Calls, Eval(c) \/ EvalReplyLost(c)
        PROVE  Eager!Next
    <3>. DEFINE r == call[c].rule
    <3>1. /\ call[c].phase = "sent" /\ clock' = clock
          /\ Script(r, call[c].now)
      BY <2>2 DEF Eval, EvalReplyLost
    <3>2. call[c].now = clock /\ r \in Rules
      BY <3>1, PromptStamp
    <3>3. Refilled(r, clock) = Level
      <4>1. Capacity[r] = MaxCapacity /\ RefillRate[r] = MaxRate
        BY <3>2 DEF SingleRule
      <4>2. CASE stored
        BY <2>1, <4>1, <4>2
           DEF Refilled, Held, Since, Level, AtLeast
      <4>3. CASE ~stored
        BY <2>1, <4>1, <4>3 DEF Refilled, Held, Since, Level, AtLeast, AtMost
      <4>. QED  BY <4>2, <4>3
    <3>4. Level' = tokens'
      <4>1. Refilled(r, clock) \in 0 .. MaxCapacity
        BY <2>1, <3>2, RefilledBounds DEF Times, TypeOK
      <4>2. tokens' \in 0 .. MaxCapacity /\ stored' /\ clock' - last_refill' = 0
        BY <2>1, <3>1, <3>2, <4>1 DEF Script, Allows
      <4>. QED  BY <4>2 DEF Level, AtMost
    <3>5. Level \in 0 .. MaxCapacity
      BY <2>1, <3>2, <3>3, RefilledBounds DEF Times, TypeOK
    <3>6. CASE Level >= 1
      BY <3>1, <3>2, <3>3, <3>4, <3>6
         DEF Script, Allows, Eager!Next, Eager!Admit
    <3>7. CASE Level = 0
      BY <3>1, <3>2, <3>3, <3>4, <3>7
         DEF Script, Allows, Eager!Next, Eager!Refuse
    <3>. QED  BY <3>5, <3>6, <3>7
  <2>3. CASE Tick
    <3>1. /\ clock' = clock + 1 /\ stored' = stored /\ tokens' = tokens
          /\ last_refill' = last_refill /\ verdict' = verdict /\ clock < MaxClock
      BY <2>3 DEF Tick, bucket, history
    <3>2. (clock' - last_refill) * MaxRate = earned + MaxRate
      BY <2>1, <3>1
    <3>3. Level' = AtMost(MaxCapacity, Level + MaxRate)
      <4>1. CASE stored
        <5>1. Level = AtMost(MaxCapacity, tokens + earned)
          BY <4>1 DEF Level
        <5>2. Level' = AtMost(MaxCapacity, tokens + earned + MaxRate)
          BY <2>1, <3>1, <3>2, <4>1 DEF Level
        <5>. HIDE DEF earned
        <5>. QED  BY <2>1, <5>1, <5>2 DEF AtMost
      <4>2. CASE ~stored
        BY <3>1, <4>2 DEF Level, AtMost
      <4>. QED  BY <4>1, <4>2
    <3>. QED  BY <3>1, <3>3 DEF Eager!Next, Eager!Refill, Eager!AtMost, AtMost
  <2>4. CASE Expire
    <3>1. /\ stored /\ clock >= expires /\ stored' = FALSE
          /\ clock' = clock /\ verdict' = verdict
      BY <2>4 DEF Expire, history
    <3>2. TTL <= clock - last_refill
      BY <2>1, <3>1 DEF InOrder, TypeOK
    <3>3. MaxRate * TTL <= MaxRate * (clock - last_refill)
      BY <2>1, <3>2, ProductMonotone
    <3>4. MaxRate * (clock - last_refill) = earned /\ MaxRate * TTL \in Nat
      BY <2>1, ProductMonotone
    <3>5. MaxCapacity <= tokens + earned
      <4>. HIDE DEF earned
      <4>. QED  BY <2>1, <3>3, <3>4
    <3>6. Level = MaxCapacity
      <4>1. Level = AtMost(MaxCapacity, tokens + earned)
        BY <3>1 DEF Level
      <4>. HIDE DEF earned
      <4>. QED  BY <2>1, <3>5, <4>1 DEF AtMost
    <3>. QED  BY <3>1, <3>6 DEF Level, Eager!vars
  <2>5. ASSUME UNCHANGED <<clock, bucket, verdict>>
        PROVE  UNCHANGED Eager!vars
    BY <2>5 DEF Level, Eager!vars, bucket
  <2>6. ASSUME NEW c \in Calls, EvalNotSent(c)
        PROVE  UNCHANGED Eager!vars
    BY <2>5, <2>6 DEF EvalNotSent, history
  <2>7. ASSUME NEW c \in Calls, NEW r \in Rules, NEW now \in Times,
               AllowRequest(c, r, now)
        PROVE  UNCHANGED Eager!vars
    BY <2>5, <2>7 DEF AllowRequest, history
  <2>8. CASE UNCHANGED vars
    BY <2>5, <2>8 DEF vars, history
  <2>. QED  BY <2>2, <2>3, <2>4, <2>6, <2>7, <2>8 DEF Next
<1>. QED  BY <1>1, <1>2, Typing, Timing, InOrderAlways, PTL
          DEF Spec, Eager!Spec, RefinesEager

-----------------------------------------------------------------------------
(* Nobody is starved. *)

\* A second after the last script run there is a token, since the balance is
\* never negative and every rule refills at least one and holds at least one.
LEMMA RefillAllows ==
    ASSUME TypeOK, stored, NEW r \in Rules, NEW now \in Times, now > last_refill
    PROVE  Allows(r, now)
<1>. USE BucketAssumption
<1>. DEFINE elapsed == AtLeast(0, now - Since(now))
            earned == elapsed * RefillRate[r]
<1>1. Capacity[r] \in Nat /\ Capacity[r] >= 1
  OBVIOUS
<1>2. RefillRate[r] \in Nat /\ 1 <= RefillRate[r]
  OBVIOUS
<1>3. elapsed \in Nat /\ 1 <= elapsed
  BY DEF TypeOK, AtLeast, Since, Times
<1>4. 1 * 1 <= earned /\ earned \in Nat
  <2>. HIDE DEF elapsed
  <2>. QED  BY <1>2, <1>3, ProductMonotone
<1>5. Held(r) \in Nat
  BY DEF TypeOK, Held
<1>6. Refilled(r, now) = AtMost(Capacity[r], Held(r) + earned)
  BY DEF Refilled
<1>. HIDE DEF earned
<1>. QED  BY <1>1, <1>4, <1>5, <1>6 DEF Allows, AtMost

\* For any rules and any order of stamps: once a second has passed since the
\* last run of the script, the next is admitted, whatever was refused before.
THEOREM NeverStarved == Spec => RefillAdmits
<1>1. ASSUME TypeOK, [Next]_vars, NEW c \in Calls, Eval(c) \/ EvalReplyLost(c),
             stored, call[c].now > last_refill
      PROVE  verdict' = "allow"
  <2>1. call[c].phase = "sent" /\ Script(call[c].rule, call[c].now)
    BY <1>1 DEF Eval, EvalReplyLost
  <2>2. call[c].rule \in Rules /\ call[c].now \in Times
    BY <1>1, <2>1 DEF TypeOK, Sent, Idle
  <2>3. Allows(call[c].rule, call[c].now)
    BY <1>1, <2>2, RefillAllows
  <2>. QED  BY <2>1, <2>3 DEF Script
<1>2. TypeOK /\ [Next]_vars =>
        [\A c \in Calls :
           (/\ Eval(c) \/ EvalReplyLost(c)
            /\ stored
            /\ call[c].now > last_refill)
             => verdict' = "allow"]_vars
  BY <1>1
<1>. QED  BY <1>2, Typing, PTL DEF Spec, RefillAdmits

-----------------------------------------------------------------------------
(* A refusal is earned. *)

\* Short of the rule's capacity, a script run leaves or hands out what the
\* bucket held and the smallest rate for the seconds it moved last_refill on.
LEMMA RefilledAtLeast ==
    ASSUME TypeOK, NEW r \in Rules, NEW now \in Times
    PROVE  \/ Refilled(r, now) >= MinCapacity
           \/ /\ stored
              /\ Refilled(r, now)
                   >= tokens + MinRate * AtLeast(0, now - last_refill)
<1>. USE BucketAssumption DEF Times
<1>1. Capacity[r] \in Nat /\ MinCapacity <= Capacity[r] /\ MinCapacity \in Nat
  OBVIOUS
<1>2. RefillRate[r] \in Nat /\ MinRate \in Nat /\ MinRate <= RefillRate[r]
  OBVIOUS
<1>. DEFINE elapsed == AtLeast(0, now - Since(now))
            earned == elapsed * RefillRate[r]
<1>3. elapsed \in Nat
  BY DEF TypeOK, AtLeast, Since
<1>4. earned \in Nat /\ MinRate * elapsed \in Nat /\ MinRate * elapsed <= earned
  <2>1. elapsed * MinRate \in Nat /\ elapsed * MinRate <= earned
    BY <1>2, <1>3, ProductMonotone
  <2>2. elapsed * MinRate = MinRate * elapsed
    BY <1>2, <1>3
  <2>3. earned \in Nat
    BY <1>2, <1>3, ProductMonotone
  <2>. QED  BY <2>1, <2>2, <2>3
<1>5. Refilled(r, now) = AtMost(Capacity[r], Held(r) + earned)
  BY DEF Refilled
<1>6. CASE ~stored
  <2>1. Held(r) = Capacity[r]
    BY <1>6 DEF Held
  <2>. HIDE DEF earned
  <2>. QED  BY <1>1, <1>4, <1>5, <2>1 DEF AtMost
<1>7. CASE stored
  <2>1. elapsed = AtLeast(0, now - last_refill) /\ Held(r) = tokens
    BY <1>7 DEF Since, Held
  <2>2. tokens \in Nat
    BY DEF TypeOK
  <2>3. \/ Refilled(r, now) >= MinCapacity
        \/ Refilled(r, now) >= tokens + MinRate * elapsed
    <3>. HIDE DEF elapsed, earned
    <3>. QED  BY <1>1, <1>4, <1>5, <2>1, <2>2 DEF AtMost
  <2>. QED  BY <1>7, <2>1, <2>3
<1>. QED  BY <1>6, <1>7

\* A script run keeps the books: a run that finds a full bucket, or a stamp
\* from before s, opens a new second to reckon from.
LEMMA ScriptKeepsFunded ==
    ASSUME TypeOK, TypeOK', Funded, NEW c \in Calls, call[c].phase = "sent",
           Script(call[c].rule, call[c].now)
    PROVE  Funded'
<1>. USE BucketAssumption
<1>. DEFINE r == call[c].rule
            now == call[c].now
            forward == AtLeast(0, now - last_refill)
            due(s) == MinCapacity + MinRate * (now - s)
<1>1. r \in Rules /\ now \in Times
  BY DEF TypeOK, Sent, Idle
<1>2. /\ last_refill \in Nat /\ tokens \in Nat /\ tokens' \in Nat /\ now \in Nat
      /\ MinRate \in Nat /\ MinCapacity \in Nat /\ last_refill' = now
      /\ Times \subseteq Nat
      /\ \A s \in Times : admitted[s] \in Nat /\ admitted'[s] \in Nat
  BY <1>1 DEF TypeOK, Times, Script
<1>3. Refilled(r, now) \in Nat
  BY <1>1, RefilledBounds
<1>4. \A s \in Times : admitted[s] <= admitted'[s]
  BY <1>2 DEF Script
<1>5. \A s \in Times : s <= now =>
        admitted'[s] + tokens' = admitted[s] + Refilled(r, now)
  <2>1. CASE Allows(r, now)
    <3>1. /\ tokens' = Refilled(r, now) - 1
          /\ \A s \in Times : s <= now => admitted'[s] = admitted[s] + 1
      BY <2>1 DEF Script
    <3>. QED  BY <1>2, <1>3, <3>1
  <2>2. CASE ~Allows(r, now)
    <3>1. tokens' = Refilled(r, now) /\ \A s \in Times : admitted'[s] = admitted[s]
      BY <2>2 DEF Script
    <3>. QED  BY <1>2, <1>3, <3>1
  <2>. QED  BY <2>1, <2>2
<1>6. \A s, u \in Times : s <= u => admitted'[u] <= admitted'[s]
  <2>. SUFFICES ASSUME NEW s \in Times, NEW u \in Times, s <= u
                PROVE  admitted'[u] <= admitted'[s]
    OBVIOUS
  <2>1. admitted[u] <= admitted[s] /\ (u <= now => s <= now)
    BY <1>2 DEF Funded
  <2>. QED  BY <1>2, <2>1 DEF Script
<1>7. verdict' = "deny" => tokens' = 0
  BY <1>3 DEF Script, Allows
<1>8. \E s \in Times : s <= now /\ admitted'[s] + tokens' >= due(s)
  <2>1. due(now) = MinCapacity
    BY <1>2
  <2>2. CASE Refilled(r, now) >= MinCapacity
    <3>1. admitted'[now] + tokens' >= due(now)
      <4>. HIDE DEF due
      <4>. QED  BY <1>1, <1>2, <1>3, <1>5, <2>1, <2>2
    <3>. QED  BY <1>1, <1>2, <3>1
  <2>3. CASE /\ stored
             /\ Refilled(r, now) >= tokens + MinRate * forward
    <3>1. forward \in Nat /\ MinRate * forward \in Nat
      BY <1>2, ProductMonotone DEF AtLeast
    <3>2. PICK s \in Times :
             /\ s <= last_refill
             /\ admitted[s] + tokens >= MinCapacity + MinRate * (last_refill - s)
      BY <2>3 DEF Funded
    <3>3. CASE s <= now
      <4>1. admitted'[s] + tokens' >= admitted[s] + tokens + MinRate * forward
        <5>. HIDE DEF forward
        <5>. QED  BY <1>2, <1>3, <1>5, <2>3, <3>1, <3>3
      <4>2. now - s = (last_refill - s) + (now - last_refill)
            /\ now - last_refill <= forward
        BY <1>2 DEF AtLeast
      <4>3. MinRate * (now - s) <= MinRate * (last_refill - s) + MinRate * forward
        <5>1. last_refill - s \in Nat /\ now - s \in Nat
          BY <1>2, <3>2, <3>3
        <5>2. now - s <= (last_refill - s) + forward
          <6>. HIDE DEF forward
          <6>. QED  BY <1>2, <3>1, <4>2
        <5>3. MinRate * (now - s) <= MinRate * ((last_refill - s) + forward)
          BY <1>2, <3>1, <5>1, <5>2, ProductMonotone
        <5>4. MinRate * ((last_refill - s) + forward)
                = MinRate * (last_refill - s) + MinRate * forward
          <6>. HIDE DEF forward
          <6>. QED  BY <1>2, <3>1, <5>1
        <5>. QED  BY <5>3, <5>4
      <4>4. /\ MinRate * (now - s) \in Nat /\ MinRate * (last_refill - s) \in Nat
        BY <1>2, <3>2, <3>3, ProductMonotone
      <4>5. admitted'[s] + tokens' >= due(s)
        <5>. HIDE DEF forward
        <5>. QED  BY <1>2, <3>1, <3>2, <4>1, <4>3, <4>4
      <4>. QED  BY <3>3, <4>5
    <3>4. CASE ~(s <= now)
      \* Nothing since s is older than now, and now owes no refill.
      <4>1. admitted[s] <= admitted[now]
        BY <1>1, <1>2, <3>4 DEF Funded
      <4>2. MinRate * (last_refill - s) \in Nat
        BY <1>2, <3>2, ProductMonotone
      <4>3. admitted'[now] + tokens' >= due(now)
        <5>. HIDE DEF forward, due
        <5>. QED  BY <1>1, <1>2, <1>3, <1>5, <2>1, <2>3, <3>1, <3>2, <4>1, <4>2
      <4>. QED  BY <1>1, <1>2, <4>3
    <3>. QED  BY <3>3, <3>4
  <2>. QED  BY <1>1, <2>2, <2>3, RefilledAtLeast
<1>. QED  BY <1>2, <1>6, <1>7, <1>8 DEF Funded

\* For any rules, any order of stamps and any number of resends: whoever is
\* refused has, since some second, been admitted for at least the smallest
\* capacity and the smallest rate.
THEOREM RefusalsEarned == Spec => []RefusalEarned
<1>1. Init => Funded
  BY DEF Init, Funded
<1>2. TypeOK /\ TypeOK' /\ Funded /\ [Next]_vars => Funded'
  <2>. SUFFICES ASSUME TypeOK, TypeOK', Funded, [Next]_vars
                PROVE  Funded'
    OBVIOUS
  <2>1. ASSUME UNCHANGED <<tokens, last_refill, verdict, admitted>>,
               stored' => stored
        PROVE  Funded'
    BY <2>1 DEF Funded
  <2>2. ASSUME NEW c \in Calls, Eval(c) \/ EvalReplyLost(c)
        PROVE  Funded'
    BY <2>2, ScriptKeepsFunded DEF Eval, EvalReplyLost
  <2>3. ASSUME NEW c \in Calls, EvalNotSent(c)
        PROVE  Funded'
    BY <2>1, <2>3 DEF EvalNotSent, bucket, history
  <2>4. ASSUME NEW c \in Calls, NEW r \in Rules, NEW now \in Times,
               AllowRequest(c, r, now)
        PROVE  Funded'
    BY <2>1, <2>4 DEF AllowRequest, bucket, history
  <2>5. CASE Tick \/ Expire
    BY <2>1, <2>5 DEF Tick, Expire, bucket, history
  <2>6. CASE UNCHANGED vars
    BY <2>1, <2>6 DEF vars, bucket, history
  <2>. QED  BY <2>2, <2>3, <2>4, <2>5, <2>6 DEF Next
<1>3. TypeOK /\ Funded => RefusalEarned
  <2>. SUFFICES ASSUME TypeOK, Funded, verdict = "deny"
                PROVE  \E s \in Times :
                         /\ s <= last_refill
                         /\ admitted[s] >= MinCapacity + MinRate * (last_refill - s)
    BY DEF RefusalEarned
  <2>1. PICK s \in Times :
           /\ s <= last_refill
           /\ admitted[s] + tokens >= MinCapacity + MinRate * (last_refill - s)
    BY DEF Funded
  <2>2. tokens = 0 /\ admitted[s] \in Nat
    BY DEF Funded, TypeOK
  <2>. QED  BY <2>1, <2>2
<1>. QED  BY <1>1, <1>2, <1>3, Typing, PTL DEF Spec

=============================================================================
