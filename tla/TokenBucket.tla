---------------------------- MODULE TokenBucket ----------------------------
(***************************************************************************)
(* The token bucket of one user: internal/ratelimiter/token_bucket.go.     *)
(*                                                                         *)
(* AllowRequest reads its host's clock, then sends the Lua script and that *)
(* reading to Redis, which runs the script atomically on the hash          *)
(* "tb:<user>".  Between the two any number of other calls, of this or of  *)
(* another server, may run their script, so the script sees stamps out of  *)
(* order.  The Redis client repeats a call whose reply it does not get.    *)
(*                                                                         *)
(* The environment is bounded by constants that the code fixes only        *)
(* indirectly: MaxLag, how long after its clock reading a call can still   *)
(* reach Redis (the dial, read and write timeouts of the Redis client),    *)
(* and MaxSkew, how far ahead a server's clock can be of Redis's.          *)
(***************************************************************************)
EXTENDS Integers

CONSTANTS
    Calls,        \* goroutines that may be inside AllowRequest at one time
    Rules,        \* (capacity, refill rate) pairs the user's requests carry
    Capacity,     \* Capacity[r] of rule r
    RefillRate,   \* RefillRate[r] of rule r, tokens a second
    MaxCapacity,  \* the largest capacity of a rule
    MaxRate,      \* the largest refill rate of a rule
    MinCapacity,  \* the smallest capacity of a rule
    MinRate,      \* the smallest refill rate of a rule
    TTL,          \* seconds the hash outlives its last script run
    MaxRetries,   \* times the Redis client repeats a command
    MaxLag,       \* seconds between a clock reading and its script run
    MaxSkew,      \* seconds a server's clock runs ahead of Redis's
    MaxClock,     \* bound on time
    MaxSlip       \* bound on slip: past it calls come singly and in order

ASSUME BucketAssumption ==
    /\ Capacity \in [Rules -> Nat \ {0}]
    /\ RefillRate \in [Rules -> Nat \ {0}]
    /\ MaxCapacity \in Nat \ {0}
    /\ MaxRate \in Nat \ {0}
    /\ MinCapacity \in Nat \ {0}
    /\ MinRate \in Nat \ {0}
    /\ \A r \in Rules : /\ MinCapacity <= Capacity[r] /\ Capacity[r] <= MaxCapacity
                        /\ MinRate <= RefillRate[r] /\ RefillRate[r] <= MaxRate
    /\ TTL \in Nat \ {0}
    /\ MaxRetries \in Nat
    /\ MaxLag \in Nat
    /\ MaxSkew \in Nat
    /\ MaxClock \in Nat
    /\ MaxSlip \in Nat

VARIABLES
    clock,        \* Redis's clock, in seconds
    stored,       \* does the hash exist?
    tokens,       \* its two fields; what they last were if it does not
    last_refill,
    expires,      \* when Redis drops the hash unless a script runs before
    call,         \* the calls in flight
    \* History, read by no action:
    verdict,      \* the last decision of a script run
    admitted,     \* admitted[s]: script runs that admitted a stamp >= s
    slip          \* sum of the distances last_refill was moved back

bucket == <<stored, tokens, last_refill, expires>>
history == <<verdict, admitted, slip>>
vars == <<clock, bucket, call, history>>

Times == 0 .. (MaxClock + MaxSkew)

\* A call whose script is on its way, with what it carries: the clock when it
\* read it (issued, now), the resends left.
Sent == [phase : {"sent"}, rule : Rules, issued : 0 .. MaxClock, now : Times,
         left : 0 .. MaxRetries]

\* No call, or one that has returned reply.
Idle == [phase : {"idle"}, reply : {"none", "allowed", "denied", "error"}]

AtMost(bound, n) == IF n <= bound THEN n ELSE bound
AtLeast(bound, n) == IF n >= bound THEN n ELSE bound

Init ==
    /\ clock = 0
    /\ stored = FALSE
    /\ tokens = 0
    /\ last_refill = 0
    /\ expires = 0
    /\ call = [c \in Calls |-> [phase |-> "idle", reply |-> "none"]]
    /\ verdict = "none"
    /\ admitted = [s \in Times |-> 0]
    /\ slip = 0

-----------------------------------------------------------------------------
(* The Lua script, run for rule r with the stamp now. *)

Held(r) == IF stored THEN tokens ELSE Capacity[r]
Since(now) == IF stored THEN last_refill ELSE now

\* Mutants of Refilled: the cap is dropped; math.max(0, ...) is dropped; a
\* missing hash counts as an empty bucket, as GetBucketState reports it.
RefilledUncapped(r, now) ==
    Held(r) + AtLeast(0, now - Since(now)) * RefillRate[r]
RefilledSigned(r, now) ==
    AtMost(Capacity[r], Held(r) + (now - Since(now)) * RefillRate[r])
RefilledFromEmpty(r, now) ==
    IF stored
      THEN AtMost(Capacity[r],
                  tokens + AtLeast(0, now - last_refill) * RefillRate[r])
      ELSE 0

\* The balance once the time since last_refill is credited: a stamp behind
\* last_refill credits nothing, a missing hash counts as a full bucket.
Refilled(r, now) ==
    AtMost(Capacity[r],
           Held(r) + AtLeast(0, now - Since(now)) * RefillRate[r])

\* Mutant of Allows: an off-by-one.
AllowsAboveOne(r, now) == Refilled(r, now) > 1

Allows(r, now) == Refilled(r, now) >= 1

Script(r, now) ==
    /\ stored' = TRUE
    /\ tokens' = IF Allows(r, now) THEN Refilled(r, now) - 1
                                   ELSE Refilled(r, now)
    /\ last_refill' = now
    /\ expires' = clock + TTL
    /\ verdict' = IF Allows(r, now) THEN "allow" ELSE "deny"
    /\ admitted' = [s \in Times |->
                      IF Allows(r, now) /\ s <= now THEN admitted[s] + 1
                                                    ELSE admitted[s]]
    /\ slip' = slip + AtLeast(0, last_refill - now)

-----------------------------------------------------------------------------
(* A call of AllowRequest, from the clock reading to the reply. *)

\* The goroutine reads its host's clock and hands the script to the client.
AllowRequest(c, r, now) ==
    /\ call[c].phase = "idle"
    /\ now \in clock .. (clock + MaxSkew)
    /\ slip >= MaxSlip =>
         last_refill <= now /\ \A d \in Calls : call[d].phase = "idle"
    /\ call' = [call EXCEPT ![c] =
                  [phase |-> "sent", rule |-> r, issued |-> clock, now |-> now,
                   left |-> MaxRetries]]
    /\ UNCHANGED <<clock, bucket, history>>

Returned(reply) == [phase |-> "idle", reply |-> reply]

\* Redis runs the script and the reply arrives.
Eval(c) ==
    /\ call[c].phase = "sent"
    /\ Script(call[c].rule, call[c].now)
    /\ LET reply == IF Allows(call[c].rule, call[c].now) THEN "allowed"
                                                         ELSE "denied"
       IN  call' = [call EXCEPT ![c] = Returned(reply)]
    /\ UNCHANGED clock

\* The client, left without a reply, sends the same script and stamp again,
\* or gives up with an error once its retries are spent.
Resend(c) ==
    call' = [call EXCEPT
               ![c] = IF call[c].left > 0
                        THEN [call[c] EXCEPT !.left = call[c].left - 1]
                        ELSE Returned("error")]

\* Redis runs the script but the reply is lost or comes too late.
EvalReplyLost(c) ==
    /\ call[c].phase = "sent"
    /\ Script(call[c].rule, call[c].now)
    /\ Resend(c)
    /\ UNCHANGED clock

\* The command never reaches Redis.
EvalNotSent(c) ==
    /\ call[c].phase = "sent"
    /\ Resend(c)
    /\ UNCHANGED <<clock, bucket, history>>

-----------------------------------------------------------------------------
(* Time. *)

\* Redis drops the hash when its time to live is over.
Expire ==
    /\ stored
    /\ clock >= expires
    /\ stored' = FALSE
    /\ UNCHANGED <<clock, tokens, last_refill, expires, call, history>>

\* A second passes: no call outlives MaxLag, no hash its time to live.
Tick ==
    /\ clock < MaxClock
    /\ \A c \in Calls : call[c].phase = "sent" => clock < call[c].issued + MaxLag
    /\ stored => clock < expires
    /\ clock' = clock + 1
    /\ UNCHANGED <<bucket, call, history>>

Next ==
    \/ Tick
    \/ Expire
    \/ \E c \in Calls :
         \/ \E r \in Rules, now \in Times : AllowRequest(c, r, now)
         \/ Eval(c)
         \/ EvalReplyLost(c)
         \/ EvalNotSent(c)

Spec == Init /\ [][Next]_vars

-----------------------------------------------------------------------------
(* Properties. *)

\* Every variable has its type; the balance is never negative nor above the
\* largest capacity.
TypeOK ==
    /\ clock \in 0 .. MaxClock
    /\ stored \in BOOLEAN
    /\ tokens \in 0 .. MaxCapacity
    /\ last_refill \in Times
    /\ expires \in 0 .. (MaxClock + TTL)
    /\ call \in [Calls -> Sent \union Idle]
    /\ verdict \in {"none", "allow", "deny"}
    /\ admitted \in [Times -> Nat]
    /\ slip \in Nat

\* Whatever the order in which stamps reach the script, and whichever rules
\* the user's routes carry, the script runs that admit a stamp from s on are
\* at most a full bucket plus the refill of the time since s, and refill is
\* given twice only for the seconds by which last_refill was moved back (the
\* unguarded HMSET of last_refill).  The balance still in the bucket counts
\* against the same budget.
RateBound ==
    \A s \in Times :
        admitted[s] > 0 =>
            admitted[s] + tokens
                <= MaxCapacity + MaxRate * (last_refill + slip - s)

\* What RateBound rests on: a hash is dropped only TTL seconds after the last
\* script run, and a script runs close to the time of its stamp.
InTime ==
    /\ IF stored THEN clock <= expires ELSE expires <= clock
    /\ \A s \in Times : admitted[s] > 0 => last_refill + TTL <= expires + MaxSkew
    /\ \A c \in Calls : call[c].phase = "sent" =>
         /\ call[c].issued <= clock /\ clock <= call[c].issued + MaxLag
         /\ call[c].issued <= call[c].now
         /\ call[c].now <= call[c].issued + MaxSkew

\* The time to live is long enough for an idle bucket to refill: a dropped
\* hash, read as a full bucket, gives away nothing.
TTLCoversRefill == MaxRate * (TTL - MaxLag - MaxSkew) >= MaxCapacity

\* The bound a token bucket is used for: from any second on, no more is
\* admitted than one full bucket plus the average rate times the elapsed
\* time.  It holds when scripts run in the order of their stamps.
ControlledBursts ==
    \A s \in Times :
        admitted[s] > 0 =>
            admitted[s] <= MaxCapacity + MaxRate * (last_refill - s)

\* A user is never starved: once a second has passed since the last run of
\* the script, refused or not, the next request is admitted.  A refusal also
\* stores the balance and moves last_refill, and must lose no refill by it.
RefillAdmits ==
    [][\A c \in Calls :
          (/\ Eval(c) \/ EvalReplyLost(c)
           /\ stored
           /\ call[c].now > last_refill)
            => verdict' = "allow"]_vars

\* The other side of the bound: nobody is refused who has not used what he
\* was given.  At every refusal there is a second s since when the user's
\* script runs have admitted at least the smallest capacity and the smallest
\* rate for the time since: neither a stamp behind last_refill, nor a refusal
\* before, nor a route with another rule, nor a dropped hash loses him refill.
\* Runs whose reply was lost are among what he has used.
RefusalEarned ==
    verdict = "deny" =>
        \E s \in Times :
            /\ s <= last_refill
            /\ admitted[s] >= MinCapacity + MinRate * (last_refill - s)

\* What RefusalEarned rests on: what was admitted since s and what is left
\* make up the allowance of the time since s, and a refusal leaves nothing.
Funded ==
    /\ \A s, u \in Times : s <= u => admitted[u] <= admitted[s]
    /\ verdict = "deny" => tokens = 0
    /\ stored \/ verdict # "none" =>
         \E s \in Times :
             /\ s <= last_refill
             /\ admitted[s] + tokens >= MinCapacity + MinRate * (last_refill - s)

\* Stamps reach the script in the order of the clock.
PromptCalls == MaxLag = 0 /\ MaxSkew = 0

SingleRule ==
    \A r \in Rules : Capacity[r] = MaxCapacity /\ RefillRate[r] = MaxRate

\* What holds of prompt calls: no stamp is behind last_refill.
InOrder ==
    /\ slip = 0
    /\ last_refill <= clock
    /\ stored => expires = last_refill + TTL

\* What the bucket holds for a single rule, were it refilled every second.
Level ==
    IF stored
      THEN AtMost(MaxCapacity, tokens + (clock - last_refill) * MaxRate)
      ELSE MaxCapacity

Eager == INSTANCE EagerBucket
             WITH Capacity <- MaxCapacity, RefillRate <- MaxRate, level <- Level

\* Refilling on demand, dropping an idle hash and refusing a request are not
\* observable: with one rule, prompt calls and equal clocks the limiter makes
\* exactly the decisions of a bucket refilled at every second.
RefinesEager == Eager!Spec

=============================================================================
