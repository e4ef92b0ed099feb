--------------------------- MODULE SlidingWindow ---------------------------
(***************************************************************************)
(* The sliding window of one user: internal/ratelimiter/sliding_window.go. *)
(*                                                                         *)
(* AllowRequest reads its host's clock, in milliseconds, and sends the Lua *)
(* script and that reading to Redis, which runs the script atomically on   *)
(* the sorted set "sw:<user>".  As in TokenBucket, scripts run in another  *)
(* order than their stamps were read, and the Redis client repeats a call  *)
(* whose reply it does not get.  All routes of a user share the set.       *)
(*                                                                         *)
(* The set holds stamps: the member added for a request is its stamp, so   *)
(* two requests with the same stamp are one element.                       *)
(***************************************************************************)
EXTENDS Integers, FiniteSets

CONSTANTS
    Calls,       \* goroutines that may be inside the limiter at one time
    Rules,       \* (limit, window) pairs the user's requests carry
    Limit,       \* Limit[r] of rule r, requests
    Window,      \* Window[r] of rule r
    MaxLimit,    \* the largest limit of a rule
    MinWindow,   \* the smallest window of a rule
    Slack,       \* what EXPIRE adds to the window (60 seconds)
    MaxRetries,  \* times the Redis client repeats a command
    MaxLag,      \* time between a clock reading and its script run
    MaxSkew,     \* how far a server's clock runs ahead of Redis's
    MaxClock,    \* bound on time
    MaxBurst     \* bound on the admissions of one stamp and rule, after
                 \* which no further call carries that stamp

ASSUME WindowAssumption ==
    /\ Limit \in [Rules -> Nat \ {0}]
    /\ Window \in [Rules -> Nat \ {0}]
    /\ MaxLimit \in Nat
    /\ MinWindow \in Nat
    /\ \A r \in Rules : Limit[r] <= MaxLimit /\ MinWindow <= Window[r]
    /\ Slack \in Nat
    /\ MaxRetries \in Nat
    /\ MaxLag \in Nat
    /\ MaxSkew \in Nat
    /\ MaxClock \in Nat
    /\ MaxBurst \in Nat \ {0}

VARIABLES
    clock,      \* Redis's clock
    entries,    \* the sorted set; Redis has no empty ones
    expires,    \* when Redis drops the set unless a script runs before
    call,       \* the calls in flight
    \* History, read by no action but for its bound:
    verdict,    \* the last decision of a script run
    granted     \* granted[r][s]: requests of rule r, stamped s, admitted

history == <<verdict, granted>>
vars == <<clock, entries, expires, call, history>>

Times == 0 .. (MaxClock + MaxSkew)

\* A call of AllowRequest whose script is on its way, with the clock when it
\* read it (issued, now), the resends left and whether it holds a slot.
Sent == [phase : {"sent"}, rule : Rules, issued : 0 .. MaxClock, now : Times,
         left : 0 .. MaxRetries, counted : BOOLEAN]

\* A call of GetWindowState before its first command.
Purging == [phase : {"purging"}, rule : Rules, issued : 0 .. MaxClock,
            now : Times]

Counting == [phase : {"counting"}]

\* No call, or one that has returned: reply, and the count of GetWindowState.
Idle == [phase : {"idle"}, count : 0 .. MaxLimit,
         reply : {"none", "allowed", "denied", "counted", "error"}]

Returned(reply, count) == [phase |-> "idle", reply |-> reply, count |-> count]

Init ==
    /\ clock = 0
    /\ entries = {}
    /\ expires = 0
    /\ call = [c \in Calls |-> Returned("none", 0)]
    /\ verdict = "none"
    /\ granted = [r \in Rules |-> [s \in Times |-> 0]]

-----------------------------------------------------------------------------
(* The Lua script, run for rule r with the stamp now. *)

\* Mutants of Kept: the window is closed on its left; it is one unit short;
\* nothing is purged.
KeptClosed(r, now) == {e \in entries : e >= now - Window[r]}
KeptShort(r, now) == {e \in entries : e > now - Window[r] + 1}
KeptAll(r, now) == entries

\* What ZREMRANGEBYSCORE leaves of the set.
Kept(r, now) == {e \in entries : e > now - Window[r]}

\* Mutant of Allows: an off-by-one.
AllowsOneMore(r, now) == Cardinality(Kept(r, now)) <= Limit[r]

Allows(r, now) == Cardinality(Kept(r, now)) < Limit[r]

\* fresh: the request is not counted in granted yet.
Script(r, now, fresh) ==
    /\ entries' = IF Allows(r, now) THEN Kept(r, now) \union {now}
                                    ELSE Kept(r, now)
    /\ expires' = clock + Window[r] + Slack
    /\ verdict' = IF Allows(r, now) THEN "allow" ELSE "deny"
    /\ granted' = IF Allows(r, now) /\ fresh
                    THEN [granted EXCEPT ![r][now] = granted[r][now] + 1]
                    ELSE granted

-----------------------------------------------------------------------------
(* A call of AllowRequest, from the clock reading to the reply. *)

\* The goroutine reads its host's clock and hands the script to the client.
AllowRequest(c, r, now) ==
    /\ call[c].phase = "idle"
    /\ now \in clock .. (clock + MaxSkew)
    /\ granted[r][now] < MaxBurst
    /\ call' = [call EXCEPT ![c] =
                  [phase |-> "sent", rule |-> r, issued |-> clock, now |-> now,
                   left |-> MaxRetries, counted |-> FALSE]]
    /\ UNCHANGED <<clock, entries, expires, history>>

RunScript(c) ==
    Script(call[c].rule, call[c].now, ~ call[c].counted)

\* Redis runs the script and the reply arrives.
Eval(c) ==
    /\ call[c].phase = "sent"
    /\ RunScript(c)
    /\ LET reply == IF Allows(call[c].rule, call[c].now) THEN "allowed"
                                                         ELSE "denied"
       IN  call' = [call EXCEPT ![c] = Returned(reply, 0)]
    /\ UNCHANGED clock

\* The client, left without a reply, sends the same script and stamp again,
\* or gives up with an error once its retries are spent.
Resend(c, counted) ==
    call' = [call EXCEPT
               ![c] = IF call[c].left > 0
                        THEN [call[c] EXCEPT !.left = call[c].left - 1,
                                             !.counted = counted]
                        ELSE Returned("error", 0)]

\* Redis runs the script but the reply is lost or comes too late.
EvalReplyLost(c) ==
    /\ call[c].phase = "sent"
    /\ RunScript(c)
    /\ Resend(c, call[c].counted \/ Allows(call[c].rule, call[c].now))
    /\ UNCHANGED clock

\* The command never reaches Redis.
EvalNotSent(c) ==
    /\ call[c].phase = "sent"
    /\ Resend(c, call[c].counted)
    /\ UNCHANGED <<clock, entries, expires, history>>

-----------------------------------------------------------------------------
(* A call of GetWindowState: two commands, with other calls in between. *)

GetWindowState(c, r, now) ==
    /\ call[c].phase = "idle"
    /\ now \in clock .. (clock + MaxSkew)
    /\ call' = [call EXCEPT ![c] =
                  [phase |-> "purging", rule |-> r, issued |-> clock, now |-> now]]
    /\ UNCHANGED <<clock, entries, expires, history>>

Purge(c) ==
    /\ call[c].phase = "purging"
    /\ entries' = Kept(call[c].rule, call[c].now)
    /\ call' = [call EXCEPT ![c] = [phase |-> "counting"]]
    /\ UNCHANGED <<clock, expires, history>>

Count(c) ==
    /\ call[c].phase = "counting"
    /\ call' = [call EXCEPT ![c] = Returned("counted", Cardinality(entries))]
    /\ UNCHANGED <<clock, entries, expires, history>>

\* Either command fails.
StateError(c) ==
    /\ call[c].phase \in {"purging", "counting"}
    /\ call' = [call EXCEPT ![c] = Returned("error", 0)]
    /\ UNCHANGED <<clock, entries, expires, history>>

-----------------------------------------------------------------------------
(* Time. *)

\* Redis drops the set when its time to live is over.
Expire ==
    /\ entries # {}
    /\ clock >= expires
    /\ entries' = {}
    /\ UNCHANGED <<clock, expires, call, history>>

\* Time passes: no stamp is in flight longer than MaxLag, no set outlives its
\* time to live.
Tick ==
    /\ clock < MaxClock
    /\ \A c \in Calls :
         call[c].phase \in {"sent", "purging"} => clock < call[c].issued + MaxLag
    /\ entries # {} => clock < expires
    /\ clock' = clock + 1
    /\ UNCHANGED <<entries, expires, call, history>>

Next ==
    \/ Tick
    \/ Expire
    \/ \E c \in Calls :
         \/ \E r \in Rules, now \in Times :
              AllowRequest(c, r, now) \/ GetWindowState(c, r, now)
         \/ Eval(c)
         \/ EvalReplyLost(c)
         \/ EvalNotSent(c)
         \/ Purge(c)
         \/ Count(c)
         \/ StateError(c)

Spec == Init /\ [][Next]_vars

-----------------------------------------------------------------------------
(* Properties. *)

TypeOK ==
    /\ clock \in 0 .. MaxClock
    /\ entries \in SUBSET Times
    /\ expires \in Nat
    /\ call \in [Calls -> Sent \union Purging \union Counting \union Idle]
    /\ verdict \in {"none", "allow", "deny"}
    /\ granted \in [Rules -> [Times -> Nat]]

\* The stamps at which some request was admitted.
Stamps == {s \in Times : \E r \in Rules : granted[r][s] > 0}

\* The set never outgrows the largest limit, whatever rules and stamps come:
\* the memory a user can take in Redis is bounded, and so is what
\* GetWindowState reports, whatever runs between its two commands.
SizeBound == Cardinality(entries) <= MaxLimit

\* What the other properties rest on: scripts run close to the time of their
\* stamps, the set holds admitted stamps, and an admitted stamp leaves it only
\* when every stamp still to come is at least MinWindow - MaxLag - MaxSkew
\* later.
Retained ==
    /\ \A c \in Calls : call[c].phase \in {"sent", "purging"} =>
         /\ call[c].issued <= clock /\ clock <= call[c].issued + MaxLag
         /\ call[c].issued <= call[c].now
         /\ call[c].now <= call[c].issued + MaxSkew
    /\ \A c \in Calls : call[c].phase = "sent" /\ call[c].counted =>
         granted[call[c].rule][call[c].now] > 0
    /\ \A s \in Stamps : s <= clock + MaxSkew
    /\ entries \subseteq Stamps
    /\ \A e \in entries : e + MinWindow + Slack <= expires + MaxSkew
    /\ \A s \in Stamps \ entries : s + MinWindow <= clock + MaxSkew

\* A stamp out of order by at most MaxLag + MaxSkew can purge no stamp of the
\* window less that disorder: at most MaxLimit distinct stamps are admitted in
\* any interval of that length.
DistinctStampLimit ==
    \A t \in Times :
        Cardinality({s \in Stamps : /\ s <= t
                                    /\ s > t - (MinWindow - MaxLag - MaxSkew)})
            <= MaxLimit

\* A request is refused only if its own window holds as many admissions as its
\* rule allows: nothing expired, and nothing that was not admitted, counts.
RefusedOnlyWhenFull ==
    [][\A c \in Calls :
          Eval(c) /\ verdict' = "deny" =>
            Cardinality({s \in Stamps : s > call[c].now - Window[call[c].rule]})
                >= Limit[call[c].rule]]_vars

\* Stamps reach the script in the order of the clock.
PromptCalls == MaxLag = 0 /\ MaxSkew = 0

SingleRule == \A r \in Rules : Limit[r] = MaxLimit /\ Window[r] = MinWindow

Log == INSTANCE WindowLog WITH Limit <- MaxLimit, Window <- MinWindow,
                               log <- Stamps

\* Forgetting stamps is not observable: with one rule, prompt calls and equal
\* clocks the limiter decides exactly as one that keeps every stamp.
RefinesLog == Log!Spec

=============================================================================
