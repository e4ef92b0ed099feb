# Throttl: a TLA+ verification project

This directory models the rate-limiting service in `src/` (Go, Redis and
PostgreSQL behind it, a Next.js dashboard in front of it), checks the models with
TLC and proves the most important facts about them with TLAPS. Every definition is
translated from the source; `PROJECT.json` maps each one to its lines.

## 1. The system

A *client* is a tenant (a row of `clients`). It has API keys (`api_keys`) and rules
(`rate_limits`), one per route. An application posts `{user_id, route}` to `/check`;
the server looks the rule up, runs the limiter that the rule names in Redis, and
answers allowed or blocked. Any number of servers share one Redis and one
PostgreSQL; a server keeps no state of its own besides goroutines and metrics.

| component | state | operations | what makes it correct |
|---|---|---|---|
| Token bucket (`internal/ratelimiter/token_bucket.go`) | hash `tb:<user>`: tokens, last_refill, expiry | AllowRequest: one Lua script | bursts bounded by the capacity plus the rate times the time; nobody starved or refused what is his |
| Sliding window (`sliding_window.go`) | sorted set `sw:<user>` of stamps, expiry | AllowRequest: one Lua script; GetWindowState: two commands | never more than the limit in a window; refusals justified; bounded memory |
| Check service (`handlers/check.go`, `storage/config.go`, `rate_limits_crud.go`) | table `rate_limits`; a request in progress | lookup, limit, respond; upsert and deletion of rules | changing rules gives no more than one allowance of each limiter; refusals justified |
| Global statistics (`check.go`, `handlers/clients.go`) | four counters in Redis | a goroutine per decision; the dashboard's report | counters consistent with each other, nothing lost without a failure |
| API keys (`handlers/admin.go`, `storage/apikeys_crud.go`, `apikeys.go`, `middleware/auth.go`) | table `api_keys` | create, rotate, revoke, delete, validate | a rotation never locks a client out; no unknown valid keys; only the owner's keys |
| Clients, registration, bootstrap (`handlers/clients.go`, `admin.go`, `config.go`, `storage/clients.go`, `apikeys.go`) | tables `clients`, `api_keys`, `rate_limits` | register (three statements), bootstrap, creation and deletion of clients, keys and rules by request | a promised client stays until a request deletes it; a seeded database has its master key |
| Metrics collector (`metrics/collector.go`) | gauges, ticker, stop channel | a pass at start and at every tick; stop | gauges catch up with the tables; it stops |
| Dashboard session (`frontend/src/lib/api.ts`, `dashboard/layout.tsx`) | the key in localStorage, isAuthenticated, the forms, the calls in flight | login, register, enter, logout, navigation; a 401 removes the key; the event throttl_auth_change | the console follows the stored key; one login at a time; a new client's key is not lost; a page mounted with one key does not show another's rows |
| Dashboard pages (`dashboard/page.tsx`, `api-keys`, `rate-limits`, `clients`) | the lists shown, a form, the generated key, the spinner | load, refresh, create, edit, rotate, revoke, delete | lists as new as the user's own changes; a new key is seen; a form writes the rule it was opened for |
| Metrics middleware, API documentation, landing page, deployment | | | not modelled, see section 7 |

How they interact: the check service calls a limiter (one Redis round trip) and
starts a goroutine for the statistics; registration writes to three tables that the
key store, the check service and the collector read; the collector runs beside all
of them. The dashboard is one page per tab: its layout holds the session, a page is
mounted inside it, and both call the server with the key stored in the browser, which
all tabs share. Nothing is held across two statements: there is no transaction, lock or
version anywhere in the code, so every SQL statement and every Redis command is an
atomic step of its own, and everything else may run in between.

What is hard here: stamps that are read on one host and used in Redis later, in
another order; a Redis client that sends a script again when its reply is lost;
rules that change between lookup and decision; sequences of SQL statements that
stop half-way, whose last statement undoes an earlier one, or whose UPDATE is
executed but reported as failed; pipelines that are repeated; servers that start
and stop in the middle of anything. In the dashboard: answers that come late, in
another order, or for a component that is gone, whose code runs on; another tab that
changes the key; refreshes that overlap; a key that is shown only once; forms over rows
that have changed since. `PROJECT.json` lists these hazards with their
lines and the properties that cover them.

## 2. The modules

| module | what it models | proofs | model checking |
|---|---|---|---|
| `TokenBucket` | one user's bucket, concurrent calls, retries, clocks, expiry | `TokenBucketProofs` | `MCTokenBucket` |
| `EagerBucket` | abstract: a level refilled every second | | refined by `TokenBucket` |
| `SlidingWindow` | one user's sorted set, concurrent calls, retries, clocks, expiry | `SlidingWindowProofs` | `MCSlidingWindow` |
| `WindowLog` | abstract: the log of all admissions | | refined by `SlidingWindow` |
| `CheckService` | handlers, rules that change, both limiters during a burst | `CheckServiceProofs` | `MCCheckService` |
| `Statistics` | the counting goroutines and the report | `StatisticsProofs` | `MCStatistics` |
| `KeyStore` | the life of keys under overlapping, failing requests | `KeyStoreProofs` | `MCKeyStore` |
| `Registry` | registration, bootstrap of several servers, administrators | `RegistryProofs` | `MCRegistry` |
| `Collector` | the collector's passes over changing tables | `CollectorProofs` | `MCCollector` |
| `Api` | fetchApi, the stored key, the endpoints as the dashboard sees them | | |
| `Session` | the layout: who is logged in, the forms, which page is mounted | | |
| `Page` | what the pages do alike | | |
| `KeysPage`, `RulesPage`, `ClientsPage`, `Overview` | the four pages | | |
| `Console` | the dashboard in one tab, composed of the six above | `ConsoleProofs` | `MCConsole` |

### TokenBucket

`stored`, `tokens`, `last_refill` and `expires` are the hash and its time to live;
`call` holds the goroutines inside `AllowRequest`. A call is two steps at least:
`AllowRequest` reads the clock (line 21), `Eval` runs the whole Lua script
atomically and returns. `EvalReplyLost` runs the script and loses the reply,
`EvalNotSent` loses the command; after either the Redis client, whose default
retries are left on, sends the same script with the same stamp again, or gives up.
`Script` is the Lua text: the refilled balance (`Refilled`), the decision
(`Allows`), HMSET and EXPIRE in both branches. A stamp may run up to `MaxSkew`
seconds ahead of Redis's clock and reach Redis up to `MaxLag` seconds late. `Rules`
are the rules of the user's routes, which share the hash; `MinCapacity`, `MaxCapacity`,
`MinRate` and `MaxRate` are their least and largest parameters. `admitted`, `verdict` and
`slip` are history; no action reads the first two, and `slip` only serves to bound
the disorder that TLC explores (`MaxSlip`). `RateBound` and `RefusalEarned` are the two
sides of one budget: not more than the allowance is admitted, and nobody is refused who
has not used an allowance.

### SlidingWindow

`entries` is the sorted set as a set of stamps (the member added *is* the stamp),
`expires` its time to live. Calls are as above; `GetWindowState` is a call of two
commands, `Purge` and `Count`. Nothing calls it in the server; it is modelled as an
operation the package offers. `granted[r][s]` counts the requests of rule `r`
admitted with stamp `s`, which the set itself cannot tell apart.

### CheckService

A handler goes through `Lookup` (SELECT), `Limit` (script) and `Respond`;
administrators take `Upsert`, `DeleteRule` and `DeleteClient` in between. The last
removes all rules of the client by the foreign key and leaves its bucket and window in
Redis, so that a client registered again under the name, whose rules are new upserts,
gets what is left of the old allowance. A failed SELECT is
answered like a missing rule (`LookupFails`), as in the code; a failed script may
or may not have run (`LimitFails`). The limiters are those of the two modules above
within one burst: nothing is refilled and no stamp leaves its window, so a bucket
is its balance and a set its size. The case of two requests with the same stamp
stays: an admitted request need not enlarge the set (`shared` counts those, `MaxShared`
bounds them). A rule changed to the other algorithm is decided by the other limiter, under
a key of its own (`tb:<user>`, `sw:<user>`): `BurstBound` counts both allowances, and says
that nothing gives a third. The `default:` branch of the
handler's switch is dead, the table's CHECK allows two algorithms.

### Statistics

One pipeline of three commands for each decision, executed one at a time among
those of others. `Break` is a broken connection: the client starts the pipeline
again, whatever was executed, or the goroutine gives up. `Shutdown` is the exit of
a server, which waits for no goroutine. The sum of latencies is represented by the
number of latencies in it. The report is a pipeline of four GETs whose errors are
ignored (`GetsBreak`).

### KeyStore

`keys[k]` is the row of the key hash `k`. A request authenticates (`Ask`,
`AskCreate`, with the middleware's guards), checks ownership in a step of its own
unless it is an administrator's (`CheckOwner`), and acts. A rotation is `ReadOld`,
`Insert`, `Deactivate` and, if that fails, `Cleanup`; each statement may fail
executed or not (`...Fails`), and a handler may die between any two (`Drop`).
`Schemas` says whether the table has the column `updated_at` that two UPDATEs
set. In `scripts/setup.sql` it does not, so there every rotation takes the cleanup
and no revocation succeeds. The run starts from either schema (`hasUpdatedAt`), the
code being written for the one that has the column. A key that expires or grows
too old is `late`. `minted`, `told`, `holders` (the clients of the keys in `told`)
and `withdrawn` are history.

### Registry

A client's row, of which types it has keys and whether it has the rule `*`; the master
key is the administrator's key of the default client. A server goes through `CountKeys`,
`LookupDefault`, `InsertDefault`, `InsertMaster` and serves whatever the bootstrap
returned (`BootstrapFails`); `Stop` may cut it off anywhere. A registration is
`CreateClient`, `CreateKey`, `InsertRule`, `Respond`, with `Undo` after a failed key and no
undo after a failed rule. The requests to `/admin` create and delete clients
(`AdminCreate`, `AdminDelete`, which takes keys and rules along by the foreign keys), keys
(`AddKey`, `DeleteKey`) and the rule (`SaveRule`, `DeleteRule`); a client may do the last
four to itself. Who may ask is read from the keys in the same step, whether or not they
are active: the time between the two is the subject of `KeyStore`. Revoking and rotating
a key take no row away and are there, too; a rotation that deletes its own new key leaves
the old row.

History: `promised`, the clients answered with success, until a request deletes the client
or its last key; `disputed`, the names for which that happened under a registration, which
goes on with whatever client bears the name next; `stripped`, the clients whose last key
or whose rule a request deleted; `fresh`, that the database had no key when the first
server started and that nothing that ends the promise about the master key (a deletion of a
key or client, a lost race for the default client) has happened since.

### Collector

A pass is three queries (keys, rules, rules by client) and the Redis INFO; after a
query gauges are set one by one (`Show`) and only for series with rows. The rows
of different gauges change independently, more freely than in the program, where
two gauges are computed from the same table. The ticker's channel holds one tick.
Ticker and signal handler exist only after the first pass, which runs in `main`.

### Api

`stored` is the key in localStorage, `calls` the requests in flight, of which there are
as many as `Slots`; `apiKeys`, `clients` and `rules` are the tables. A call holds what
was asked and with which key, then the answer (`code`, `body`, `made`). The server
answers calls in any order (`Serve`, `ServeList`, `ServeLogin`), refuses them (`Reject`
is the middleware, `Refuse` the handlers and their statements), or a request fails
(`Fail`: lost, or the database failed, which the middleware answers with 401). An
endpoint is one atomic step here; what its statements do to each other is the subject of
`KeyStore` and `Registry`. The lists that a page fetches with one `Promise.all` are one
call whose lists are read one by one. `Others` are other users. `Limits` holds records
that say which pages, keys, names and routes occur and how many changes, failures and
switches of the key; `Init` chooses one.

The code that awaits an answer runs on when its component is unmounted. `Forget` turns
a call into one that is not `live`; `DeadAnswer` is the answer to such a call, which
has no effect any more but for the call it sends next (`FollowUp`), and fetchApi's own.

### Session

The layout. `CheckAuth` is checkAuth, `Dispatch` the event that fetchApi sends to the
layout of its own tab. `LoginAnswered` stores the key even if the layout is gone;
`Unauthorized` removes the stored key, whichever key was refused, and unmounts the page.
`Elsewhere` is another tab. Reloading the page is `Leave` with its calls lost, then
`Open`. History: `switched`, the key was changed where no event reaches the layout, by
another tab, and no property about the stored key is claimed until the next event;
`overtaken`, a login that was answered late changed the key while a page was mounted. The
event of that one does reach the layout, but `checkAuth` leaves a mounted page alone, which
goes on with the rows of the old account: `OwnDataOnly` says that nothing else has this
effect, not that this has not. `unclaimed`, the keys of registrations that the user has
neither entered with nor left behind; `RegisteredKeyKept` speaks of these, of the steps
that could change the key, the form or what is on the screen.

### Page, KeysPage, RulesPage, ClientsPage, Overview

The mounted page is the record `view` (`Mounted`): what it lists, the form, the key it
displays, the spinner. `ListAnswered` takes over a list, `Changed` is the end of a
handler whose call succeeded and that fetches the lists again. The pages differ in
what they fetch and how: the pages of keys and rules make two calls and take over each
as it arrives, the page of clients takes over three lists or none and loads again when
the role changes, the overview fetches in two stages for an administrator. `KeysPage`
shows a new key in its modal; `RulesPage` is the form that creates and edits (`FormOf`,
`Payload`, `Scope`: what the form holds, what it sends, for which client). `Trim` is
`trim()`, which the form applies to the route, also to that of the row it was opened for,
while the server stores routes as they are sent: a caller of the API can store a rule for
`" /a"`, and the form opened for it writes the rule of `"/a"` (`EditKeepsTarget` says
exactly this). A route of blanks is `NoRoute` once trimmed, and not sent. A form is
sent only once the effect of the mount has run (`FormShown`): React runs pending effects
before it handles the next click.

History in `view`: whose key fetched the lists (`by`), the last change of its own that
was answered (`must`), the keys the user has not seen off (`owed`); `excused` that
refreshes overlapped or failed; `hurried` that the user did not wait for an answer that
brings a key.

## 3. The runs

Runs that pass (TLC explores the whole bounded state space):

| run | properties | what it shows |
|---|---|---|
| `tb_inorder` | ControlledBursts, RefinesEager | with one rule, equal clocks and prompt calls the bucket behaves as one that is refilled every second, retries and expiry included |
| `tb_disorder` | TypeOK, RateBound, RefusalEarned, RefillAdmits | with two rules, skew, lag and retries, the only excess over the budget is the time `last_refill` was moved back; whoever is refused has used the least allowance of some stretch of time; a second's wait is always rewarded |
| `sw_inorder` | RefinesLog | the set may forget what it forgets: the decisions are those of a complete log |
| `sw_disorder` | TypeOK, SizeBound, Retained, DistinctStampLimit, RefusedOnlyWhenFull | two rules, skew, lag and retries: bounded memory, a limit on distinct stamps, justified refusals |
| `cs_burst` | TypeOK, BurstBound, RefusedOnlyWhenSpent | a burst gets one allowance of each limiter, and no new rule, route, algorithm, retry or restart, and no deletion of the client, gives a third; no unjustified refusal |
| `st_counters` | CountersOrdered, CountersExact, ReportCovered, EventuallyCounted | repeated, interrupted and torn pipelines keep the counters in order; without failures they are exact |
| `ks_keys` | TypeOK, AccessKept, AccessTold, UnclaimedBounded, OwnKeysOnly | with either schema a rotation takes nothing away and leaves nothing behind but for one key per failure, and only owner and administrator take keys away |
| `rg_register` | RegisteredStays, HalfBounded, MasterPresent | overlapping registrations, servers that seed the database and crash, and requests that delete clients, keys and rules |
| `co_gauges` | GaugeCatchesUp, StopsInTheEnd | gauges catch up with rows that stay; a stopped collector ends |
| `cn_console` | TypeOK, AuthFollowsKey, OneVerification, RegisteredKeyKept, OwnDataOnly, ListsFresh, LoadingJustified, KeyDisplayed, ListsForward, EditKeepsTarget, UntouchedEditHarmless | whatever answers are late, lost or for components that are gone: the console follows the key, one login is awaited at a time, the key of a registration and a new key stay on the screen, a page shows the rows of the stored key unless that was changed under it, lists are as new as the user's own changes and never go back unless refreshes overlap, the spinner ends, a form writes the rule of its client and its trimmed route only |

Runs that find a disagreement between the code and what the repository says; the
text and the line are in `PROJECT.json` under `findings`:

| run | property | what happens |
|---|---|---|
| `sw_samestamp` | RuleLimit | requests of one millisecond are one element: more are admitted than the limit |
| `ks_deactivate` | KeysAreDeactivated | with the repository's schema neither revocation nor rotation deactivates a key |

Each property of a passing run has a mutant, a plausible bug in one definition
(written next to it) that TLC must catch under the same run.

## 4. Bounds

* Two concurrent calls, handlers, registrations or servers: all the races in this
  code are between two statements of one actor and one statement of another, and
  two show every order. Two rules or routes where sharing is the question.
* Token bucket: capacities 1 and 2, rates 2 and 1 (the small bucket refills faster), four
  or seven seconds, TTL 3:
  enough to empty and refill a bucket, to let a hash expire and be created again,
  and to have stamps out of order by two seconds (lag and skew of 1). `MaxSlip`
  bounds how far `last_refill` has been moved back; past it calls go one at a time.
  `RateBound` is proved without regard to it.
* Sliding window: limits 1 and 2, windows 3 to 5, six or seven instants: elements
  enter, leave at the edge of the window, and the set expires. `MaxBurst` bounds the
  admissions of one stamp and rule.
* Check service: quotas 2 and 4, so that a rule may cut a bucket below what another
  left in it; two routes, one failure, `MaxShared` 1: one request that shares a stamp. The
  burst needs no other bound: its length is limited by the quotas and the failures.
* Statistics: two decisions, one retry, two failures: one pipeline broken twice, or
  both broken, or a restart on top of a break.
* Key store: three keys of which one, an administrator's, exists at the start, two
  clients: a creation and a rotation, or two rotations of one key, or a rotation of
  the key just created, by its owner. `KeysLeft` admits a request that creates a key
  only while there is a hash left for it, `MaxLapses` bounds the keys that expire.
  Once no valid key is left nobody can be authenticated: the system really stops,
  hence `CHECK_DEADLOCK FALSE` in these runs alone.
* Registry: the default client and one other name, for which two callers and the
  administrator compete, two servers, two failures, two requests that change tables
  (`MaxChanges`): a deletion and what undoes it, or two deletions.
* Collector: one series of each gauge, at most two rows, one failed query.
* `MaxFailures`, everywhere, bounds failures of databases and deaths of servers;
  the properties that mention `failures` count them.
* Console: ten records of `Limits`, each a small world chosen to ask one thing: all
  pages with a change and a registration; two users and another tab; two users, or two
  changes, on one page; a rule with blanks around its route; each page with a failing
  request. Two calls in flight are what a
  page sends when it is loaded, and what an overlap needs; four keys of which two are
  generated; the default client and one more; the route `*`, one that is trimmed and what it is trimmed
  to. The limits of the rules are those of the form's defaults, and 1. About a million
  states, less than two minutes with two workers.

Symmetry is used for goroutines, calls in flight and keys not yet generated, only in
runs without liveness properties.

## 5. Fairness

`KeyStore`: weak fairness of a handler's next step, for the counterexample of
`ks_deactivate` alone. A goroutine is scheduled by Go, and each thing it waits for
returns an answer or an error; failures are separate steps without fairness.
`Statistics`: weak fairness of a pipeline's next command and of its end; the
context's two seconds end it otherwise. `Collector`: weak fairness of a pass and of
the ticker, and strong fairness of `Leave`, because Go's `select` chooses among
ready channels at random and does not pass over one for ever. Nothing is assumed of
callers, administrators or failures. The other runs check safety only: a browser
cannot be relied on to deliver an answer, so nothing is claimed to happen in the
dashboard, only that its spinner waits for an answer that can still come.

## 6. Proofs

All theorems hold for every value of the constants that satisfies the named
assumptions of the modules (`BucketAssumption`, `WindowAssumption`,
`ServiceAssumption`, `StatisticsAssumption`, `KeyStoreAssumption`,
`RegistryAssumption`, `CollectorAssumption`, `ApiAssumption`, `LimitsAssumption`,
`TrimAssumption`), and
the runs evaluate these assumptions.

**TokenBucketProofs.** `Typing` and `Timing` give `TypeOK` and `InTime` (a script runs
close to the time of its stamp, a hash lives TTL after its last script). `RateBounded`
proves `RateBound` under `TTLCoversRefill`, that an idle bucket refills before its
hash is dropped. The invariant is a budget: what was admitted since second `s`, plus
the balance, is at most a full bucket plus the refill of the time between `s` and
`last_refill`, plus that of `slip`. `TypeOK` and `InTime` are needed with it, the
latter for the case that the hash is gone and the bucket counts as full.
`BurstsControlled` derives `ControlledBursts` for prompt calls (`PromptCalls`), where
`slip` is zero. `Refinement` proves `Spec => RefinesEager` with one rule, the mapping
being `Level`, the stored balance with the time since `last_refill` credited.
`RefusalsEarned` (`RefusalEarned`) is the budget from below, `Funded`: there is a second
since when what was admitted and the balance make up the least capacity and the least rate
for the time up to `last_refill`. It is the second of the stamp that created the hash, or,
after a run that capped the balance at its capacity, or that moved `last_refill` back, the
second of that run; a refusal leaves nothing in the balance, so all of it was admitted.
`NeverStarved` proves the action property `RefillAdmits` for any rules and any
disorder of stamps: a second's refill is at least one token.

**SlidingWindowProofs.** `TypingAndSize` proves `TypeOK` and `SizeBound` together, since the
type of a count is the size of the set; `Typing` and `Sizes` are its halves. `Retention` proves `Retained`: an admitted
stamp leaves the set only when every stamp still to come is nearly a window later.
`StampsLimited` is then an argument on the latest of the stamps in an interval, at
whose admission the others were in the set. `RefusalsJustified` follows from
`entries \subseteq Stamps`. `Refinement` proves `Spec => RefinesLog`, with the log
mapped to `Stamps`: for prompt calls what the script keeps is exactly the part of
the log in the window.

**CheckServiceProofs.** The inductive invariant is `IInv`: types, that a handler past
its lookup has a real rule, `Budget` and `RefusedOnlyWhenSpent`. `Budget` speaks of both
limiters: balance plus tokens taken lies between the smallest and the largest quota once
there is a bucket, and the set has a stamp for each request it admitted but those that
shared one. `BurstBound` alone is not inductive, for a missing hash counts as a full bucket
and a set says nothing of what was admitted; `Budget` says that a user without a hash has
taken nothing yet; it is proved (`Conservation`) and not run. One lemma treats a run of the limiter, one the steps that
leave it alone, the deletion of a client among them.

**StatisticsProofs.** `Ordered` (`CountersOrdered`) is inductive only as `Gap`: the
surplus of one counter over the next is at least the number of goroutines that stand
between the two commands; those that are repeated or lost only widen it. `Covered`
(`ReportCovered`) follows from `Reached` and `Monotone`: what a report has read, the
counter has reached, and the counters only grow. `Exact` (`CountersExact`) counts, for
each counter, the goroutines whose command was executed in their last attempt
(`Tallied`), of decisions taken in their order (`InSequence`), while nothing failed.

**KeyStoreProofs.** `OwnersOnly` (`OwnKeysOnly`): past the check of ownership, what a
request without privileges asked for is about its client's keys, although the check and
the statement are steps apart. `FewUnclaimed` (`UnclaimedBounded`): the keys nobody was
told of are mapped one to one into the failures, since a failure leaves behind at most
the key its handler was about to create or held. `KeysLast` (`AccessKept`) is the
hardest: that a client keeps an active key is not inductive, because two rotations may
each count on the key the other is about to deactivate. The invariant calls a key
*settled* if it is active and no rotation that may still undo itself has it as its new
key; every client who is due has a settled key, and every rotation about to deactivate a
key is *backed* by a younger live one, its own new key or a settled one. Ages, an
assignment of ranks to the keys, are existentially quantified and grow with each key
created, so that backings cannot run in a circle. `KeysTold` (`AccessTold`) joins the two:
without failures nobody's key is unclaimed, so the active key a client keeps has been told
unless a rotation of his still holds it.

**RegistryProofs.** `RegisteredStay` (`RegisteredStays`): of a name that is not `disputed`,
a registration that has inserted its client owns it, nobody else is at work on it and
nobody was promised it (`Stays`); a deletion under it makes the name disputed, any other
leaves `Stays` with nothing to say. `HalfMade` (`HalfBounded`): the half-made clients that
no registration will complete or delete (`Loose`) are at most as many as the failures; a
client that a request strips of its key or rule leaves the count, and returns to it only
deleted and made anew. `MasterInPlace` (`MasterPresent`): while nothing has failed and
`fresh` holds, a server about to insert the master key finds the default client there, and
nobody is up, and no key is in the table, before the master key is (`Seeded`). That
registrations are under way only while a server is up (`Attended`) is needed for the latter:
no key comes from elsewhere.

**CollectorProofs.** `Typing` and `PassesApart`: what one part of a pass has counted is not
shown by another, and no tick or stop is taken before the first pass is over.

**ConsoleProofs.** The session rests on one invariant, `Inv`, in four parts: the form of the
calls; `Verified`, that the layout's busy flag stands for exactly one awaited call of its
own; `Claimed`, that the panel with a registration's key is shown only while no other
verification is under way, so that none can overwrite the key, and that an unclaimed key is
the panel's, in a layout that is there; and `Shows`, that page, layout and stored key agree
and live calls of the page carry the stored key, unless it was switched behind them or a
late login has overtaken them. Page actions are handled by one lemma per page, all with the same
conclusion (`PageStep`: the session is left alone, answered calls are gone or followed, new
ones carry the stored key); the server's steps and those of unmounted components by another
(`CallsKept`). From `Inv`: `ShownByKey`, `BusyWithOne`, `NoOthersRows`, and
the action property `PanelKeepsKey` (`RegisteredKeyKept`), whose lemma `OverThePanel` shows
that a console that comes up over a panel comes from a late login.

What the pages list and hold rests on `Types`, which strengthens `TypeOK` (`Typing`) by the
form of every call, its argument and its answer, and by `Within`, that the changes still to
come fit the bound on changes. Two classifications make the rest of the proof short. A step
outside of the page is, for the page, one of three things (`Frame`): the page is gone, it is
mounted anew, or its calls are served (`FrameSteps`). A step of a page is one of the kinds
of `PageKind` (clicks, loads, requests, answers), proved page by page (`PageKinds`). On
these every invariant below needs one lemma for `Frame` and one for the page:

* `PageForms`: which lists, changes and refreshes a page may have under way.
* `LoadInv`: while a page loads, `waiting` is the number of calls under way that the
  spinner waits for (the page of clients, which may load again while it loads, knows only
  that there is one). `SpinnerEnds` (`LoadingJustified`) follows.
* `FreshInv`: unless refreshes overlapped or failed, one list of the page's table is under
  way at most; what it has read is no older than what is shown and than the page's own
  changes, and if there is none, what is shown is no older than these.
  `LoadingJustified`, `ListsFresh` and `ListsForward` are not inductive, for they say nothing
  of answers that are still to come. `Order`
  puts these invariants together; `RefreshesArrive` (`ListsFresh`) and `NeverOlder` (the
  action property `ListsForward`) follow.
* `KeysShown`: one new key is awaited at a time, none while the page holds one not seen off,
  and a creation only with its form open. `NewKeyShown` (`KeyDisplayed`) follows.
* `Saving`: `RulesKnown`, that a rules' page shows the role of the stored key and, if it is a
  client's, rows of one client only, fetched or still in its calls; `Targets`, that what was
  asked for with a form for a row names that row; `RulesValid`, that stored parameters of
  the rule's algorithm are positive. The first is needed since the client's name is taken
  from the list of clients, not from the row. `EditTarget` (`EditKeepsTarget`) and
  `UntouchedEdit` (`UntouchedEditHarmless`) follow, the latter since only parameters that
  are 0 are replaced when a form is opened; `TrimAssumption` says that a trimmed route is not
  trimmed again.

Only model-checked: liveness (`EventuallyCounted`, `GaugeCatchesUp`, `StopsInTheEnd`), which
TLAPS does not reach. Every safety invariant, action property and refinement of the passing
runs is proved.

## 7. Plan, and what is left out

Order of work, the most important behaviour first; all of it is done but for what is
said under "left out".

1. `TokenBucket` with `EagerBucket`, `SlidingWindow` with `WindowLog`, and their proofs.
2. `CheckService` over both, and its proofs; with the deletion of clients, whose buckets
   stay in Redis.
3. `Statistics`, `KeyStore`, `Registry`, `Collector`, and their proofs.
4. `Api`, `Session`, the pages, composed in `Console`, and the proofs about the session.
5. Proofs about the pages' lists, spinners and forms.
6. Open: a second tab with a layout of its own (now an action, `Elsewhere`); expiry of keys
   in `Api`; an abstract key ring for `KeyStore` and `Api` to implement.

Left out: the metrics middleware (its counters are read by nothing in the program) and
the order of the middlewares in the route table of `main.go` (wiring without state, its
effect is in the guards of the endpoints); the API documentation and the landing page
(static text, a selected tab and a copied flag); in the dashboard's pages the numbers of the
statistics, descriptions, the toggles that show a key, copying to the clipboard and
styling; nginx, containers and Prometheus (configuration, or libraries), `audit_log`
(never written), `GetBucketState` (reads one field, no caller), log lines and
formatting.

What the properties leave open, because the code has nothing against it:

* a server whose clock is behind moves `last_refill` back and the seconds in
  between are credited twice (`slip` in `RateBound`); a rule that takes longer than
  the hash's hour to refill gets a full bucket early (`TTLCoversRefill`); a lost
  reply may cost a second token (`RefusalEarned` counts it as used);
* a route whose rule has a short window purges elements that another route's rule
  still counts (`DistinctStampLimit` speaks of the shortest window only);
* a failed query is answered "rate limit config not found", a failed INSERT "client
  name already taken", and the rule `*` of a registration covers no other route;
* two rotations of one key that overlap leave two new keys; a rotated key has no
  expiry; an UPDATE that is executed but reported as failed makes the cleanup of a
  rotation take the new key as well (`withdrawn`);
* a registration that fails after its client was inserted keeps the name
  (`HalfBounded` counts it); whoever deletes a client, or its only key, while its
  registration is under way lets its `Undo` delete a newer client of that name, or has
  success answered to a client without a key (`disputed`); a client may delete its own last
  key or rule, and an administrator the master key, also the last of all keys (`stripped`,
  `fresh`): the promises end there;
* a bootstrap that failed is not tried again once any key exists, and the loser of a race to
  insert the default client serves before the winner has inserted the master key;
* a gauge whose last row is gone keeps its old value, and both states of the Redis
  gauge show 1 after a failure and a success;
* the limiters' keys name the user alone, so requests to one route use up the allowance
  of another, though the dashboard speaks of rules per route; and a client registered
  again under a deleted name inherits what the old one left of its bucket;
* another tab's login or logout is not noticed until the next call or rendering; a 401
  that is late removes a newer key, a login that is late stores its key after the user has
  left, also under a mounted page, which keeps the rows of the old account (`overtaken`), or
  under the panel of a registration, in whose place it shows the console; a database failure
  under the middleware logs the user out (`switched`, `Unauthorized`);
* refreshes that overlap are taken over in the order they arrive (`excused`);
* a key that is generated after its form was closed, two at once, or by a page that was
  left, is never shown; an administrator who rotates the key in use is logged out by the
  refresh and loses the new one (`hurried`); leaving the layout loses a registration's key;
* a saved rule closes whatever form is open when its answer comes; a form writes over
  changes made since its row was listed; a form opened for a route with blanks around it
  writes the rule of the trimmed route and leaves the row it was opened for;
* a report of the dashboard reads the total before the verdicts and may show more verdicts
  than requests, and rates above one (`ReportCovered` compares with the counters themselves);
* a rule changed to the other algorithm begins with the allowance of that limiter;
* a client is shown cut-off hashes of its own keys, so its buttons on them are always
  refused; an administrator's form offers the client `admin`, which no table has;
* the overview shows no clients when that fetch failed, and says nothing.
