---------------------------- MODULE ConsoleProofs ----------------------------
(***************************************************************************)
(* The dashboard, for any keys, clients, number of calls in flight and     *)
(* limits.  The session: the console is shown exactly while a key is       *)
(* stored, one login or registration is awaited at a time, a registration's*)
(* key stays on its panel, and a page shows no rows of another key.  Types.*)
(* The pages: the spinner ends, refreshes arrive and never bring older     *)
(* rows, a new key is displayed, and the form for a rule changes that rule *)
(* and no other.                                                           *)
(*                                                                         *)
(* The steps of a page are proved one page at a time; all others are, for  *)
(* the page, one of three things (Frame): it is gone, it is mounted anew,  *)
(* or its calls are answered.                                              *)
(***************************************************************************)
EXTENDS Console, FiniteSetTheorems, TLAPS

-----------------------------------------------------------------------------
(* What a step does to the calls and to the page. *)

Fields == {"op", "arg", "key", "live", "code", "body", "made", "at", "load",
           "then"}

\* A call is none, or a record with a role: of the layout, which sends nothing
\* after it, or of a page.
CallForm(c) ==
    \/ c = NoCall
    \/ /\ DOMAIN c = Fields
       /\ c.op # "none" /\ c.live \in BOOLEAN
       /\ c.op \in LayoutCalls => c.then = {}
       /\ c.op = "login" => c.key # NoKey
       /\ c.op = "register" => c.code # "unauthorized"

CallsForm == DOMAIN calls = Slots /\ \A s \in Slots : CallForm(calls[s])

Waits(c) == c.op \in LayoutCalls /\ c.live
PageCall(c) == c.op \notin LayoutCalls \union {"none"} /\ c.live

\* The call is still what it was, or it is nothing that somebody waits for.
Kept(c, d) ==
    /\ CallForm(d)
    /\ Waits(d) <=> Waits(c)
    /\ PageCall(d) => PageCall(c) /\ d.key = c.key

CallsKept == DOMAIN calls' = Slots /\ \A s \in Slots : Kept(calls[s], calls'[s])

\* A call that a page has just sent.
Sent(c) ==
    /\ DOMAIN c = Fields
    /\ c.op \notin LayoutCalls \union {"none"}
    /\ c.live = TRUE /\ c.key = stored

\* A mounted page, and a step that keeps what it has fetched.
IsPage(v) == "by" \in DOMAIN v
SameBy(v, w) == IsPage(v) /\ IsPage(w) /\ w.by = v.by

LEMMA NoCallForm == NoCall.op = "none" /\ CallForm(NoCall)
  BY DEF NoCall, CallForm

LEMMA CallSent ==
    ASSUME NEW op, NEW arg, op \notin LayoutCalls \union {"none"}
    PROVE  /\ Sent(Call(op, arg))
           /\ \A parts : Sent(Refreshing(op, arg, parts))
  BY DEF Sent, Call, Refreshing, Fields

LEMMA FetchSent ==
    ASSUME NEW parts, NEW load
    PROVE  /\ Sent(Fetch(parts, load))
           /\ \A then : Sent([Fetch(parts, load) EXCEPT !.then = then])
  BY DEF Sent, Fetch, Call, Fields, LayoutCalls

LEMMA Pages ==
    /\ ~ IsPage(Nothing)
    /\ \A key : IsPage(Mounted(key)) /\ Mounted(key).by = {}
  BY DEF IsPage, Nothing, Mounted

\* A call whose component is gone.
LEMMA Forgotten ==
    ASSUME NEW c, CallForm(c)
    PROVE  /\ CallForm(Forget(c))
           /\ \/ Forget(c) = NoCall
              \/ Forget(c).live = FALSE /\ Forget(c).op = c.op
  BY NoCallForm DEF Forget, CallForm, Fields, LayoutCalls

\* What follows an answer: nothing, or a list, sent by the page if it is there.
LEMMA Following ==
    ASSUME CallsForm, NEW s \in Slots, ~ Idle(s), NEW key
    PROVE  LET next == FollowUp(s, key)
           IN  \/ next = NoCall
               \/ /\ CallForm(next) /\ next.live = calls[s].live
                  /\ calls[s].op \notin LayoutCalls
                  /\ next.op = "list"
                  /\ next.live => DOMAIN next = Fields /\ next.key = key
<1> DEFINE c == calls[s]
           next == [Fetch(c.then, c.load) EXCEPT !.key = key,
                           !.body = IF c.code = "ok" THEN c.body ELSE <<>>]
<1>1. CASE ~ GoesOn(c)
  BY <1>1 DEF FollowUp
<1>2. CASE GoesOn(c)
  <2>1. c.then # {} /\ c # NoCall
    BY <1>2, NoCallForm DEF GoesOn, Idle
  <2>2. c.op \notin LayoutCalls /\ c.live \in BOOLEAN
    BY <2>1 DEF CallsForm, CallForm
  <2>3. /\ DOMAIN next = Fields /\ next.key = key /\ next.op = "list"
        /\ next.live = TRUE
    BY DEF Fetch, Call, Fields
  <2>4. CallForm(next)
    BY <2>3 DEF CallForm, LayoutCalls
  <2>5. FollowUp(s, key) = IF c.live THEN next ELSE Forget(next)
    BY <1>2 DEF FollowUp
  <2> HIDE DEF next
  <2> QED
    BY <2>2, <2>3, <2>4, <2>5, Forgotten
<1> QED
  BY <1>1, <1>2

-----------------------------------------------------------------------------
(* What the code of a page does. *)

\* The calls of the page: answered ones are gone or followed by another, and
\* new ones are sent with the stored key.
CallsStep ==
    /\ DOMAIN calls' = Slots
    /\ \A s \in Slots :
          \/ calls'[s] = calls[s]
          \/ /\ calls[s].op \notin LayoutCalls
             /\ calls'[s] = NoCall \/ Sent(calls'[s])

\* What the page lists was listed before or has been fetched by its calls.
Fetched(k) == \E s \in Slots : PageCall(calls[s]) /\ k = calls[s].key
ViewStep ==
    /\ IsPage(view')
    /\ \A k \in view'.by : k \in view.by \/ Fetched(k)

LEMMA Sending ==
    ASSUME CallsForm, NEW c, Sent(c), Send(c)
    PROVE  CallsStep
<1>1. PICK s \in Slots : Idle(s) /\ calls' = [calls EXCEPT ![s] = c]
  BY DEF Send
<1> QED
  BY <1>1 DEF CallsStep, CallsForm, Idle, LayoutCalls

LEMMA SendingBoth ==
    ASSUME CallsForm, NEW c, NEW d, Sent(c), Sent(d), SendBoth(c, d)
    PROVE  CallsStep
<1>1. PICK s \in Slots, t \in Slots :
         /\ s # t /\ Idle(s) /\ Idle(t)
         /\ calls' = [calls EXCEPT ![s] = c, ![t] = d]
  BY DEF SendBoth
<1>2. \A r \in Slots : \/ r # s /\ r # t /\ calls'[r] = calls[r]
                       \/ Idle(r) /\ calls'[r] \in {c, d}
  BY <1>1 DEF CallsForm
<1> QED
  BY <1>1, <1>2 DEF CallsStep, CallsForm, Idle, LayoutCalls

LEMMA Keeping ==
    ASSUME CallsForm, UNCHANGED calls
    PROVE  CallsStep
  BY DEF CallsStep, CallsForm

LEMMA Consuming ==
    ASSUME CallsForm, NEW s \in Slots, Live(s),
           calls[s].op \notin LayoutCalls, Consume(s)
    PROVE  CallsStep
<1> DEFINE next == FollowUp(s, stored)
<1>1. calls' = [calls EXCEPT ![s] = next]
  BY DEF Consume
<1>2. calls[s].live = TRUE /\ ~ Idle(s)
  BY NoCallForm DEF Live, CallsForm, CallForm, Idle
<1>3. next = NoCall \/ Sent(next)
  <2>1. \/ next = NoCall
        \/ /\ DOMAIN next = Fields /\ next.key = stored /\ next.op = "list"
           /\ next.live = TRUE
    BY <1>2, Following
  <2> HIDE DEF next
  <2> QED
    BY <2>1 DEF Sent, LayoutCalls
<1> HIDE DEF next
<1> QED
  BY <1>1, <1>3 DEF CallsStep, CallsForm

LEMMA Rendering ==
    ASSUME IsPage(view), NEW v, SameBy(view, v), Render(v)
    PROVE  ViewStep
<1>1. view' = [v EXCEPT !.role = IsAdmin(stored)]
  BY DEF Render
<1>2. DOMAIN view' = DOMAIN v /\ view'.by = v.by
  BY <1>1 DEF SameBy, IsPage
<1> QED
  BY <1>2 DEF SameBy, IsPage, ViewStep

LEMMA Standing ==
    ASSUME IsPage(view), UNCHANGED view
    PROVE  ViewStep
  BY DEF ViewStep, IsPage

\* The rows of an answered call are taken over.
LEMMA Showing ==
    ASSUME IsPage(view), NEW s \in Slots, PageCall(calls[s]), NEW v,
           IsPage(v), v.by = view.by \union {calls[s].key}, Render(v)
    PROVE  ViewStep
<1>1. view' = [v EXCEPT !.role = IsAdmin(stored)]
  BY DEF Render
<1>2. DOMAIN view' = DOMAIN v /\ view'.by = v.by
  BY <1>1 DEF IsPage
<1> QED
  BY <1>2 DEF IsPage, ViewStep, Fetched

LEMMA Awaiting ==
    ASSUME NEW v, IsPage(v), NEW c
    PROVE  SameBy(v, Awaited(v, c))
  BY DEF SameBy, Awaited, IsPage

LEMMA RowsBy ==
    ASSUME NEW v, IsPage(v), NEW c, NEW primary
    PROVE  /\ IsPage(Rows(v, c, primary))
           /\ Rows(v, c, primary).by = v.by \union {c.key}
  BY DEF Rows, IsPage

\* A handler that is called with an answer.
LEMMA Answering ==
    ASSUME CallsForm, NEW s \in Slots, NEW ops,
           ops \intersect LayoutCalls = {}, MutationAnswered(s, ops)
    PROVE  CallsStep /\ UNCHANGED <<stored, session>>
<1>1. Live(s) /\ calls[s].op \notin LayoutCalls /\ Consume(s)
  BY DEF MutationAnswered
<1> QED
  BY <1>1, Consuming DEF MutationAnswered, Quiet

LEMMA Changing ==
    ASSUME IsPage(view), NEW s \in Slots, NEW v, SameBy(view, v),
           Changed(s, v)
    PROVE  ViewStep
<1> DEFINE w == [v EXCEPT !.must = Larger(@, calls[s].at),
                          !.excused = @ \/ Listing(calls[s].then)]
<1>1. Render(w)
  BY DEF Changed
<1>2. SameBy(view, w)
  BY DEF SameBy, IsPage
<1> QED
  BY <1>1, <1>2, Rendering

LEMMA ListingRows ==
    ASSUME CallsForm, IsPage(view), NEW s \in Slots, NEW primary,
           ListAnswered(s, primary)
    PROVE  CallsStep /\ ViewStep /\ UNCHANGED <<stored, session>>
<1> DEFINE c == calls[s]
<1>1. c.op = "list" /\ Live(s) /\ Consume(s) /\ UNCHANGED <<stored, session>>
  BY DEF ListAnswered, Quiet
<1>2. CallsStep
  BY <1>1, Consuming DEF LayoutCalls
<1>3. PageCall(c)
  BY <1>1 DEF PageCall, Live, LayoutCalls
<1>4. ASSUME Render(Awaited(Rows(view, c, primary), c))
      PROVE  ViewStep
  <2>1. SameBy(Rows(view, c, primary), Awaited(Rows(view, c, primary), c))
    BY RowsBy, Awaiting
  <2>2. /\ IsPage(Awaited(Rows(view, c, primary), c))
        /\ Awaited(Rows(view, c, primary), c).by = view.by \union {c.key}
    BY <2>1, RowsBy DEF SameBy
  <2> QED
    BY <1>3, <1>4, <2>2, Showing
<1>5. ASSUME Render([Awaited(view, c) EXCEPT !.excused = TRUE])
      PROVE  ViewStep
  <2>1. SameBy(view, [Awaited(view, c) EXCEPT !.excused = TRUE])
    BY Awaiting DEF SameBy, IsPage
  <2> QED
    BY <1>5, <2>1, Rendering
<1>6. ViewStep
  BY <1>4, <1>5 DEF ListAnswered
<1> QED
  BY <1>1, <1>2, <1>6

-----------------------------------------------------------------------------
(* The pages: none of them touches the session. *)

PageStep == CallsStep /\ ViewStep /\ UNCHANGED <<stored, session>>

LEMMA Clicking ==
    ASSUME CallsForm, IsPage(view), NEW v, SameBy(view, v), Click(v)
    PROVE  PageStep
  BY Keeping, Rendering DEF Click, Quiet, PageStep

LEMMA Closing ==
    ASSUME CallsForm, IsPage(view), NEW v, SameBy(view, v), CloseForm(v)
    PROVE  PageStep
<1>1. Click([v EXCEPT !.modal = FALSE])
  BY DEF CloseForm
<1>2. SameBy(view, [v EXCEPT !.modal = FALSE])
  BY DEF SameBy, IsPage
<1> QED
  BY <1>1, <1>2, Clicking

LEMMA KeysPageSteps ==
    ASSUME CallsForm, IsPage(view), KeysPageNext
    PROVE  PageStep
<1>1. CASE LoadKeysPage
  <2>1. CallsStep
    BY <1>1, FetchSent, SendingBoth DEF LoadKeysPage
  <2>2. SameBy(view, [view EXCEPT !.phase = "loading", !.waiting = 2])
    BY DEF SameBy, IsPage
  <2> QED
    BY <1>1, <2>1, <2>2, Rendering DEF LoadKeysPage, Quiet, PageStep
<1>2. CASE OpenCreate
  <2>1. SameBy(view, [view EXCEPT !.generated = NoKey, !.modal = TRUE])
    BY DEF SameBy, IsPage
  <2> QED
    BY <1>2, <2>1, Clicking DEF OpenCreate
<1>3. CASE CloseCreate
  <2>1. SameBy(view, [view EXCEPT !.owed = @ \ {view.generated},
                        !.hurried = @ \/ Making({"createKey"})])
    BY DEF SameBy, IsPage
  <2> QED
    BY <1>3, <2>1, Closing DEF CloseCreate
<1>4. CASE DoneWithKey
  <2>1. SameBy(view, [view EXCEPT !.generated = NoKey, !.modal = FALSE,
                                  !.owed = @ \ {view.generated}])
    BY DEF SameBy, IsPage
  <2> QED
    BY <1>4, <2>1, Clicking DEF DoneWithKey
<1> DEFINE w == [view EXCEPT
                   !.hurried = @ \/ Making({"createKey", "rotateKey"})]
<1>5. SameBy(view, w) /\ SameBy(view, view)
  BY DEF SameBy, IsPage
<1>6. ASSUME NEW name, HandleCreateKey(name)
      PROVE  PageStep
  <2>1. CallsStep
    <3>1. "createKey" \notin LayoutCalls \union {"none"}
      BY DEF LayoutCalls
    <3> QED
      BY <1>6, <3>1, CallSent, Sending DEF HandleCreateKey
  <2> QED
    BY <1>5, <1>6, <2>1, Rendering DEF HandleCreateKey, Quiet, PageStep
<1>7. ASSUME NEW row, NEW op, RowAction(op, row),
             op \in {"deleteKey", "rotateKey", "revokeKey"},
             Render(view) \/ Render(w)
      PROVE  PageStep
  <2>1. CallsStep
    <3>1. op \notin LayoutCalls \union {"none"}
      BY <1>7 DEF LayoutCalls
    <3> QED
      BY <1>7, <3>1, CallSent, Sending DEF RowAction
  <2>2. ViewStep
    <3> HIDE DEF w
    <3> QED
      BY <1>5, <1>7, Rendering
  <2> QED
    BY <1>7, <2>1, <2>2 DEF RowAction, Quiet, PageStep
<1>8. ASSUME NEW s \in Slots, KeyOpAnswered(s)
      PROVE  PageStep
  <2>1. CallsStep /\ UNCHANGED <<stored, session>>
    <3>1. KeyOps \intersect LayoutCalls = {}
      BY DEF KeyOps, LayoutCalls
    <3> QED
      BY <1>8, <3>1, Answering DEF KeyOpAnswered
  <2>2. SameBy(view, WithKey(view, calls[s]))
    BY DEF SameBy, WithKey, IsPage
  <2>3. ViewStep
    BY <1>5, <1>8, <2>2, Changing, Standing DEF KeyOpAnswered, Caught
  <2> QED
    BY <2>1, <2>3 DEF PageStep
<1>9. ASSUME NEW s \in Slots, FetchAPIKeys(s)
      PROVE  PageStep
  BY <1>9, ListingRows DEF FetchAPIKeys, PageStep
<1> QED
  BY <1>1, <1>2, <1>3, <1>4, <1>6, <1>7, <1>8, <1>9
  DEF KeysPageNext, HandleDeleteKey, HandleRevoke, HandleRotate

LEMMA RulesPageSteps ==
    ASSUME CallsForm, IsPage(view), RulesPageNext
    PROVE  PageStep
<1> SameBy(view, view)
  BY DEF SameBy
<1>1. CASE LoadRulesPage
  <2>1. CallsStep
    BY <1>1, FetchSent, SendingBoth DEF LoadRulesPage
  <2>2. SameBy(view, [view EXCEPT !.phase = "loading", !.waiting = 2])
    BY DEF SameBy, IsPage
  <2> QED
    BY <1>1, <2>1, <2>2, Rendering DEF LoadRulesPage, Quiet, PageStep
<1>2. ASSUME NEW rows, Click([view EXCEPT !.editing = rows, !.modal = TRUE])
      PROVE  PageStep
  <2>1. SameBy(view, [view EXCEPT !.editing = rows, !.modal = TRUE])
    BY DEF SameBy, IsPage
  <2> QED
    BY <1>2, <2>1, Clicking
<1>3. CASE CloseRule
  BY <1>3, Closing DEF CloseRule
<1>4. ASSUME NEW name, NEW route, NEW form, NEW typed,
             HandleSaveRule(name, route, form, typed)
      PROVE  PageStep
  <2>1. "putRule" \notin LayoutCalls \union {"none"}
    BY DEF LayoutCalls
  <2>2. CallsStep
    BY <1>4, <2>1, CallSent, Sending DEF HandleSaveRule
  <2> QED
    BY <1>4, <2>2, Rendering DEF HandleSaveRule, Quiet, PageStep
<1>5. ASSUME NEW row, HandleDeleteRule(row)
      PROVE  PageStep
  <2>1. "deleteRule" \notin LayoutCalls \union {"none"}
    BY DEF LayoutCalls
  <2>2. CallsStep
    BY <1>5, <2>1, CallSent, Sending DEF HandleDeleteRule
  <2> QED
    BY <1>5, <2>2, Rendering DEF HandleDeleteRule, Quiet, PageStep
<1>6. ASSUME NEW s \in Slots, RuleOpAnswered(s)
      PROVE  PageStep
  <2>1. {"putRule", "deleteRule"} \intersect LayoutCalls = {}
    BY DEF LayoutCalls
  <2>2. CallsStep /\ UNCHANGED <<stored, session>>
    BY <1>6, <2>1, Answering DEF RuleOpAnswered
  <2>3. SameBy(view, [view EXCEPT !.modal = FALSE])
    BY DEF SameBy, IsPage
  <2>4. ViewStep
    BY <1>6, <2>3, Changing, Standing DEF RuleOpAnswered, Caught
  <2> QED
    BY <2>2, <2>4 DEF PageStep
<1>7. ASSUME NEW s \in Slots, FetchRateLimits(s)
      PROVE  PageStep
  BY <1>7, ListingRows DEF FetchRateLimits, PageStep
<1> QED
  BY <1>1, <1>2, <1>3, <1>4, <1>5, <1>6, <1>7
  DEF RulesPageNext, OpenAddRule, OpenEditRule

\* This page renders in a way of its own.
LEMMA RenderingClients ==
    ASSUME IsPage(view), NEW v, IsPage(v), RenderClients(v)
    PROVE  /\ SameBy(view, v) => ViewStep
           /\ \A s \in Slots :
                 /\ PageCall(calls[s])
                 /\ v.by = view.by \union {calls[s].key}
                 => ViewStep
<1>1. PICK phase : view' = [v EXCEPT !.role = IsAdmin(stored), !.phase = phase]
  <2> DEFINE phase == IF IsAdmin(stored) = v.role THEN v.phase ELSE "fresh"
  <2>1. view' = [v EXCEPT !.role = IsAdmin(stored), !.phase = phase]
    BY DEF RenderClients
  <2> HIDE DEF phase
  <2> QED
    BY <2>1
<1>2. DOMAIN view' = DOMAIN v /\ view'.by = v.by
  BY <1>1 DEF IsPage
<1> QED
  BY <1>2 DEF SameBy, IsPage, ViewStep, Fetched

LEMMA ClickingClients ==
    ASSUME CallsForm, IsPage(view), NEW v, SameBy(view, v), ClickClients(v)
    PROVE  PageStep
<1>1. IsPage(v)
  BY DEF SameBy
<1>2. ViewStep
  BY <1>1, RenderingClients DEF ClickClients
<1> QED
  BY <1>2, Keeping DEF ClickClients, Quiet, PageStep

LEMMA ClientsPageSteps ==
    ASSUME CallsForm, IsPage(view), ClientsPageNext
    PROVE  PageStep
<1> SameBy(view, view)
  BY DEF SameBy
<1>1. CASE LoadClientsPage
  <2>1. CallsStep
    BY <1>1, FetchSent, Sending, Keeping DEF LoadClientsPage
  <2>2. view'.by = view.by /\ IsPage(view')
    BY <1>1 DEF LoadClientsPage, IsPage
  <2>3. UNCHANGED <<stored, session>>
    BY <1>1 DEF LoadClientsPage, Quiet
  <2> QED
    BY <2>1, <2>2, <2>3 DEF PageStep, ViewStep
<1>2. ASSUME NEW rows,
             ClickClients([view EXCEPT !.editing = rows, !.modal = TRUE])
      PROVE  PageStep
  <2>1. SameBy(view, [view EXCEPT !.editing = rows, !.modal = TRUE])
    BY DEF SameBy, IsPage
  <2> QED
    BY <1>2, <2>1, ClickingClients
<1>3. CASE CloseClient
  <2>1. SameBy(view, [view EXCEPT !.modal = FALSE])
    BY DEF SameBy, IsPage
  <2> QED
    BY <1>3, <2>1, ClickingClients DEF CloseClient
<1>4. ASSUME NEW op, NEW arg, NEW parts, Send(Refreshing(op, arg, parts)),
             op \in {"deleteClient", "createClient", "updateClient"},
             RenderClients(view), Quiet
      PROVE  PageStep
  <2>1. op \notin LayoutCalls \union {"none"}
    BY <1>4 DEF LayoutCalls
  <2>2. CallsStep
    BY <1>4, <2>1, CallSent, Sending
  <2> QED
    BY <1>4, <2>2, RenderingClients DEF Quiet, PageStep
<1>5. ASSUME NEW s \in Slots, ClientOpAnswered(s)
      PROVE  PageStep
  <2>1. {"createClient", "updateClient", "deleteClient"}
           \intersect LayoutCalls = {}
    BY DEF LayoutCalls
  <2>2. CallsStep /\ UNCHANGED <<stored, session>>
    BY <1>5, <2>1, Answering DEF ClientOpAnswered
  <2>3. ASSUME NEW v, SameBy(view, v), ChangedClients(s, v)
        PROVE  ViewStep
    <3> DEFINE w == [v EXCEPT !.must = Larger(@, calls[s].at),
                              !.excused = @ \/ Listing(calls[s].then)]
    <3>1. RenderClients(w)
      BY <2>3 DEF ChangedClients
    <3>2. SameBy(view, w) /\ IsPage(w)
      BY <2>3 DEF SameBy, IsPage
    <3> HIDE DEF w
    <3> QED
      BY <3>1, <3>2, RenderingClients
  <2>4. SameBy(view, [view EXCEPT !.modal = FALSE])
    BY DEF SameBy, IsPage
  <2>5. ViewStep
    BY <1>5, <2>3, <2>4, Standing DEF ClientOpAnswered, Caught
  <2> QED
    BY <2>2, <2>5 DEF PageStep
<1>6. ASSUME NEW s \in Slots, FetchData(s)
      PROVE  PageStep
  <2> DEFINE c == calls[s]
  <2>1. /\ c.op = "list" /\ Live(s) /\ Consume(s)
        /\ UNCHANGED <<stored, session>>
    BY <1>6 DEF FetchData, Quiet
  <2>2. CallsStep
    BY <2>1, Consuming DEF LayoutCalls
  <2>3. PageCall(c)
    BY <2>1 DEF PageCall, Live, LayoutCalls
  <2>4. \A v : IsPage(v) => SameBy(v, Loaded(v, c))
    BY DEF SameBy, IsPage, Loaded
  <2>5. ASSUME RenderClients(Loaded(Rows(view, c, "clients"), c))
        PROVE  ViewStep
    <3>1. /\ IsPage(Loaded(Rows(view, c, "clients"), c))
          /\ Loaded(Rows(view, c, "clients"), c).by = view.by \union {c.key}
      BY <2>4, RowsBy DEF SameBy
    <3> QED
      BY <2>3, <2>5, <3>1, RenderingClients
  <2>6. ASSUME RenderClients([Loaded(view, c) EXCEPT !.excused = TRUE])
        PROVE  ViewStep
    <3>1. SameBy(view, [Loaded(view, c) EXCEPT !.excused = TRUE])
      BY <2>4 DEF SameBy, IsPage
    <3> QED
      BY <2>6, <3>1, RenderingClients DEF SameBy
  <2>7. ViewStep
    BY <1>6, <2>5, <2>6 DEF FetchData
  <2> QED
    BY <2>1, <2>2, <2>7 DEF PageStep
<1>7. ASSUME NEW name, HandleSaveClient(name)
      PROVE  PageStep
  <2> DEFINE op == IF view.editing = {} THEN "createClient"
                                        ELSE "updateClient"
  <2>1. /\ Send(Refreshing(op, [name |-> name], Parts))
        /\ RenderClients(view) /\ Quiet
    BY <1>7 DEF HandleSaveClient
  <2>2. op \in {"createClient", "updateClient"}
    OBVIOUS
  <2> HIDE DEF op
  <2> QED
    BY <1>4, <2>1, <2>2
<1>8. ASSUME NEW name, HandleDeleteClient(name)
      PROVE  PageStep
  BY <1>4, <1>8 DEF HandleDeleteClient
<1> QED
  BY <1>1, <1>2, <1>3, <1>5, <1>6, <1>7, <1>8
  DEF ClientsPageNext, OpenAddClient, OpenEditClient

LEMMA OverviewSteps ==
    ASSUME CallsForm, IsPage(view), OverviewNext
    PROVE  PageStep
<1>1. \A load : Sent(LoadStats(load))
  BY FetchSent DEF LoadStats
<1>2. CASE LoadOverview
  <2>1. SameBy(view, [view EXCEPT !.phase = "loading", !.waiting = 1])
    BY DEF SameBy, IsPage
  <2> QED
    BY <1>1, <1>2, <2>1, Sending, Rendering DEF LoadOverview, Quiet, PageStep
<1>3. CASE Refresh
  <2>1. SameBy(view, [view EXCEPT !.excused = @ \/ Listing(Parts)])
    BY DEF SameBy, IsPage
  <2> QED
    BY <1>1, <1>3, <2>1, Sending, Rendering DEF Refresh, Quiet, PageStep
<1>4. ASSUME NEW s \in Slots, FirstStage(s)
      PROVE  PageStep
  <2>1. /\ calls[s].op \notin LayoutCalls /\ Live(s) /\ Consume(s)
        /\ UNCHANGED view /\ UNCHANGED <<stored, session>>
    BY <1>4 DEF FirstStage, Quiet, LayoutCalls
  <2> QED
    BY <2>1, Consuming, Standing DEF PageStep
<1>5. ASSUME NEW s \in Slots, SecondStage(s)
      PROVE  PageStep
  <2> DEFINE c == calls[s]
             counted == [c EXCEPT !.arg.parts = Parts,
                           !.body = [p \in Parts |-> IF p \in DOMAIN c.body
                                                     THEN c.body[p] ELSE {}]]
  <2>1. /\ c.op = "list" /\ Live(s) /\ Consume(s)
        /\ UNCHANGED <<stored, session>>
    BY <1>5 DEF SecondStage, Quiet
  <2>2. CallsStep
    BY <2>1, Consuming DEF LayoutCalls
  <2>3. PageCall(c)
    BY <2>1 DEF PageCall, Live, LayoutCalls
  <2>4. counted.key = c.key
    BY <2>1, NoCallForm DEF CallsForm, CallForm, Fields, LayoutCalls
  <2>5. ASSUME Render(Awaited(Rows(view, counted, "keys"), c))
        PROVE  ViewStep
    <3> HIDE DEF counted
    <3>1. /\ IsPage(Awaited(Rows(view, counted, "keys"), c))
          /\ Awaited(Rows(view, counted, "keys"), c).by
               = view.by \union {c.key}
      BY <2>4, RowsBy, Awaiting DEF SameBy
    <3> QED
      BY <2>3, <2>5, <3>1, Showing
  <2>6. ASSUME Render(Awaited(view, c))
        PROVE  ViewStep
    BY <2>6, Awaiting, Rendering
  <2>7. ViewStep
    BY <1>5, <2>5, <2>6 DEF SecondStage
  <2> QED
    BY <2>1, <2>2, <2>7 DEF PageStep
<1> QED
  BY <1>2, <1>3, <1>4, <1>5 DEF OverviewNext

-----------------------------------------------------------------------------
(* Calls are answered by the server and forgotten by components. *)

LEMMA SameKept ==
    ASSUME NEW c, CallForm(c)
    PROVE  Kept(c, c)
  BY DEF Kept

\* An answer: fields other than these three change.
LEMMA AnswerKept ==
    ASSUME NEW c, CallForm(c), c.op # "none", NEW d, DOMAIN d = DOMAIN c,
           d.op = c.op, d.key = c.key, d.live = c.live, d.then = c.then,
           c.op = "register" => d.code # "unauthorized"
    PROVE  Kept(c, d)
  BY NoCallForm DEF Kept, CallForm, Waits, PageCall

LEMMA OneAnswer ==
    ASSUME CallsForm, NEW s \in Slots, ~ Idle(s), NEW d,
           calls' = [calls EXCEPT ![s] = d], Kept(calls[s], d)
    PROVE  CallsKept
  BY SameKept DEF CallsKept, CallsForm

LEMMA Replying ==
    ASSUME CallsForm, NEW s \in Slots, ~ Idle(s), NEW code, Reply(s, code),
           calls[s].op = "register" => code # "unauthorized"
    PROVE  CallsKept
<1> DEFINE d == [calls[s] EXCEPT !.code = code]
<1>1. calls' = [calls EXCEPT ![s] = d]
  BY DEF Reply
<1>2. calls[s] # NoCall /\ DOMAIN calls[s] = Fields
  BY NoCallForm DEF CallsForm, CallForm, Idle
<1>3. /\ DOMAIN d = DOMAIN calls[s] /\ d.op = calls[s].op
      /\ d.key = calls[s].key /\ d.live = calls[s].live
      /\ d.then = calls[s].then /\ d.code = code
  BY <1>2 DEF Fields
<1> HIDE DEF d
<1>4. Kept(calls[s], d)
  BY <1>3, AnswerKept DEF CallsForm, Idle
<1> QED
  BY <1>1, <1>4, OneAnswer

LEMMA Succeeding ==
    ASSUME CallsForm, NEW s \in Slots, ~ Idle(s),
           \/ Done(s)
           \/ \E k, owner, old : Insert(s, k, owner, old)
    PROVE  CallsKept
<1>1. PICK made, at : LET d == [calls[s] EXCEPT !.code = "ok", !.at = at,
                                                !.made = made]
                      IN  calls' = [calls EXCEPT ![s] = d]
  <2>1. calls[s] # NoCall /\ DOMAIN calls[s] = Fields
    BY NoCallForm DEF CallsForm, CallForm, Idle
  <2>2. CASE Done(s)
    <3> DEFINE d == [calls[s] EXCEPT !.code = "ok", !.at = changes + 1]
    <3>1. calls' = [calls EXCEPT ![s] = d]
      BY <2>2 DEF Done
    <3>2. d = [calls[s] EXCEPT !.code = "ok", !.at = changes + 1,
                               !.made = calls[s].made]
      BY <2>1 DEF Fields
    <3> QED
      BY <3>1, <3>2
  <2>3. ASSUME NEW k, NEW owner, NEW old, Insert(s, k, owner, old)
        PROVE  \E made, at :
                  LET d == [calls[s] EXCEPT !.code = "ok", !.at = at,
                                            !.made = made]
                  IN  calls' = [calls EXCEPT ![s] = d]
    <3> DEFINE d == [calls[s] EXCEPT !.code = "ok", !.made = k,
                                     !.at = changes + 1]
    <3>1. calls' = [calls EXCEPT ![s] = d]
      BY <2>3 DEF Insert
    <3>2. d = [calls[s] EXCEPT !.code = "ok", !.at = changes + 1, !.made = k]
      BY <2>1 DEF Fields
    <3> QED
      BY <3>1, <3>2
  <2> QED
    BY <2>2, <2>3
<1> DEFINE d == [calls[s] EXCEPT !.code = "ok", !.at = at, !.made = made]
<1>2. calls[s] # NoCall /\ DOMAIN calls[s] = Fields
  BY NoCallForm DEF CallsForm, CallForm, Idle
<1>3. /\ DOMAIN d = DOMAIN calls[s] /\ d.op = calls[s].op
      /\ d.key = calls[s].key /\ d.live = calls[s].live
      /\ d.then = calls[s].then /\ d.code = "ok"
  BY <1>2 DEF Fields
<1>4. calls' = [calls EXCEPT ![s] = d]
  BY <1>1
<1> HIDE DEF d
<1>5. Kept(calls[s], d)
  BY <1>3, AnswerKept DEF CallsForm, Idle
<1> QED
  BY <1>4, <1>5, OneAnswer

LEMMA ServerSteps ==
    ASSUME CallsForm, Server
    PROVE  CallsKept /\ UNCHANGED <<limits, stored>>
<1>1. ASSUME NEW s \in Slots, NEW part, ServeList(s, part)
      PROVE  CallsKept
  <2> DEFINE c == calls[s]
             read == DOMAIN c.body \union {part}
             body == [p \in read |-> IF p = part THEN Listed(p, c.key)
                                                 ELSE c.body[p]]
             at == IF c.arg.parts \intersect DOMAIN c.body = {}
                     THEN changes ELSE c.at
             code == IF c.arg.parts \subseteq read THEN "ok" ELSE "sent"
             d == [c EXCEPT !.body = body, !.at = at, !.code = code]
  <2>1. c.op = "list" /\ calls' = [calls EXCEPT ![s] = d]
    BY <1>1 DEF ServeList
  <2>2. ~ Idle(s) /\ c # NoCall /\ DOMAIN c = Fields
    BY <2>1, NoCallForm DEF CallsForm, CallForm, Idle
  <2> HIDE DEF body, at, code
  <2>3. /\ DOMAIN d = DOMAIN c /\ d.op = c.op /\ d.key = c.key
        /\ d.live = c.live /\ d.then = c.then
    BY <2>2 DEF Fields
  <2> HIDE DEF d
  <2>4. Kept(c, d)
    BY <2>1, <2>3, AnswerKept DEF CallsForm
  <2> QED
    BY <2>1, <2>2, <2>4, OneAnswer
<1>2. ASSUME NEW s \in Slots, Serve(s)
      PROVE  CallsKept
  <2>1. ~ Idle(s)
    BY <1>2 DEF Serve
  <2>2. \/ Done(s)
        \/ \E k, owner, old : Insert(s, k, owner, old)
    BY <1>2 DEF Serve, ServeKeys, ServeRules, ServeClients, ServeRegister
  <2> QED
    BY <2>1, <2>2, Succeeding
<1>3. ASSUME NEW s \in Slots,
             ServeLogin(s) \/ Reject(s) \/ Refuse(s) \/ Fail(s)
      PROVE  CallsKept
  <2>1. /\ ~ Idle(s)
        /\ \/ Reply(s, "ok") \/ Reply(s, "failed")
           \/ Reply(s, "unauthorized") /\ calls[s].op # "register"
    BY <1>3 DEF ServeLogin, Reject, Refuse, Fail, Idle, Authorized
  <2> QED
    BY <2>1, Replying
<1>4. CASE Others
  BY <1>4, SameKept DEF Others, CallsKept, CallsForm
<1>5. CallsKept
  BY <1>1, <1>2, <1>3, <1>4 DEF Server
<1>6. UNCHANGED <<limits, stored>>
  BY DEF Server, ServeList, Serve, ServeLogin, Reject, Refuse, Fail, Others
<1> QED
  BY <1>5, <1>6

LEMMA DeadSteps ==
    ASSUME CallsForm, NEW s \in Slots, DeadAnswer(s)
    PROVE  CallsKept /\ UNCHANGED <<limits, stored>>
<1> DEFINE next == FollowUp(s, stored)
<1>1. ~ Idle(s) /\ ~ Live(s) /\ calls' = [calls EXCEPT ![s] = next]
  BY DEF DeadAnswer, Answered, Consume
<1>2. calls[s].live = FALSE
  BY <1>1, NoCallForm DEF Live, Idle, CallsForm, CallForm
<1>3. CallForm(next) /\ (next = NoCall \/ next.live = FALSE)
  BY <1>1, <1>2, Following, NoCallForm
<1> HIDE DEF next
<1>4. Kept(calls[s], next)
  BY <1>2, <1>3, NoCallForm DEF Kept, Waits, PageCall, LayoutCalls
<1> QED
  BY <1>1, <1>4, OneAnswer DEF DeadAnswer

\* The calls, where one of a page may just have been followed by another.
Current(cs) ==
    /\ DOMAIN cs = Slots
    /\ \A s \in Slots :
          \/ cs[s] = calls[s]
          \/ /\ CallForm(cs[s])
             /\ cs[s].op \notin LayoutCalls /\ calls[s].op \notin LayoutCalls

\* The page is unmounted, and with it the layout if nothing is kept.
LEMMA Unmounting ==
    ASSUME CallsForm, NEW cs, Current(cs)
    PROVE  /\ DOMAIN Unmount(cs, LayoutCalls) = Slots
           /\ \A s \in Slots : /\ Kept(calls[s], Unmount(cs, LayoutCalls)[s])
                               /\ ~ PageCall(Unmount(cs, LayoutCalls)[s])
           /\ DOMAIN Unmount(cs, {}) = Slots
           /\ \A s \in Slots : /\ CallForm(Unmount(cs, {})[s])
                               /\ ~ PageCall(Unmount(cs, {})[s])
                               /\ ~ Waits(Unmount(cs, {})[s])
<1>1. ASSUME NEW s \in Slots
      PROVE  /\ CallForm(cs[s]) /\ CallForm(Forget(cs[s]))
             /\ ~ PageCall(Forget(cs[s])) /\ ~ Waits(Forget(cs[s]))
  <2>1. CallForm(cs[s])
    BY DEF CallsForm, Current
  <2> QED
    BY <2>1, Forgotten, NoCallForm DEF PageCall, Waits, LayoutCalls
<1>2. ASSUME NEW s \in Slots, cs[s].op \in LayoutCalls
      PROVE  Kept(calls[s], cs[s]) /\ ~ PageCall(cs[s])
  BY <1>1, <1>2, SameKept DEF PageCall, Current
<1>3. ASSUME NEW s \in Slots, cs[s].op \notin LayoutCalls
      PROVE  Kept(calls[s], Forget(cs[s]))
  BY <1>1, <1>3 DEF Kept, Waits, Current
<1> QED
  BY <1>1, <1>2, <1>3 DEF Unmount

COROLLARY UnmountingCalls ==
    ASSUME CallsForm
    PROVE  /\ calls' = Unmount(calls, LayoutCalls) =>
                 CallsKept /\ \A s \in Slots : ~ PageCall(calls'[s])
           /\ calls' = Unmount(calls, {}) =>
                 /\ DOMAIN calls' = Slots
                 /\ \A s \in Slots : /\ CallForm(calls'[s])
                                     /\ ~ PageCall(calls'[s])
                                     /\ ~ Waits(calls'[s])
<1>1. Current(calls)
  BY DEF CallsForm, Current
<1>2. /\ DOMAIN Unmount(calls, LayoutCalls) = Slots
      /\ \A s \in Slots : /\ Kept(calls[s], Unmount(calls, LayoutCalls)[s])
                          /\ ~ PageCall(Unmount(calls, LayoutCalls)[s])
  BY <1>1, Unmounting
<1>3. /\ DOMAIN Unmount(calls, {}) = Slots
      /\ \A s \in Slots : /\ CallForm(Unmount(calls, {})[s])
                          /\ ~ PageCall(Unmount(calls, {})[s])
                          /\ ~ Waits(Unmount(calls, {})[s])
  BY <1>1, Unmounting
<1> QED
  BY <1>2, <1>3 DEF CallsKept

-----------------------------------------------------------------------------
(* The invariant. *)

\* One call of the layout is awaited while it shows that it is busy.
Verified ==
    /\ isVerifying \in BOOLEAN
    /\ ~ isVerifying => \A s \in Slots : ~ Waits(calls[s])
    /\ isVerifying => \E s \in Slots :
          /\ Waits(calls[s])
          /\ \A t \in Slots : Waits(calls[t]) => t = s

\* A key that waits on its panel is the panel's, and while an answer of a form
\* is awaited there is none.
Claimed ==
    /\ unclaimed # {} =>
          Here /\ authMode = "registered" /\ unclaimed = {registeredKey}
    /\ isVerifying => Here /\ authMode # "registered"

\* A page is there exactly while the layout shows it, and both go by the
\* stored key unless that was changed behind their back.
Shows ==
    /\ limits \in Limits /\ auth \in BOOLEAN
    /\ auth => Here /\ IsPage(view)
    /\ ~ auth => view = Nothing /\ \A s \in Slots : ~ PageCall(calls[s])
    /\ Here /\ ~ switched => auth = (stored # NoKey)
    /\ auth /\ ~ switched /\ ~ overtaken =>
          /\ \A k \in view.by : k = stored
          /\ \A s \in Slots : PageCall(calls[s]) => calls[s].key = stored

Inv == CallsForm /\ Verified /\ Claimed /\ Shows

LEMMA InvInit == Init => Inv
<1> SUFFICES ASSUME Init
             PROVE  Inv
  OBVIOUS
<1>1. \A s \in Slots : calls[s] = NoCall
  BY DEF Init, ApiInit
<1>2. \A s \in Slots : ~ Waits(calls[s]) /\ ~ PageCall(calls[s])
  BY <1>1, NoCallForm DEF Waits, PageCall, LayoutCalls
<1>3. CallsForm
  BY <1>1, NoCallForm DEF Init, ApiInit, CallsForm
<1> QED
  BY <1>2, <1>3
  DEF Init, ApiInit, SessionInit, Inv, Verified, Claimed,
      Shows, Here

\* Calls that are kept, by a session that stays.
LEMMA KeptCalls ==
    ASSUME CallsKept
    PROVE  /\ CallsForm'
           /\ Verified /\ UNCHANGED isVerifying => Verified'
  BY DEF CallsKept, CallsForm, Kept, Verified

LEMMA CallsStay ==
    ASSUME CallsForm, UNCHANGED calls
    PROVE  CallsKept
  BY SameKept DEF CallsKept, CallsForm

LEMMA IdleSession ==
    ASSUME Inv, CallsKept, UNCHANGED <<limits, stored, session, view>>
    PROVE  Inv'
<1>1. CallsForm' /\ Verified' /\ Claimed'
  BY KeptCalls DEF Inv, Claimed, Here, session
<1>2. Shows'
  BY DEF Inv, Shows, Here, session, CallsKept, Kept
<1> QED
  BY <1>1, <1>2 DEF Inv

LEMMA PageSteps ==
    ASSUME Inv, auth, PageStep, UNCHANGED limits
    PROVE  Inv'
<1>1. ASSUME NEW s \in Slots
      PROVE  /\ CallForm(calls'[s])
             /\ Waits(calls'[s]) <=> Waits(calls[s])
             /\ PageCall(calls'[s]) => \/ calls'[s].key = stored
                                       \/ calls'[s] = calls[s]
  <2>1. CASE calls'[s] = calls[s]
    BY <2>1 DEF Inv, CallsForm
  <2>2. CASE /\ calls[s].op \notin LayoutCalls
             /\ calls'[s] = NoCall \/ Sent(calls'[s])
    BY <2>2, NoCallForm DEF Sent, CallForm, Waits, PageCall, LayoutCalls
  <2> QED
    BY <2>1, <2>2 DEF PageStep, CallsStep
<1>2. CallsForm'
  BY <1>1 DEF CallsForm, PageStep, CallsStep
<1>3. Verified'
  BY <1>1 DEF Inv, Verified, PageStep, session
<1>4. Claimed'
  BY DEF Inv, Claimed, Here, PageStep, session
<1>5. Shows'
  <2>1. /\ IsPage(view')
        /\ ~ switched /\ ~ overtaken =>
              \A k \in view'.by : k = stored
    BY DEF Inv, Shows, PageStep, ViewStep, Fetched
  <2> QED
    BY <1>1, <2>1 DEF Inv, Shows, Here, PageStep, session
<1> QED
  BY <1>2, <1>3, <1>4, <1>5 DEF Inv

-----------------------------------------------------------------------------
(* The steps of the session. *)

\* The event throttl_auth_change with a key, wherever the tab is.
LEMMA Dispatching ==
    ASSUME Inv, CallsKept, NEW key, stored' = key, Dispatch(key),
           UNCHANGED <<limits, path>>,
           key = NoKey => \A s \in Slots : ~ PageCall(calls'[s])
    PROVE  Shows'
<1>1. CASE ~ Here
  BY <1>1 DEF Inv, Shows, Here, Dispatch, CallsKept, Kept
<1>2. CASE Here /\ key = NoKey
  <2>1. auth' = FALSE /\ view' = Nothing
    BY <1>2 DEF Dispatch, CheckAuth
  <2> QED
    BY <1>2, <2>1 DEF Inv, Shows, Here
<1>3. CASE Here /\ key # NoKey /\ ~ auth
  <2>1. auth' = TRUE /\ view' = Mounted(key)
    BY <1>3 DEF Dispatch, CheckAuth
  <2> QED
    BY <1>3, <2>1, Pages DEF Inv, Shows, Here, CallsKept, Kept
<1>4. CASE Here /\ key # NoKey /\ auth
  <2>1. /\ auth' = TRUE /\ view' = view
        /\ ~ switched' /\ ~ overtaken' =>
              ~ switched /\ ~ overtaken /\ key = stored
        /\ ~ switched' => ~ switched
    BY <1>4 DEF Dispatch, CheckAuth
  <2>2. IsPage(view) /\ Here'
    BY <1>4 DEF Inv, Shows, Here
  <2>3. ASSUME ~ switched', ~ overtaken'
        PROVE  /\ \A k \in view.by : k = key
               /\ \A s \in Slots : PageCall(calls'[s]) => calls'[s].key = key
    BY <1>4, <2>1, <2>3 DEF Inv, Shows, CallsKept, Kept
  <2> QED
    BY <1>4, <2>1, <2>2, <2>3 DEF Inv, Shows
<1> QED
  BY <1>1, <1>2, <1>3, <1>4

LEMMA OpenStep ==
    ASSUME Inv, NEW p \in limits.pages, Open(p)
    PROVE  Inv'
<1>1. CallsKept /\ UNCHANGED <<limits, stored>>
  BY CallsStay DEF Inv, Open, apiVars
<1>2. CallsForm' /\ Verified' /\ Claimed'
  BY <1>1, KeptCalls DEF Inv, Claimed, Here, Open
<1>3. Here'
  BY LimitsAssumption DEF Inv, Shows, Open, Here
<1>4. Shows'
  BY <1>1, <1>3, Pages DEF Inv, Shows, Here, Open, CallsKept, Kept
<1> QED
  BY <1>2, <1>4 DEF Inv

LEMMA LeaveStep ==
    ASSUME Inv, Leave
    PROVE  Inv'
<1>1. /\ DOMAIN calls' = Slots
      /\ \A s \in Slots : /\ CallForm(calls'[s]) /\ ~ PageCall(calls'[s])
                          /\ ~ Waits(calls'[s])
  BY UnmountingCalls DEF Inv, Leave
<1>2. CallsForm' /\ Verified' /\ Claimed'
  BY <1>1 DEF CallsForm, Verified, Claimed, Here, Leave
<1>3. Shows'
  BY <1>1 DEF Inv, Shows, Here, Leave
<1> QED
  BY <1>2, <1>3 DEF Inv

LEMMA VisitStep ==
    ASSUME Inv, NEW p \in limits.pages, Visit(p)
    PROVE  Inv'
<1>1. CallsKept /\ \A s \in Slots : ~ PageCall(calls'[s])
  BY UnmountingCalls DEF Inv, Visit
<1>2. Here'
  BY LimitsAssumption DEF Inv, Shows, Visit, Here
<1>3. CallsForm' /\ Verified' /\ Claimed'
  BY <1>1, <1>2, KeptCalls DEF Inv, Claimed, Visit
<1>4. Shows'
  BY <1>1, <1>2, Pages DEF Inv, Shows, Here, Visit
<1> QED
  BY <1>3, <1>4 DEF Inv

LEMMA ShowFormStep ==
    ASSUME Inv, NEW mode, ShowForm(mode)
    PROVE  Inv'
<1>1. CallsKept /\ UNCHANGED <<limits, stored>>
  BY CallsStay DEF Inv, ShowForm, apiVars
<1>2. authMode # "registered" /\ authMode' # "registered"
  BY DEF ShowForm, LoginForm, RegisterForm
<1>3. CallsForm' /\ Verified' /\ Claimed'
  BY <1>1, <1>2, KeptCalls DEF Inv, Claimed, Here, ShowForm
<1>4. Shows'
  BY <1>1 DEF Inv, Shows, Here, ShowForm, CallsKept, Kept
<1> QED
  BY <1>3, <1>4 DEF Inv

\* The layout sends a call and is busy.
LEMMA VerifyingStep ==
    ASSUME Inv, NEW c, CallForm(c), Waits(c), Verifying(c),
           ~ isVerifying, Here, authMode # "registered"
    PROVE  Inv'
<1>1. PICK s \in Slots : Idle(s) /\ calls' = [calls EXCEPT ![s] = c]
  BY DEF Verifying, Send
<1>2. /\ DOMAIN calls' = Slots /\ calls'[s] = c
      /\ \A t \in Slots : t # s => calls'[t] = calls[t]
  BY <1>1 DEF Inv, CallsForm
<1>3. CallsForm'
  BY <1>2 DEF Inv, CallsForm
<1>4. Verified'
  BY <1>2 DEF Inv, Verified, Verifying
<1>5. Claimed'
  BY DEF Inv, Claimed, Here, Verifying
<1>6. Shows'
  <2>1. \A t \in Slots : PageCall(calls'[t]) =>
           PageCall(calls[t]) /\ calls'[t] = calls[t]
    BY <1>2 DEF Waits, PageCall
  <2> QED
    BY <2>1 DEF Inv, Shows, Here, Verifying
<1> QED
  BY <1>3, <1>4, <1>5, <1>6 DEF Inv

LEMMA HandleLoginStep ==
    ASSUME Inv, NEW k \in Keys, HandleLogin(k)
    PROVE  Inv'
<1> DEFINE c == [Call("login", <<>>) EXCEPT !.key = k]
<1>1. CallForm(c) /\ Waits(c)
  BY ApiAssumption DEF CallForm, Waits, Call, Fields, LayoutCalls
<1> QED
  BY <1>1, VerifyingStep DEF HandleLogin, LoginForm

LEMMA HandleRegisterStep ==
    ASSUME Inv, NEW name, HandleRegister(name)
    PROVE  Inv'
<1> DEFINE c == Call("register", [name |-> name])
<1>1. CallForm(c) /\ Waits(c)
  BY DEF CallForm, Waits, Call, Fields, LayoutCalls
<1> QED
  BY <1>1, VerifyingStep DEF HandleRegister, RegisterForm

\* A call of the layout is answered: it is gone, and nobody waits if the
\* layout is still there.
LEMMA LayoutAnswered ==
    ASSUME Inv, NEW s \in Slots, Answered(s), calls[s].op \in LayoutCalls,
           Consume(s)
    PROVE  /\ CallsForm'
           /\ \A t \in Slots :
                 /\ PageCall(calls'[t]) => /\ PageCall(calls[t])
                                           /\ calls'[t].key = calls[t].key
                 /\ Waits(calls'[t]) => Waits(calls[t]) /\ t # s
                 /\ t # s => calls'[t] = calls[t]
           /\ ~ Live(s) => CallsKept
           /\ Live(s) <=> Waits(calls[s])
<1>1. ~ Idle(s) /\ calls[s].then = {}
  BY NoCallForm DEF Answered, Inv, CallsForm, CallForm, LayoutCalls
<1>2. calls' = [calls EXCEPT ![s] = NoCall]
  BY <1>1 DEF Consume, FollowUp, GoesOn
<1>3. Live(s) <=> Waits(calls[s])
  BY <1>1 DEF Live, Waits
<1>4. DOMAIN calls' = Slots /\ \A t \in Slots : IF t = s THEN calls'[t] = NoCall
                                              ELSE calls'[t] = calls[t]
  BY <1>2 DEF Inv, CallsForm
<1>5. ~ PageCall(NoCall) /\ ~ Waits(NoCall)
  BY NoCallForm DEF PageCall, Waits, LayoutCalls
<1>6. CallsForm'
  BY <1>4, NoCallForm DEF Inv, CallsForm
<1>7. ~ Live(s) => CallsKept
  BY <1>3, <1>4, <1>5, NoCallForm, SameKept DEF CallsKept, Kept, Inv, CallsForm
<1> QED
  BY <1>3, <1>4, <1>5, <1>6, <1>7

LEMMA RegisterAnsweredStep ==
    ASSUME Inv, NEW s \in Slots, RegisterAnswered(s)
    PROVE  Inv'
<1>1. /\ Answered(s) /\ Live(s) /\ calls[s].op \in LayoutCalls /\ Consume(s)
      /\ isVerifying' = FALSE
  BY DEF RegisterAnswered, LayoutCalls
<1>2. Waits(calls[s]) /\ isVerifying
  BY <1>1, LayoutAnswered DEF Inv, Verified
<1>3. CallsForm'
  BY <1>1, LayoutAnswered
<1>4. Verified'
  <2>1. \A t \in Slots : Waits(calls'[t]) => FALSE
    BY <1>1, <1>2, LayoutAnswered DEF Inv, Verified
  <2> QED
    BY <1>1, <2>1 DEF Verified
<1>5. Claimed'
  <2>1. unclaimed = {} /\ Here
    BY <1>2 DEF Inv, Claimed
  <2> QED
    BY <1>1, <2>1 DEF Claimed, Here, RegisterAnswered
<1>6. Shows'
  <2>1. UNCHANGED <<limits, stored, path, auth, view, switched, overtaken>>
    BY DEF RegisterAnswered
  <2> QED
    BY <1>1, <2>1, LayoutAnswered DEF Inv, Shows, Here
<1> QED
  BY <1>3, <1>4, <1>5, <1>6 DEF Inv

LEMMA LoginAnsweredStep ==
    ASSUME Inv, NEW s \in Slots, LoginAnswered(s)
    PROVE  Inv'
<1>1. /\ Answered(s) /\ calls[s].op \in LayoutCalls /\ Consume(s)
      /\ isVerifying' = (isVerifying /\ ~ Live(s))
      /\ UNCHANGED <<limits, path, authMode, registeredKey, unclaimed>>
  BY DEF LoginAnswered, LayoutCalls
<1>2. /\ CallsForm'
      /\ \A t \in Slots : PageCall(calls'[t]) =>
            PageCall(calls[t]) /\ calls'[t].key = calls[t].key
  BY <1>1, LayoutAnswered
<1>3. Verified'
  <2>1. CASE Live(s)
    <3>1. isVerifying' = FALSE /\ Waits(calls[s])
      BY <1>1, <2>1, LayoutAnswered
    <3>2. \A t \in Slots : Waits(calls'[t]) => FALSE
      BY <1>1, <3>1, LayoutAnswered DEF Inv, Verified
    <3> QED
      BY <3>1, <3>2 DEF Verified
  <2>2. CASE ~ Live(s)
    <3>1. CallsKept /\ UNCHANGED isVerifying
      BY <1>1, <2>2, LayoutAnswered DEF Inv, Verified
    <3> QED
      BY <3>1, KeptCalls DEF Inv
  <2> QED
    BY <2>1, <2>2
<1>4. Claimed'
  <2>1. isVerifying' => isVerifying
    BY <1>1
  <2> QED
    BY <1>1, <2>1 DEF Inv, Claimed, Here
<1>5. Shows'
  <2>1. CASE calls[s].code = "ok"
    <3> DEFINE key == calls[s].key
    <3>1. stored' = key /\ Dispatch(key)
      BY <2>1 DEF LoginAnswered
    <3>2. key # NoKey
      BY NoCallForm
      DEF LoginAnswered, Inv, CallsForm, CallForm
    <3>3. CASE ~ Here
      BY <1>1, <1>2, <3>1, <3>3 DEF Inv, Shows, Here, Dispatch
    <3>4. CASE Here /\ ~ auth
      <4>1. auth' = TRUE /\ view' = Mounted(key)
        BY <3>1, <3>2, <3>4 DEF Dispatch, CheckAuth
      <4> QED
        BY <1>1, <1>2, <3>1, <3>2, <3>4, <4>1, Pages DEF Inv, Shows, Here
    <3>5. CASE Here /\ auth
      <4>1. /\ auth' = TRUE /\ view' = view
            /\ ~ switched' /\ ~ overtaken' =>
                  ~ switched /\ ~ overtaken /\ key = stored
        BY <3>1, <3>2, <3>5 DEF Dispatch, CheckAuth
      <4>2. IsPage(view) /\ Here' /\ limits' \in Limits
        BY <1>1, <3>5 DEF Inv, Shows, Here
      <4>3. ASSUME ~ switched', ~ overtaken'
            PROVE  /\ \A k \in view.by : k = key
                   /\ \A t \in Slots :
                         PageCall(calls'[t]) => calls'[t].key = key
        BY <1>2, <3>5, <4>1, <4>3 DEF Inv, Shows
      <4> QED
        BY <3>1, <3>2, <4>1, <4>2, <4>3 DEF Shows
    <3> QED
      BY <3>3, <3>4, <3>5
  <2>2. CASE calls[s].code # "ok"
    <3>1. UNCHANGED <<stored, auth, view, switched, overtaken>>
      BY <2>2 DEF LoginAnswered
    <3> QED
      BY <1>1, <1>2, <3>1 DEF Inv, Shows, Here
  <2> QED
    BY <2>1, <2>2
<1> QED
  BY <1>2, <1>3, <1>4, <1>5 DEF Inv

LEMMA EnterStep ==
    ASSUME Inv, Enter
    PROVE  Inv'
<1>1. /\ Here /\ ~ auth /\ stored' = registeredKey /\ unclaimed' = {}
      /\ CheckAuth(registeredKey)
      /\ UNCHANGED <<limits, calls, path, authMode, isVerifying>>
  BY DEF Enter, RegisteredPanel
<1>2. CallsKept
  BY <1>1, CallsStay DEF Inv
<1>3. CallsForm' /\ Verified' /\ Claimed'
  BY <1>1, <1>2, KeptCalls DEF Inv, Claimed, Here
<1>4. Dispatch(registeredKey) /\ \A s \in Slots : ~ PageCall(calls'[s])
  BY <1>1 DEF Dispatch, Inv, Shows
<1>5. Shows'
  BY <1>1, <1>2, <1>4, Dispatching
<1> QED
  BY <1>3, <1>5 DEF Inv

LEMMA LogoutStep ==
    ASSUME Inv, HandleLogout
    PROVE  Inv'
<1>1. CallsKept /\ \A s \in Slots : ~ PageCall(calls'[s])
  BY UnmountingCalls DEF Inv, HandleLogout
<1>2. CallsForm' /\ Verified' /\ Claimed'
  BY <1>1, KeptCalls DEF Inv, Claimed, Here, HandleLogout
<1>3. Dispatch(NoKey) /\ stored' = NoKey /\ UNCHANGED <<limits, path>>
  BY DEF HandleLogout, Dispatch
<1>4. Shows'
  BY <1>1, <1>3, Dispatching
<1> QED
  BY <1>2, <1>4 DEF Inv

\* Only a page's call can be refused like this: the login reads the answer
\* itself and the registration needs no key.
LEMMA UnauthorizedStep ==
    ASSUME Inv, NEW s \in Slots, Unauthorized(s)
    PROVE  Inv'
<1> DEFINE next == FollowUp(s, NoKey)
           cs == [calls EXCEPT ![s] = next]
<1>1. ~ Idle(s) /\ calls[s].op \notin LayoutCalls
  BY NoCallForm
  DEF Unauthorized, Answered, Idle, Inv, CallsForm, CallForm, LayoutCalls
<1>2. CallForm(next) /\ next.op \notin LayoutCalls
  BY <1>1, Following, NoCallForm DEF Inv, LayoutCalls
<1>3. calls' = Unmount(cs, LayoutCalls)
  BY DEF Unauthorized
<1> HIDE DEF next
<1>4. Current(cs)
  BY <1>1, <1>2 DEF Current, Inv, CallsForm
<1> HIDE DEF cs
<1>5. CallsKept /\ \A t \in Slots : ~ PageCall(calls'[t])
  <2>1. /\ DOMAIN Unmount(cs, LayoutCalls) = Slots
        /\ \A t \in Slots : /\ Kept(calls[t], Unmount(cs, LayoutCalls)[t])
                            /\ ~ PageCall(Unmount(cs, LayoutCalls)[t])
    BY <1>4, Unmounting DEF Inv
  <2> QED
    BY <1>3, <2>1 DEF CallsKept
<1>6. CallsForm' /\ Verified' /\ Claimed'
  BY <1>5, KeptCalls DEF Inv, Claimed, Here, Unauthorized
<1>7. Dispatch(NoKey) /\ stored' = NoKey /\ UNCHANGED <<limits, path>>
  BY DEF Unauthorized
<1>8. Shows'
  BY <1>5, <1>7, Dispatching
<1> QED
  BY <1>6, <1>8 DEF Inv

LEMMA ElsewhereStep ==
    ASSUME Inv, NEW k, Elsewhere(k)
    PROVE  Inv'
<1>1. CallsKept
  BY CallsStay DEF Inv, Elsewhere
<1>2. CallsForm' /\ Verified' /\ Claimed'
  BY <1>1, KeptCalls DEF Inv, Claimed, Here, Elsewhere
<1>3. Shows'
  BY <1>1 DEF Inv, Shows, Here, Elsewhere, CallsKept, Kept
<1> QED
  BY <1>2, <1>3 DEF Inv

LEMMA InvStep == Inv /\ [Next]_vars => Inv'
<1> SUFFICES ASSUME Inv, [Next]_vars
             PROVE  Inv'
  OBVIOUS
<1>1. CASE SessionNext
  BY <1>1, OpenStep, VisitStep, LeaveStep, EnterStep, LogoutStep,
     ShowFormStep, HandleLoginStep, HandleRegisterStep, LoginAnsweredStep,
     RegisterAnsweredStep, UnauthorizedStep, ElsewhereStep
  DEF SessionNext
<1>2. CASE KeysPageNext \/ RulesPageNext \/ ClientsPageNext \/ OverviewNext
  <2>1. auth /\ IsPage(view) /\ CallsForm
    BY <1>2
    DEF KeysPageNext, RulesPageNext, ClientsPageNext, OverviewNext, On, Inv,
        Shows
  <2>2. PageStep
    BY <1>2, <2>1, KeysPageSteps, RulesPageSteps, ClientsPageSteps,
       OverviewSteps
  <2>3. UNCHANGED limits
    <3>1. CASE KeysPageNext
      BY <3>1
      DEF KeysPageNext, LoadKeysPage, OpenCreate, CloseCreate, CloseForm,
          DoneWithKey, Click, HandleCreateKey, HandleDeleteKey, HandleRevoke,
          HandleRotate, RowAction, KeyOpAnswered, MutationAnswered,
          FetchAPIKeys, ListAnswered, Quiet
    <3>2. CASE RulesPageNext
      BY <3>2
      DEF RulesPageNext, LoadRulesPage, OpenAddRule, OpenEditRule, CloseRule,
          CloseForm, Click, HandleSaveRule, HandleDeleteRule, RuleOpAnswered,
          MutationAnswered, FetchRateLimits, ListAnswered, Quiet
    <3>3. CASE ClientsPageNext
      BY <3>3
      DEF ClientsPageNext, LoadClientsPage, OpenAddClient, OpenEditClient,
          CloseClient, ClickClients, HandleSaveClient, HandleDeleteClient,
          ClientOpAnswered, MutationAnswered, FetchData, Quiet
    <3>4. CASE OverviewNext
      BY <3>4
      DEF OverviewNext, LoadOverview, Refresh, FirstStage, SecondStage, Quiet
    <3> QED
      BY <1>2, <3>1, <3>2, <3>3, <3>4
  <2> QED
    BY <2>1, <2>2, <2>3, PageSteps
<1>3. CASE /\ Server \/ \E s \in Slots : DeadAnswer(s)
           /\ UNCHANGED <<session, view>>
  BY <1>3, ServerSteps, DeadSteps, IdleSession DEF Inv
<1>4. CASE UNCHANGED vars
  BY <1>4, CallsStay, IdleSession DEF vars, apiVars, Inv
<1> QED
  BY <1>1, <1>2, <1>3, <1>4 DEF Next

THEOREM Invariance == Spec => []Inv
  BY InvInit, InvStep, PTL DEF Spec

-----------------------------------------------------------------------------
(* What follows. *)

\* The console is shown exactly if there is a stored key, unless the key was
\* changed behind the layout's back, and a page exactly if it is shown
\* (checkAuth and the rendering of layout.tsx).
THEOREM ShownByKey == Spec => []AuthFollowsKey
<1>1. Inv => AuthFollowsKey
  BY Pages DEF Inv, Shows, AuthFollowsKey
<1> QED
  BY <1>1, Invariance, PTL

\* The forms are disabled exactly while one login or registration of the
\* mounted layout is awaited (isVerifying of layout.tsx).
THEOREM BusyWithOne == Spec => []OneVerification
<1> DEFINE awaited == {s \in Slots : Live(s) /\ calls[s].op \in LayoutCalls}
<1>1. ASSUME Inv
      PROVE  Cardinality(awaited) = IF isVerifying THEN 1 ELSE 0
  <2>1. awaited = {s \in Slots : Waits(calls[s])}
    BY DEF Live, Idle, Waits, LayoutCalls
  <2>2. CASE isVerifying
    <3>1. PICK s \in Slots : /\ Waits(calls[s])
                             /\ \A t \in Slots : Waits(calls[t]) => t = s
      BY <1>1, <2>2 DEF Inv, Verified
    <3>2. awaited = {s}
      BY <2>1, <3>1
    <3> QED
      BY <2>2, <3>2, FS_Singleton
  <2>3. CASE ~ isVerifying
    <3>1. awaited = {}
      BY <1>1, <2>1, <2>3 DEF Inv, Verified
    <3> QED
      BY <2>3, <3>1, FS_EmptySet
  <2> QED
    BY <2>2, <2>3
<1>2. Inv => OneVerification
  BY <1>1 DEF OneVerification
<1> QED
  BY <1>2, Invariance, PTL

\* The console comes up over a registration's panel only by a late login.
LEMMA OverThePanel ==
    ASSUME Inv, Inv', Next, ~ auth, auth', unclaimed' # {}
    PROVE  \E s \in Slots : ~ Live(s) /\ LoginAnswered(s)
<1>1. ~ KeysPageNext /\ ~ RulesPageNext /\ ~ ClientsPageNext /\ ~ OverviewNext
  BY DEF KeysPageNext, RulesPageNext, ClientsPageNext, OverviewNext, On
<1>2. SessionNext
  BY <1>1 DEF Next, session
<1>3. ASSUME NEW p \in limits.pages, Open(p)
      PROVE  FALSE
  BY <1>3 DEF Open, Inv, Claimed
<1>4. ASSUME NEW s \in Slots, LoginAnswered(s), Live(s)
      PROVE  FALSE
  <2>1. Waits(calls[s])
    BY <1>4, LayoutAnswered DEF LoginAnswered, LayoutCalls
  <2>2. isVerifying /\ authMode # "registered"
    BY <2>1 DEF Inv, Verified, Claimed
  <2> QED
    BY <1>4, <2>2 DEF LoginAnswered, Inv, Claimed
<1>5. ~ Enter /\ ~ Leave
  BY DEF Enter, Leave
<1>6. ~ HandleLogout /\ \A s \in Slots : ~ Unauthorized(s)
  BY DEF HandleLogout, Unauthorized, Dispatch, CheckAuth
<1>7. /\ \A p : ~ Visit(p)
      /\ \A mode : ~ ShowForm(mode)
      /\ \A k : ~ HandleLogin(k)
      /\ \A name : ~ HandleRegister(name)
      /\ \A s : ~ RegisterAnswered(s)
      /\ \A k : ~ Elsewhere(k)
  BY DEF Visit, ShowForm, HandleLogin, HandleRegister, Verifying,
         RegisterAnswered, Elsewhere
<1> QED
  BY <1>2, <1>3, <1>4, <1>5, <1>6, <1>7 DEF SessionNext

\* The key of a registration stays with its panel until the user enters the
\* console with it or leaves, and the panel on the screen, unless an answer to
\* a login of a layout that is gone brings up the console in its place
\* (handleRegister, handleLogin and the panel of layout.tsx).
THEOREM PanelKeepsKey == Spec => RegisteredKeyKept
<1> DEFINE Holds == /\ authMode' = "registered" /\ unclaimed' = {registeredKey'}
                    /\ \/ RegisteredPanel'
                       \/ auth
                       \/ \E s \in Slots : ~ Live(s) /\ LoginAnswered(s)
<1>1. ASSUME Inv, [Next]_vars, unclaimed' # {}
      PROVE  Holds
  <2>1. Inv'
    BY <1>1, InvStep
  <2>2. Here' /\ authMode' = "registered" /\ unclaimed' = {registeredKey'}
    BY <1>1, <2>1 DEF Inv, Claimed
  <2>3. CASE ~ auth'
    BY <2>2, <2>3 DEF RegisteredPanel
  <2>4. CASE auth' /\ ~ auth /\ Next
    BY <1>1, <2>1, <2>2, <2>4, OverThePanel
  <2>5. CASE UNCHANGED vars
    BY <2>2, <2>5 DEF RegisteredPanel, vars, session
  <2> QED
    BY <1>1, <2>2, <2>3, <2>4, <2>5
<1>2. Inv /\ [Next]_vars => [unclaimed' # {} => Holds]_vars
  BY <1>1
<1> QED
  BY <1>2, Invariance, PTL DEF Spec, RegisteredKeyKept

\* A page shows only rows that were fetched with the stored key, unless another
\* tab has changed it, or a login that was answered late under the page (the
\* fetches of the four pages, lib/api.ts and checkAuth of layout.tsx).
THEOREM NoOthersRows == Spec => []OwnDataOnly
<1>1. Inv => OwnDataOnly
  BY DEF Inv, Shows, OwnDataOnly
<1> QED
  BY <1>1, Invariance, PTL


-----------------------------------------------------------------------------
(* The form of a call in full. *)

Naming == {"rotateKey", "revokeKey", "deleteKey"}
MakingOps == {"createKey", "rotateKey"}
ClientOps == {"createClient", "updateClient", "deleteClient"}

\* What a call has listed so far, or a page shows.
BodyForm(b) ==
    /\ DOMAIN b \subseteq Parts
    /\ "keys" \in DOMAIN b => b["keys"] \subseteq ListedRow
    /\ "clients" \in DOMAIN b => b["clients"] \subseteq Names
    /\ "rules" \in DOMAIN b => b["rules"] \subseteq RuleRow

ArgForm(op, arg) ==
    /\ op = "list" => arg \in [parts : SUBSET Parts]
    /\ op = "createKey" => arg \in [client : Names \union {AdminName}]
    /\ op \in Naming => arg \in [row : ListedRow]
    /\ op = "putRule" =>
          arg \in [row : RuleRow, edited : SUBSET RuleRow,
                   untouched : BOOLEAN, behind : BOOLEAN]
    /\ op = "deleteRule" => arg \in [row : RuleRow]
    /\ op \in ClientOps \union {"register"} => arg \in [name : Names]

\* A call that was sent when there had been at most n changes.
CallTyped(c, n) ==
    /\ c.op \in Mutations \union {"list", "login"}
    /\ c.code \in {"sent", "ok", "failed", "unauthorized"}
    /\ c.key \in Keys \union {NoKey}
    /\ c.load \in BOOLEAN /\ c.at \in 0 .. n /\ c.then \subseteq Parts
    /\ c.made \in Keys \union {NoKey}
    /\ c.made # NoKey => c.op \in MakingOps \union {"register"}
    /\ ArgForm(c.op, c.arg) /\ BodyForm(c.body)
    /\ c.op = "list" /\ c.live /\ c.code = "ok" =>
          c.arg.parts \subseteq DOMAIN c.body
    /\ c.op # "list" => DOMAIN c.body = {} /\ c.load = FALSE

CallsTyped == \A s \in Slots : calls[s] # NoCall => CallTyped(calls[s], changes)

\* A change that is still to come.
Pends(c) == c.op \in Mutations /\ c.code = "sent"
Within == IsFiniteSet(Pending) /\ changes + Cardinality(Pending) <= limits.changes

LEMMA NoBody == DOMAIN <<>> = {} /\ BodyForm(<<>>)
  BY DEF BodyForm

\* A call as the dashboard sends it.
LEMMA CallFresh ==
    ASSUME stored \in Keys \union {NoKey}, changes \in Nat,
           NEW op \in Mutations \union {"list"}, NEW arg, ArgForm(op, arg)
    PROVE  /\ CallTyped(Call(op, arg), changes)
           /\ \A parts \in SUBSET Parts :
                 CallTyped(Refreshing(op, arg, parts), changes)
<1>1. 0 \in 0 .. changes
  OBVIOUS
<1> QED
  BY <1>1, NoBody DEF CallTyped, Call, Refreshing

LEMMA FetchFresh ==
    ASSUME stored \in Keys \union {NoKey}, changes \in Nat,
           NEW parts \in SUBSET Parts, NEW load \in BOOLEAN
    PROVE  /\ CallTyped(Fetch(parts, load), changes)
           /\ \A then \in SUBSET Parts :
                 CallTyped([Fetch(parts, load) EXCEPT !.then = then], changes)
<1>1. 0 \in 0 .. changes
  OBVIOUS
<1>2. ArgForm("list", [parts |-> parts])
  BY DEF ArgForm, Naming, ClientOps
<1> QED
  BY <1>1, <1>2, NoBody DEF CallTyped, Call, Fetch, Mutations

LEMMA ForgetTyped ==
    ASSUME NEW c, NEW n \in Nat, CallForm(c), c # NoCall => CallTyped(c, n)
    PROVE  /\ Forget(c) = NoCall \/ CallTyped(Forget(c), n)
           /\ Pends(Forget(c)) => Pends(c)
<1>1. CASE Forget(c) = NoCall
  BY <1>1, NoCallForm DEF Pends, Mutations
<1>2. CASE Forget(c) # NoCall
  <2>1. DOMAIN c = Fields /\ CallTyped(c, n) /\ c.op # "none"
    BY <1>2 DEF CallForm, Forget, NoCall
  <2> DEFINE d == [c EXCEPT !.live = FALSE, !.load = FALSE, !.body = <<>>, !.at = 0,
                   !.made = NoKey, !.then = IF @ = {} THEN {} ELSE {"keys"},
                   !.arg = IF c.op = "list" THEN [parts |-> {"keys"}] ELSE @]
  <2>2. Forget(c) = d
    BY <1>2 DEF Forget
  <2>3. /\ d.op = c.op /\ d.code = c.code /\ d.key = c.key /\ d.live = FALSE
        /\ d.load = FALSE /\ d.body = <<>> /\ d.at = 0 /\ d.made = NoKey
        /\ d.then \in {{}, {"keys"}}
        /\ d.arg = IF c.op = "list" THEN [parts |-> {"keys"}] ELSE c.arg
    BY <2>1 DEF Fields
  <2> HIDE DEF d
  <2>4. ArgForm(d.op, d.arg)
    BY <2>1, <2>3 DEF CallTyped, ArgForm, Naming, ClientOps, Parts
  <2>5. 0 \in 0 .. n
    OBVIOUS
  <2> QED
    BY <2>1, <2>2, <2>3, <2>4, <2>5, NoBody DEF CallTyped, Parts, Pends
<1> QED
  BY <1>1, <1>2

LEMMA FollowTyped ==
    ASSUME CallsForm, CallsTyped, changes \in Nat, NEW s \in Slots, ~ Idle(s),
           NEW key \in Keys \union {NoKey}
    PROVE  /\ FollowUp(s, key) = NoCall \/ CallTyped(FollowUp(s, key), changes)
           /\ ~ Pends(FollowUp(s, key))
<1> DEFINE c == calls[s]
           body == IF c.code = "ok" THEN c.body ELSE <<>>
           next == [Fetch(c.then, c.load) EXCEPT !.key = key, !.body = body]
<1>1. CASE ~ GoesOn(c)
  BY <1>1, NoCallForm DEF FollowUp, Pends, Mutations
<1>2. CASE GoesOn(c)
  <2>1. DOMAIN c = Fields /\ CallTyped(c, changes)
    BY NoCallForm DEF CallsForm, CallForm, CallsTyped, Idle
  <2>2. BodyForm(body)
    BY <2>1, NoBody DEF CallTyped
  <2>3. c.then \subseteq Parts /\ c.load \in BOOLEAN
    BY <2>1 DEF CallTyped
  <2> HIDE DEF body
  <2>4. /\ DOMAIN next = Fields /\ next.key = key /\ next.op = "list"
        /\ next.live = TRUE /\ next.arg = [parts |-> c.then]
        /\ next.code = "sent" /\ next.body = body /\ next.made = NoKey
        /\ next.at = 0 /\ next.load = c.load /\ next.then = {}
    BY DEF Fetch, Call, Fields
  <2>5. FollowUp(s, key) = IF c.live THEN next ELSE Forget(next)
    BY <1>2 DEF FollowUp, body
  <2> HIDE DEF next
  <2>6. ArgForm(next.op, next.arg)
    BY <2>3, <2>4 DEF ArgForm, Naming, ClientOps
  <2>7. 0 \in 0 .. changes
    OBVIOUS
  <2>8. CallTyped(next, changes) /\ CallForm(next)
    BY <2>2, <2>3, <2>4, <2>6, <2>7 DEF CallTyped, CallForm, LayoutCalls
  <2>9. ~ Pends(next)
    BY <2>4 DEF Pends, Mutations
  <2> QED
    BY <2>5, <2>8, <2>9, ForgetTyped
<1> QED
  BY <1>1, <1>2

-----------------------------------------------------------------------------
(* The tables and the counters. *)

TablesTyped ==
    /\ apiKeys \subseteq KeyRow /\ clients \subseteq Names /\ rules \subseteq RuleRow
    /\ \A r1, r2 \in apiKeys : r1.key = r2.key => r1 = r2
    /\ \A r1, r2 \in rules : r1 \in Same(r2) => r1 = r2
    /\ \A row \in apiKeys : row.key \in issued /\ row.owner \in clients
    /\ \A row \in rules : row.client \in clients
    /\ issued \subseteq Keys

CountsTyped ==
    /\ limits.changes \in Nat /\ limits.failures \in Nat /\ limits.switches \in Nat
    /\ changes \in Nat /\ failures \in 0 .. limits.failures /\ Within

LEMMA CallGrows ==
    ASSUME NEW c, NEW n \in Nat, NEW m \in Nat, n <= m, CallTyped(c, n)
    PROVE  CallTyped(c, m)
<1>1. \A k \in 0 .. n : k \in 0 .. m
  OBVIOUS
<1> QED
  BY <1>1 DEF CallTyped

\* Calls that are changed one by one.
LEMMA OneSlot ==
    ASSUME CallsForm, NEW s \in Slots, NEW c, calls' = [calls EXCEPT ![s] = c]
    PROVE  /\ DOMAIN calls' = Slots /\ calls'[s] = c
           /\ \A t \in Slots : t # s => calls'[t] = calls[t]
  BY DEF CallsForm

\* No change more is asked for.
LEMMA NoneAsked ==
    ASSUME CountsTyped, UNCHANGED <<limits, changes>>,
           \A s \in Slots : Pends(calls'[s]) => Pends(calls[s])
    PROVE  Within'
<1>1. Pending' \subseteq Pending
  BY DEF Pending, Pends
<1>2. IsFiniteSet(Pending') /\ Cardinality(Pending') <= Cardinality(Pending)
  BY <1>1, FS_Subset DEF CountsTyped, Within
<1>3. Cardinality(Pending) \in Nat /\ Cardinality(Pending') \in Nat
  BY <1>2, FS_CardinalityType DEF CountsTyped, Within
<1> QED
  BY <1>2, <1>3 DEF CountsTyped, Within

\* One change is asked for, within the budget.
LEMMA OneAsked ==
    ASSUME CountsTyped, UNCHANGED <<limits, changes>>, Budget, NEW s \in Slots,
           \A t \in Slots : t # s /\ Pends(calls'[t]) => Pends(calls[t])
    PROVE  Within'
<1>1. Pending' \subseteq Pending \union {s}
  BY DEF Pending, Pends
<1>2. IsFiniteSet(Pending) /\ Cardinality(Pending) \in Nat
  BY FS_CardinalityType DEF CountsTyped, Within
<1>3. /\ IsFiniteSet(Pending \union {s})
      /\ Cardinality(Pending \union {s}) <= Cardinality(Pending) + 1
  <2>1. /\ IsFiniteSet(Pending \union {s})
        /\ Cardinality(Pending \union {s}) = IF s \in Pending
                                               THEN Cardinality(Pending)
                                               ELSE Cardinality(Pending) + 1
    BY <1>2, FS_AddElement
  <2> QED
    BY <1>2, <2>1
<1>4. /\ IsFiniteSet(Pending')
      /\ Cardinality(Pending') <= Cardinality(Pending \union {s})
  BY <1>1, <1>3, FS_Subset
<1>5. Cardinality(Pending') \in Nat /\ Cardinality(Pending \union {s}) \in Nat
  BY <1>3, <1>4, FS_CardinalityType
<1>6. changes + Cardinality(Pending) + 1 <= limits.changes
  BY <1>2 DEF CountsTyped, Budget
<1>7. Cardinality(Pending') <= Cardinality(Pending) + 1
  BY <1>2, <1>3, <1>4, <1>5
<1> QED
  BY <1>2, <1>4, <1>5, <1>6, <1>7 DEF CountsTyped, Within

\* One change is made.
LEMMA OneMade ==
    ASSUME CountsTyped, UNCHANGED limits, changes' = changes + 1,
           NEW s \in Slots, Pends(calls[s]), ~ Pends(calls'[s]),
           \A t \in Slots : Pends(calls'[t]) => Pends(calls[t])
    PROVE  Within'
<1>1. Pending' \subseteq Pending \ {s} /\ s \in Pending
  BY DEF Pending, Pends
<1>2. IsFiniteSet(Pending) /\ Cardinality(Pending) \in Nat
  BY FS_CardinalityType DEF CountsTyped, Within
<1>3. /\ IsFiniteSet(Pending \ {s})
      /\ Cardinality(Pending \ {s}) = Cardinality(Pending) - 1
  BY <1>1, <1>2, FS_RemoveElement
<1>4. /\ IsFiniteSet(Pending')
      /\ Cardinality(Pending') <= Cardinality(Pending \ {s})
  BY <1>1, <1>3, FS_Subset
<1>5. Cardinality(Pending') \in Nat
  BY <1>4, FS_CardinalityType
<1>6. Cardinality(Pending') <= Cardinality(Pending) - 1
  BY <1>2, <1>3, <1>4, <1>5
<1> QED
  BY <1>2, <1>4, <1>5, <1>6 DEF CountsTyped, Within

-----------------------------------------------------------------------------
(* What the server makes of the calls. *)

\* The call as it was sent.
Served(c, d) ==
    /\ DOMAIN d = DOMAIN c
    /\ d.op = c.op /\ d.arg = c.arg /\ d.key = c.key /\ d.live = c.live
    /\ d.load = c.load /\ d.then = c.then

\* An answer to a call that is typed.
LEMMA AnswerTyped ==
    ASSUME NEW c, NEW d, NEW n \in Nat, CallTyped(c, n), Served(c, d),
           d.code \in {"sent", "ok", "failed", "unauthorized"},
           d.at \in 0 .. n, BodyForm(d.body),
           d.made \in Keys \union {NoKey},
           d.made # NoKey => d.op \in MakingOps \union {"register"},
           d.op = "list" /\ d.code = "ok" => \/ d.arg.parts \subseteq DOMAIN d.body
                                             \/ ~ d.live,
           d.op # "list" => DOMAIN d.body = {}
    PROVE  CallTyped(d, n)
  BY DEF CallTyped, Served

ServedAt(s) ==
    /\ ~ Idle(s) /\ Served(calls[s], calls'[s])
    /\ calls[s].op = "list" =>
          \/ /\ calls'[s].body = calls[s].body /\ calls'[s].at = calls[s].at
          \/ \E part \in Parts : ServeList(s, part)
AllServed == \A s \in Slots : calls'[s] = calls[s] \/ ServedAt(s)

CallsGood == CallsTyped' /\ Within' /\ AllServed

LEMMA Busy ==
    ASSUME CallsForm, CallsTyped, NEW s \in Slots, ~ Idle(s)
    PROVE  /\ calls[s] # NoCall /\ DOMAIN calls[s] = Fields
           /\ CallTyped(calls[s], changes) /\ calls[s].op # "none"
  BY NoCallForm DEF CallsForm, CallForm, CallsTyped, Idle

LEMMA ServeListTypes ==
    ASSUME CallsForm, CallsTyped, TablesTyped, CountsTyped, NEW s \in Slots,
           NEW part \in Parts, ServeList(s, part)
    PROVE  CallsGood
<1> DEFINE c == calls[s]
           read == DOMAIN c.body \union {part}
           body == [p \in read |-> IF p = part THEN Listed(p, c.key)
                                               ELSE c.body[p]]
           at == IF c.arg.parts \intersect DOMAIN c.body = {}
                   THEN changes ELSE c.at
           code == IF c.arg.parts \subseteq read THEN "ok" ELSE "sent"
           d == [c EXCEPT !.body = body, !.at = at, !.code = code]
<1>1. /\ c.op = "list" /\ calls' = [calls EXCEPT ![s] = d]
      /\ UNCHANGED <<limits, changes>>
  BY DEF ServeList, tables
<1>2. /\ ~ Idle(s) /\ c # NoCall /\ DOMAIN c = Fields
      /\ CallTyped(c, changes) /\ CallForm(c)
  <2>1. ~ Idle(s)
    BY <1>1 DEF Idle
  <2> QED
    BY <2>1, Busy DEF CallsForm
<1>3. BodyForm(body) /\ DOMAIN body = read
  <2>1. /\ Listed("keys", c.key) \subseteq ListedRow
        /\ Listed("clients", c.key) \subseteq Names
        /\ Listed("rules", c.key) \subseteq RuleRow
    <3>1. Listed("keys", c.key) \subseteq ListedRow
      <4>1. \A row \in apiKeys :
               [key |-> row.key, owner |-> row.owner, active |-> row.active,
                masked |-> ~ IsAdmin(c.key)] \in ListedRow
        BY DEF IsAdmin, ListedRow, TablesTyped, KeyRow
      <4>2. Listed("keys", c.key) =
               {[key |-> row.key, owner |-> row.owner, active |-> row.active,
                 masked |-> ~ IsAdmin(c.key)] :
                    row \in {r \in apiKeys : Own(c.key, r.owner)}}
        BY DEF Listed
      <4> QED
        BY <4>1, <4>2
    <3> QED
      BY <3>1 DEF Listed, TablesTyped
  <2>2. BodyForm(c.body)
    BY <1>2 DEF CallTyped
  <2> QED
    BY <2>1, <2>2 DEF BodyForm
<1>4. at \in 0 .. changes
  <2>1. changes \in 0 .. changes
    BY DEF CountsTyped
  <2> QED
    BY <1>2, <2>1 DEF CallTyped
<1>5. code \in {"sent", "ok"} /\ (code = "ok" => c.arg.parts \subseteq read)
  OBVIOUS
<1> HIDE DEF body, at, code
<1>6. /\ Served(c, d) /\ d.body = body /\ d.at = at /\ d.code = code
      /\ d.made = c.made
  BY <1>2 DEF Fields, Served
<1> HIDE DEF d
<1>7. CallTyped(d, changes)
  <2>1. /\ d.made \in Keys \union {NoKey}
        /\ d.made # NoKey => d.op \in MakingOps \union {"register"}
    BY <1>2, <1>6 DEF CallTyped, Served
  <2>2. /\ d.op = "list" /\ d.code = "ok" => d.arg.parts \subseteq DOMAIN d.body
        /\ d.op = "list"
    BY <1>1, <1>3, <1>5, <1>6 DEF Served
  <2>3. d.code \in {"sent", "ok", "failed", "unauthorized"} /\ changes \in Nat
    BY <1>5, <1>6 DEF CountsTyped
  <2> QED
    BY <1>2, <1>3, <1>4, <1>6, <2>1, <2>2, <2>3, AnswerTyped
<1>8. /\ DOMAIN calls' = Slots /\ calls'[s] = d
      /\ \A t \in Slots : t # s => calls'[t] = calls[t]
  BY <1>1, OneSlot
<1>9. CallsTyped'
  BY <1>1, <1>7, <1>8 DEF CallsTyped
<1>10. \A t \in Slots : Pends(calls'[t]) => Pends(calls[t])
  BY <1>1, <1>6, <1>8 DEF Pends, Served, Mutations
<1>11. Within'
  BY <1>1, <1>10, NoneAsked
<1>12. AllServed
  BY <1>1, <1>2, <1>6, <1>8 DEF AllServed, ServedAt
<1> QED
  BY <1>9, <1>11, <1>12 DEF CallsGood

\* A change is made and its answer is on its way.
LEMMA ChangeTypes ==
    ASSUME CallsForm, CallsTyped, CountsTyped, NEW s \in Slots,
           calls[s].code = "sent", calls[s].op \in Mutations,
           UNCHANGED limits, changes' = changes + 1,
           \/ Done(s)
           \/ \E k \in Keys : \E owner, old :
                 /\ calls[s].op \in MakingOps \union {"register"}
                 /\ Insert(s, k, owner, old)
    PROVE  CallsGood
<1> DEFINE c == calls[s]
<1>1. /\ ~ Idle(s) /\ c # NoCall /\ DOMAIN c = Fields
      /\ CallTyped(c, changes) /\ CallForm(c)
  <2>1. ~ Idle(s)
    BY DEF Idle, Mutations
  <2> QED
    BY <2>1, Busy DEF CallsForm
<1>2. PICK made \in Keys \union {NoKey} :
         /\ made = c.made \/ c.op \in MakingOps \union {"register"}
         /\ calls' = [calls EXCEPT ![s] = [c EXCEPT !.code = "ok",
                                      !.at = changes + 1, !.made = made]]
  <2>1. CASE Done(s)
    <3>1. calls' = [calls EXCEPT ![s] = [c EXCEPT !.code = "ok",
                                                  !.at = changes + 1]]
      BY <2>1 DEF Done
    <3>2. [c EXCEPT !.code = "ok", !.at = changes + 1] =
             [c EXCEPT !.code = "ok", !.at = changes + 1, !.made = c.made]
      BY <1>1 DEF Fields
    <3>3. c.made \in Keys \union {NoKey}
      BY <1>1 DEF CallTyped
    <3> QED
      BY <3>1, <3>2, <3>3
  <2>2. ASSUME NEW k \in Keys, NEW owner, NEW old, Insert(s, k, owner, old)
        PROVE  calls' = [calls EXCEPT ![s] = [c EXCEPT !.code = "ok",
                                        !.at = changes + 1, !.made = k]]
    <3>1. calls' = [calls EXCEPT ![s] = [c EXCEPT !.code = "ok", !.made = k,
                                                  !.at = changes + 1]]
      BY <2>2 DEF Insert
    <3>2. [c EXCEPT !.code = "ok", !.made = k, !.at = changes + 1] =
             [c EXCEPT !.code = "ok", !.at = changes + 1, !.made = k]
      BY <1>1 DEF Fields
    <3> QED
      BY <3>1, <3>2
  <2> QED
    BY <2>1, <2>2
<1> DEFINE d == [c EXCEPT !.code = "ok", !.at = changes + 1, !.made = made]
<1>3. calls' = [calls EXCEPT ![s] = d]
  BY <1>2
<1>4. /\ Served(c, d) /\ d.body = c.body /\ d.at = changes + 1
      /\ d.code = "ok" /\ d.made = made
  BY <1>1 DEF Fields, Served
<1> HIDE DEF d
<1>5. changes \in Nat /\ changes + 1 \in Nat /\ changes <= changes + 1
  BY DEF CountsTyped
<1>6. CallTyped(d, changes + 1)
  <2>1. CallTyped(c, changes + 1)
    BY <1>1, <1>5, CallGrows
  <2>2. /\ d.made # NoKey => d.op \in MakingOps \union {"register"}
        /\ BodyForm(d.body) /\ DOMAIN d.body = {} /\ d.op # "list"
    BY <1>1, <1>2, <1>4 DEF CallTyped, Served, Mutations
  <2>3. d.at \in 0 .. (changes + 1)
    BY <1>4, <1>5
  <2> QED
    BY <1>2, <1>4, <1>5, <2>1, <2>2, <2>3, AnswerTyped
<1>7. /\ DOMAIN calls' = Slots /\ calls'[s] = d
      /\ \A t \in Slots : t # s => calls'[t] = calls[t]
  BY <1>3, OneSlot
<1>8. CallsTyped'
  <2>1. ASSUME NEW t \in Slots, t # s, calls[t] # NoCall
        PROVE  CallTyped(calls[t], changes + 1)
    BY <1>5, <2>1, CallGrows DEF CallsTyped
  <2> QED
    BY <1>6, <1>7, <2>1 DEF CallsTyped
<1>9. Within'
  <2>1. /\ Pends(calls[s]) /\ ~ Pends(calls'[s])
        /\ \A t \in Slots : Pends(calls'[t]) => Pends(calls[t])
    BY <1>4, <1>7 DEF Pends
  <2> QED
    BY <2>1, OneMade
<1>10. AllServed
  BY <1>1, <1>4, <1>7 DEF AllServed, ServedAt, Mutations
<1> QED
  BY <1>8, <1>9, <1>10 DEF CallsGood

\* An answer that changes nothing.
LEMMA ReplyTypes ==
    ASSUME CallsForm, CallsTyped, CountsTyped, NEW s \in Slots, ~ Idle(s),
           UNCHANGED <<limits, changes>>,
           \/ Reply(s, "failed") \/ Reply(s, "unauthorized")
           \/ Reply(s, "ok") /\ calls[s].op = "login"
    PROVE  CallsGood
<1>0. PICK code \in {"ok", "failed", "unauthorized"} :
         Reply(s, code) /\ (code = "ok" => calls[s].op = "login")
  OBVIOUS
<1> DEFINE c == calls[s]
           d == [c EXCEPT !.code = code]
<1>1. /\ c # NoCall /\ DOMAIN c = Fields
      /\ CallTyped(c, changes) /\ CallForm(c)
  BY Busy DEF CallsForm
<1>2. calls' = [calls EXCEPT ![s] = d]
  BY <1>0 DEF Reply
<1>3. /\ Served(c, d) /\ d.body = c.body /\ d.at = c.at
      /\ d.code = code /\ d.made = c.made
  BY <1>1 DEF Fields, Served
<1> HIDE DEF d
<1>4. CallTyped(d, changes)
  BY <1>0, <1>1, <1>3 DEF CallTyped, Served
<1>5. /\ DOMAIN calls' = Slots /\ calls'[s] = d
      /\ \A t \in Slots : t # s => calls'[t] = calls[t]
  BY <1>2, OneSlot
<1>6. CallsTyped'
  BY <1>4, <1>5 DEF CallsTyped
<1>7. Within'
  <2>1. \A t \in Slots : Pends(calls'[t]) => Pends(calls[t])
    BY <1>3, <1>5 DEF Pends, Served, Mutations
  <2> QED
    BY <2>1, NoneAsked
<1>8. AllServed
  BY <1>3, <1>5 DEF AllServed, ServedAt
<1> QED
  BY <1>6, <1>7, <1>8 DEF CallsGood

LEMMA FirstContent ==
    /\ Bucket(100, 1, 10, 60) \in Content
    /\ Window(100, 5) \in Content
<1>1. Bucket(100, 1, 10, 60) \in Content
  BY DEF Bucket, Content, Algorithms
<1>2. Window(100, 5) \in Content
  BY DEF Window, Bucket, Content, Algorithms
<1> QED
  BY <1>1, <1>2

\* A row that is switched off.
LEMMA SwitchedOff ==
    ASSUME NEW row \in KeyRow
    PROVE  LET off == [row EXCEPT !.active = FALSE]
           IN  off \in KeyRow /\ off.key = row.key /\ off.owner = row.owner
  BY DEF KeyRow

RulesTyped ==
    /\ rules \subseteq RuleRow /\ \A row \in rules : row.client \in clients
    /\ \A r1, r2 \in rules : r1 \in Same(r2) => r1 = r2

\* A new key, for the rows of which old ones stay behind inactive.
LEMMA InsertTables ==
    ASSUME TablesTyped, NEW s, NEW k \in Keys \ issued, NEW owner \in Names,
           NEW old \in SUBSET apiKeys, Insert(s, k, owner, old),
           owner \in clients', clients \subseteq clients', clients' \subseteq Names,
           RulesTyped'
    PROVE  TablesTyped'
<1> DEFINE off == {[row EXCEPT !.active = FALSE] : row \in old}
           new == [key |-> k, owner |-> owner, active |-> TRUE]
<1>1. apiKeys' = (apiKeys \ old) \union off \union {new} /\ issued' = issued \union {k}
  BY DEF Insert
<1>2. new \in KeyRow /\ new.key = k /\ new.owner = owner
  BY DEF KeyRow
<1>3. \A r \in off : \E row \in old : /\ r \in KeyRow /\ r.key = row.key
                                      /\ r.owner = row.owner
                                      /\ r = [row EXCEPT !.active = FALSE]
  BY SwitchedOff DEF TablesTyped
<1> HIDE DEF off, new
<1>4. apiKeys' \subseteq KeyRow
  BY <1>1, <1>2, <1>3 DEF TablesTyped
<1>5. ASSUME NEW r1 \in apiKeys', NEW r2 \in apiKeys', r1.key = r2.key
      PROVE  r1 = r2
  <2>1. \A r \in apiKeys : r.key # k
    BY DEF TablesTyped
  <2>2. \A r \in off : r.key # k
    BY <1>3, <2>1
  <2>3. \A r \in off, q \in apiKeys \ old : r.key # q.key
    BY <1>3 DEF TablesTyped
  <2>4. ASSUME NEW r \in off, NEW q \in off, r.key = q.key
        PROVE  r = q
    <3>1. PICK row \in old : r.key = row.key /\ r = [row EXCEPT !.active = FALSE]
      BY <1>3
    <3>2. PICK other \in old :
             q.key = other.key /\ q = [other EXCEPT !.active = FALSE]
      BY <1>3
    <3>3. row = other
      BY <2>4, <3>1, <3>2 DEF TablesTyped
    <3> QED
      BY <3>1, <3>2, <3>3
  <2> QED
    BY <1>1, <1>2, <1>5, <2>1, <2>2, <2>3, <2>4 DEF TablesTyped
<1>6. \A row \in apiKeys' : row.key \in issued' /\ row.owner \in clients'
  BY <1>1, <1>2, <1>3 DEF TablesTyped
<1>7. issued' \subseteq Keys
  BY <1>1 DEF TablesTyped
<1> QED
  BY <1>4, <1>5, <1>6, <1>7 DEF TablesTyped, RulesTyped

LEMMA ServeTables ==
    ASSUME CallsForm, CallsTyped, TablesTyped, CountsTyped, NEW s \in Slots,
           Serve(s)
    PROVE  TablesTyped' /\ CallsGood
<1> DEFINE c == calls[s]
<1>1. /\ ~ Idle(s) /\ CallTyped(c, changes) /\ c.code = "sent" /\ Accepts(c)
      /\ UNCHANGED limits /\ changes' = changes + 1
  BY Busy DEF Serve
<1>0. ASSUME UNCHANGED <<clients, rules>>
      PROVE  RulesTyped'
  BY <1>0 DEF TablesTyped, RulesTyped, Same
<1>2. ASSUME c.op \in Mutations, Done(s)
      PROVE  CallsGood
  BY <1>1, <1>2, ChangeTypes
<1>3. ASSUME c.op \in MakingOps \union {"register"}, NEW k \in Keys, NEW owner,
             NEW old, Insert(s, k, owner, old)
      PROVE  CallsGood
  BY <1>1, <1>3, ChangeTypes DEF MakingOps, Mutations
<1>4. CASE ServeKeys(s) /\ UNCHANGED <<clients, rules>>
  <2>1. ASSUME c.op = "createKey",
               NEW k \in Fresh(FALSE), Insert(s, k, c.arg.client, {})
        PROVE  TablesTyped' /\ CallsGood
    <3>1. k \in Keys \ issued /\ c.op \in MakingOps \union {"register"}
      BY <2>1 DEF Fresh, MakingOps
    <3>2. c.arg.client \in clients /\ c.arg.client \in Names
      BY <1>1, <2>1 DEF Accepts, TablesTyped
    <3>3. CallsGood
      BY <1>3, <2>1, <3>1
    <3>4. TablesTyped'
      <4>1. /\ c.arg.client \in clients' /\ clients \subseteq clients'
            /\ clients' \subseteq Names /\ {} \in SUBSET apiKeys
        BY <1>4, <3>2 DEF TablesTyped
      <4> QED
        BY <1>0, <1>4, <2>1, <3>1, <3>2, <4>1, InsertTables
    <3> QED
      BY <3>3, <3>4
  <2>2. ASSUME c.op = "rotateKey", NEW row \in Named(c),
               NEW k \in Fresh(IsAdmin(c.arg.row.key)),
               Insert(s, k, row.owner, {row})
        PROVE  TablesTyped' /\ CallsGood
    <3>1. k \in Keys \ issued /\ c.op \in MakingOps \union {"register"}
      BY <2>2 DEF Fresh, MakingOps
    <3>2. row \in apiKeys /\ row.owner \in clients /\ row.owner \in Names
      BY <2>2 DEF Named, TablesTyped
    <3>3. CallsGood
      BY <1>3, <2>2, <3>1
    <3>4. TablesTyped'
      <4>1. {row} \in SUBSET apiKeys
        BY <3>2
      <4>2. /\ row.owner \in clients' /\ clients \subseteq clients'
            /\ clients' \subseteq Names
        BY <1>4, <3>2 DEF TablesTyped
      <4> QED
        BY <1>0, <1>4, <2>2, <3>1, <3>2, <4>1, <4>2, InsertTables
    <3> QED
      BY <3>3, <3>4
  <2>3. CASE /\ c.op = "revokeKey"
             /\ apiKeys' = (apiKeys \ Named(c)) \union
                           {[row EXCEPT !.active = FALSE] : row \in Named(c)}
             /\ Done(s) /\ UNCHANGED issued
    <3> DEFINE off == {[row EXCEPT !.active = FALSE] : row \in Named(c)}
    <3>1. Named(c) \subseteq apiKeys
      BY DEF Named
    <3>2. \A r \in off : \E row \in Named(c) :
             /\ r \in KeyRow /\ r.key = row.key /\ r.owner = row.owner
             /\ r = [row EXCEPT !.active = FALSE]
      BY <3>1, SwitchedOff DEF TablesTyped
    <3>3. apiKeys' = (apiKeys \ Named(c)) \union off
      BY <2>3
    <3> HIDE DEF off
    <3>4. apiKeys' \subseteq KeyRow
      BY <3>2, <3>3 DEF TablesTyped
    <3>5. \A r1, r2 \in apiKeys' : r1.key = r2.key => r1 = r2
      <4>1. \A r \in off, q \in apiKeys \ Named(c) : r.key # q.key
        BY <3>1, <3>2 DEF TablesTyped
      <4>2. ASSUME NEW r \in off, NEW q \in off, r.key = q.key
            PROVE  r = q
        <5>1. PICK row \in Named(c) :
                 r.key = row.key /\ r = [row EXCEPT !.active = FALSE]
          BY <3>2
        <5>2. PICK other \in Named(c) :
                 q.key = other.key /\ q = [other EXCEPT !.active = FALSE]
          BY <3>2
        <5>3. row = other
          BY <3>1, <4>2, <5>1, <5>2 DEF TablesTyped
        <5> QED
          BY <5>1, <5>2, <5>3
      <4> QED
        BY <3>3, <4>1, <4>2 DEF TablesTyped
    <3>6. \A row \in apiKeys' : row.key \in issued' /\ row.owner \in clients'
      BY <1>4, <2>3, <3>1, <3>2, <3>3 DEF TablesTyped
    <3>7. TablesTyped'
      BY <1>4, <2>3, <3>4, <3>5, <3>6 DEF TablesTyped, Same
    <3> QED
      BY <1>2, <2>3, <3>7 DEF Mutations
  <2>4. CASE /\ c.op = "deleteKey" /\ apiKeys' = apiKeys \ Named(c)
             /\ Done(s) /\ UNCHANGED issued
    <3>1. TablesTyped'
      BY <1>4, <2>4 DEF TablesTyped, Same
    <3> QED
      BY <1>2, <2>4, <3>1 DEF Mutations
  <2> QED
    BY <1>4, <2>1, <2>2, <2>3, <2>4 DEF ServeKeys
<1>5. CASE ServeRules(s) /\ UNCHANGED <<apiKeys, clients, issued>>
  <2>1. CASE /\ c.op = "putRule" /\ Done(s)
             /\ rules' = (rules \ Same(c.arg.row)) \union {c.arg.row}
    <3>1. c.arg.row \in RuleRow /\ c.arg.row.client \in clients
      BY <1>1, <2>1 DEF CallTyped, ArgForm, Accepts
    <3>2. \A r1, r2 \in rules' : r1 \in Same(r2)' => r1 = r2
      BY <2>1 DEF TablesTyped, Same
    <3>3. TablesTyped'
      BY <1>5, <2>1, <3>1, <3>2 DEF TablesTyped
    <3> QED
      BY <1>2, <2>1, <3>3 DEF Mutations
  <2>2. CASE /\ c.op = "deleteRule" /\ Done(s)
             /\ rules' = rules \ Same(c.arg.row)
    <3>1. TablesTyped'
      BY <1>5, <2>2 DEF TablesTyped, Same
    <3> QED
      BY <1>2, <2>2, <3>1 DEF Mutations
  <2> QED
    BY <1>5, <2>1, <2>2 DEF ServeRules
<1>6. CASE ServeClients(s) /\ UNCHANGED issued
  <2>1. CASE /\ c.op = "createClient" /\ clients' = clients \union {c.arg.name}
             /\ Done(s) /\ UNCHANGED <<apiKeys, rules>>
    <3>1. c.arg.name \in Names
      BY <1>1, <2>1 DEF CallTyped, ArgForm, ClientOps
    <3>2. TablesTyped'
      BY <1>6, <2>1, <3>1 DEF TablesTyped, Same
    <3> QED
      BY <1>2, <2>1, <3>2 DEF Mutations
  <2>2. CASE /\ c.op = "updateClient"
             /\ Done(s) /\ UNCHANGED <<clients, apiKeys, rules>>
    <3>1. TablesTyped'
      BY <1>6, <2>2 DEF TablesTyped, Same
    <3> QED
      BY <1>2, <2>2, <3>1 DEF Mutations
  <2>3. CASE /\ c.op = "deleteClient" /\ clients' = clients \ {c.arg.name}
             /\ apiKeys' = {row \in apiKeys : row.owner # c.arg.name}
             /\ rules' = {row \in rules : row.client # c.arg.name}
             /\ Done(s)
    <3>1. TablesTyped'
      BY <1>6, <2>3 DEF TablesTyped, Same
    <3> QED
      BY <1>2, <2>3, <3>1 DEF Mutations
  <2> QED
    BY <1>6, <2>1, <2>2, <2>3 DEF ServeClients
<1>7. CASE ServeRegister(s)
  <2> DEFINE name == c.arg.name
             rule == [client |-> name, route |-> Star,
                      content |-> Bucket(100, 1, 10, 60)]
  <2>1. /\ c.op = "register" /\ clients' = clients \union {name}
        /\ rules' = rules \union {rule}
    BY <1>7 DEF ServeRegister
  <2>2. PICK k \in Fresh(FALSE) : Insert(s, k, name, {})
    BY <1>7 DEF ServeRegister
  <2>3. k \in Keys \ issued /\ c.op \in MakingOps \union {"register"}
    BY <2>1 DEF Fresh
  <2>4. name \in Names /\ name \notin clients
    BY <1>1, <2>1 DEF CallTyped, ArgForm, ClientOps, Accepts
  <2>5. rule \in RuleRow /\ rule.client = name
    BY <2>4, ApiAssumption, FirstContent DEF RuleRow
  <2> HIDE DEF rule
  <2>6. RulesTyped'
    BY <2>1, <2>4, <2>5 DEF TablesTyped, RulesTyped, Same
  <2>7. TablesTyped'
    <3>1. /\ name \in clients' /\ clients \subseteq clients'
          /\ clients' \subseteq Names
      BY <2>1, <2>4 DEF TablesTyped
    <3> QED
      BY <2>2, <2>3, <2>4, <2>6, <3>1, InsertTables
  <2> QED
    BY <1>3, <2>2, <2>3, <2>7
<1> QED
  BY <1>4, <1>5, <1>6, <1>7 DEF Serve

LEMMA ServerTypes ==
    ASSUME limits \in Limits, CallsForm, CallsTyped, TablesTyped, CountsTyped,
           Server
    PROVE  CallsGood /\ TablesTyped' /\ CountsTyped'
<1>1. ASSUME NEW s \in Slots, NEW part \in Parts, ServeList(s, part)
      PROVE  CallsGood /\ TablesTyped' /\ CountsTyped'
  BY <1>1, ServeListTypes
  DEF ServeList, tables, TablesTyped, CountsTyped, CallsGood, Same
<1>2. ASSUME NEW s \in Slots, Serve(s)
      PROVE  CallsGood /\ TablesTyped' /\ CountsTyped'
  BY <1>2, ServeTables DEF Serve, CountsTyped, CallsGood
<1>3. ASSUME NEW s \in Slots, ServeLogin(s) \/ Reject(s) \/ Refuse(s)
      PROVE  CallsGood /\ TablesTyped' /\ CountsTyped'
  <2>1. /\ ~ Idle(s) /\ UNCHANGED <<limits, tables, failures>>
        /\ \/ Reply(s, "ok") /\ calls[s].op = "login"
           \/ Reply(s, "failed") \/ Reply(s, "unauthorized")
    BY <1>3 DEF ServeLogin, Reject, Refuse, Idle
  <2>2. CallsGood
    BY <2>1, ReplyTypes DEF tables
  <2> QED
    BY <2>1, <2>2 DEF tables, TablesTyped, CountsTyped, CallsGood, Same
<1>4. ASSUME NEW s \in Slots, Fail(s)
      PROVE  CallsGood /\ TablesTyped' /\ CountsTyped'
  <2>1. /\ ~ Idle(s) /\ UNCHANGED <<limits, tables>>
        /\ failures < limits.failures /\ failures' = failures + 1
        /\ Reply(s, "failed") \/ Reply(s, "unauthorized")
    BY <1>4 DEF Fail
  <2>2. CallsGood
    BY <2>1, ReplyTypes DEF tables
  <2> QED
    BY <2>1, <2>2 DEF tables, TablesTyped, CountsTyped, CallsGood, Same
<1>5. CASE Others
  <2>1. /\ Budget /\ UNCHANGED <<limits, calls, issued, failures>>
        /\ changes' = changes + 1
    BY <1>5 DEF Others
  <2>2. /\ apiKeys' \subseteq apiKeys /\ clients \subseteq clients'
        /\ rules' \subseteq rules /\ clients' \subseteq clients \union limits.names
    BY <1>5 DEF Others
  <2>3. TablesTyped'
    <3>1. clients' \subseteq Names
      BY <2>2, LimitsAssumption DEF TablesTyped
    <3> QED
      BY <2>1, <2>2, <3>1 DEF TablesTyped, Same
  <2>4. CallsTyped'
    <3>1. changes \in Nat /\ changes + 1 \in Nat /\ changes <= changes + 1
      BY DEF CountsTyped
    <3> QED
      BY <2>1, <3>1, CallGrows DEF CallsTyped
  <2>5. Pending' = Pending
    BY <2>1 DEF Pending
  <2>6. Within' /\ changes' \in Nat
    <3>1. Cardinality(Pending) \in Nat
      BY FS_CardinalityType DEF CountsTyped, Within
    <3> QED
      BY <2>1, <2>5, <3>1 DEF CountsTyped, Within, Budget
  <2>7. AllServed
    BY <2>1 DEF AllServed
  <2> QED
    BY <2>1, <2>3, <2>4, <2>6, <2>7 DEF CountsTyped, CallsGood
<1> QED
  BY <1>1, <1>2, <1>3, <1>4, <1>5 DEF Server

-----------------------------------------------------------------------------
(* The session and the page. *)

SessionTyped ==
    /\ stored \in Keys \union {NoKey} /\ path \in limits.pages \union {"landing"}
    /\ authMode \in {"login", "register", "registered"}
    /\ registeredKey \in Keys \union {NoKey}
    /\ switches \in 0 .. limits.switches
    /\ switched \in BOOLEAN /\ overtaken \in BOOLEAN

\* The stored key is the one the page was mounted with.
Undisturbed == ~ switched /\ ~ overtaken

ViewFields == {"phase", "waiting", "body", "at", "modal", "editing", "generated",
               "role", "by", "must", "owed", "excused", "hurried"}

\* A page at p when there have been at most n changes.
ViewForm(v, p, n) ==
    /\ DOMAIN v = ViewFields
    /\ v.phase \in {"fresh", "loading", "ready"} /\ v.waiting \in Int
    /\ v.at \in 0 .. n /\ v.must \in 0 .. n
    /\ v.modal \in BOOLEAN /\ v.role \in BOOLEAN
    /\ v.excused \in BOOLEAN /\ v.hurried \in BOOLEAN
    /\ v.generated \in Keys \union {NoKey} /\ v.owed \subseteq Keys
    /\ DOMAIN v.body = Parts /\ BodyForm(v.body)
    /\ p = "rules" => /\ v.editing \subseteq RuleRow
                      /\ \A e, f \in v.editing : e = f

ViewTyped == auth => ViewForm(view, path, changes)

Types == CallsTyped /\ TablesTyped /\ CountsTyped /\ SessionTyped /\ ViewTyped

\* What a step that is none of the page is to the page: it is gone, or mounted
\* anew, or its calls are answered.
Serving ==
    /\ auth /\ auth' /\ UNCHANGED <<path, view>> /\ changes <= changes'
    /\ Undisturbed' => Undisturbed /\ stored' = stored
    /\ \A s \in Slots :
          /\ PageCall(calls'[s]) <=> PageCall(calls[s])
          /\ PageCall(calls[s]) => calls'[s] = calls[s] \/ ServedAt(s)
Anew ==
    /\ view' = Mounted(stored') /\ \A s \in Slots : ~ PageCall(calls'[s])
    /\ Here' /\ changes' = changes /\ (auth => path' # path)
Frame == auth' = FALSE \/ Anew \/ Serving

LEMMA MountedForm ==
    ASSUME NEW key, NEW p, NEW n \in Nat
    PROVE  ViewForm(Mounted(key), p, n)
<1> DEFINE v == Mounted(key)
<1>1. /\ v.phase = "fresh" /\ v.waiting = 0 /\ v.body = NoRows /\ v.at = 0
      /\ v.modal = FALSE /\ v.editing = {} /\ v.generated = NoKey
      /\ v.role = IsAdmin(key) /\ v.must = 0 /\ v.owed = {}
      /\ v.excused = FALSE /\ v.hurried = FALSE /\ DOMAIN v = ViewFields
  BY DEF Mounted, ViewFields
<1>2. DOMAIN NoRows = Parts /\ BodyForm(NoRows)
  BY DEF NoRows, Parts, BodyForm
<1>3. 0 \in 0 .. n /\ IsAdmin(key) \in BOOLEAN
  BY DEF IsAdmin
<1> HIDE DEF v
<1>4. /\ v.phase \in {"fresh", "loading", "ready"} /\ v.waiting \in Int
      /\ v.modal \in BOOLEAN /\ v.role \in BOOLEAN
      /\ v.excused \in BOOLEAN /\ v.hurried \in BOOLEAN
  <2>1. v.phase \in {"fresh", "loading", "ready"} /\ v.waiting \in Int
    BY <1>1
  <2>2. v.modal \in BOOLEAN /\ v.excused \in BOOLEAN /\ v.hurried \in BOOLEAN
    BY <1>1
  <2>3. v.role \in BOOLEAN
    BY <1>1, <1>3
  <2> QED
    BY <2>1, <2>2, <2>3
<1>5. /\ v.at \in 0 .. n /\ v.must \in 0 .. n
      /\ v.generated \in Keys \union {NoKey} /\ v.owed \subseteq Keys
      /\ v.editing \subseteq RuleRow /\ \A e, f \in v.editing : e = f
  BY <1>1, <1>3
<1>6. DOMAIN v = ViewFields /\ DOMAIN v.body = Parts /\ BodyForm(v.body)
  BY <1>1, <1>2
<1> QED
  BY <1>4, <1>5, <1>6 DEF ViewForm, v

LEMMA ViewGrows ==
    ASSUME NEW v, NEW p, NEW n \in Nat, NEW m \in Nat, n <= m, ViewForm(v, p, n)
    PROVE  ViewForm(v, p, m)
<1>1. \A k \in 0 .. n : k \in 0 .. m
  OBVIOUS
<1> QED
  BY <1>1 DEF ViewForm

\* Components are gone.
LEMMA UnmountTypes ==
    ASSUME CountsTyped, NEW cs, NEW kept, UNCHANGED <<limits, changes>>,
           \A s \in Slots : /\ CallForm(cs[s])
                            /\ cs[s] # NoCall => CallTyped(cs[s], changes)
                            /\ Pends(cs[s]) => Pends(calls[s]),
           calls' = Unmount(cs, kept)
    PROVE  CallsTyped' /\ Within'
<1>1. ASSUME NEW s \in Slots
      PROVE  /\ calls'[s] # NoCall => CallTyped(calls'[s], changes)
             /\ Pends(calls'[s]) => Pends(calls[s])
  <2>1. calls'[s] = cs[s] \/ calls'[s] = Forget(cs[s])
    BY DEF Unmount
  <2>2. changes \in Nat
    BY DEF CountsTyped
  <2> QED
    BY <2>1, <2>2, ForgetTyped
<1> QED
  BY <1>1, NoneAsked DEF CallsTyped

LEMMA CallsStayTyped ==
    ASSUME CallsTyped, CountsTyped, UNCHANGED <<limits, calls, changes>>
    PROVE  CallsTyped' /\ Within'
<1>1. Pending' = Pending
  BY DEF Pending
<1> QED
  BY <1>1 DEF CallsTyped, CountsTyped, Within

\* A call is answered and perhaps followed by another.
LEMMA FollowTypes ==
    ASSUME CallsForm, CallsTyped, CountsTyped, UNCHANGED <<limits, changes>>,
           NEW s \in Slots, ~ Idle(s), stored \in Keys \union {NoKey}, Consume(s)
    PROVE  CallsTyped' /\ Within'
<1> DEFINE next == FollowUp(s, stored)
<1>1. calls' = [calls EXCEPT ![s] = next]
  BY DEF Consume
<1>2. (next = NoCall \/ CallTyped(next, changes)) /\ ~ Pends(next)
  BY FollowTyped DEF CountsTyped
<1> HIDE DEF next
<1>3. /\ DOMAIN calls' = Slots /\ calls'[s] = next
      /\ \A t \in Slots : t # s => calls'[t] = calls[t]
  BY <1>1, OneSlot
<1>4. CallsTyped'
  BY <1>2, <1>3 DEF CallsTyped
<1>5. \A t \in Slots : Pends(calls'[t]) => Pends(calls[t])
  BY <1>2, <1>3
<1> QED
  BY <1>4, <1>5, NoneAsked

LEMMA DeadTypes ==
    ASSUME Inv, Types, NEW s \in Slots, DeadAnswer(s), UNCHANGED <<session, view>>
    PROVE  Types' /\ Frame
<1>1. /\ ~ Idle(s) /\ ~ Live(s) /\ Consume(s)
      /\ UNCHANGED <<limits, stored, tables, failures>>
  BY DEF DeadAnswer, Answered
<1>2. CallsTyped' /\ Within'
  BY <1>1, FollowTypes DEF Types, SessionTyped, Inv, tables
<1>3. Types'
  BY <1>1, <1>2
  DEF Types, TablesTyped, CountsTyped, SessionTyped, ViewTyped, tables, session,
      Same
<1>4. Serving \/ auth' = FALSE
  <2> DEFINE next == FollowUp(s, stored)
  <2>1. calls' = [calls EXCEPT ![s] = next]
    BY <1>1 DEF Consume
  <2>2. calls[s].live = FALSE /\ ~ PageCall(calls[s])
    BY <1>1, NoCallForm DEF Live, Idle, Inv, CallsForm, CallForm, PageCall
  <2>3. ~ PageCall(next)
    BY <1>1, <2>2, Following, NoCallForm DEF PageCall, Inv
  <2> HIDE DEF next
  <2>4. /\ DOMAIN calls' = Slots /\ calls'[s] = next
        /\ \A t \in Slots : t # s => calls'[t] = calls[t]
    BY <2>1, OneSlot DEF Inv
  <2>5. \A t \in Slots : /\ PageCall(calls'[t]) <=> PageCall(calls[t])
                         /\ PageCall(calls[t]) => calls'[t] = calls[t]
    BY <2>2, <2>3, <2>4
  <2> QED
    BY <1>1, <2>5
    DEF Serving, Undisturbed, session, tables, Inv, Shows, Types, CountsTyped
<1> QED
  BY <1>3, <1>4 DEF Frame

LEMMA ServedTypes ==
    ASSUME Inv, Types, Server, UNCHANGED <<session, view>>
    PROVE  Types' /\ Frame
<1>1. CallsGood /\ TablesTyped' /\ CountsTyped'
  BY ServerTypes DEF Inv, Shows, Types
<1>2. UNCHANGED <<limits, stored>> /\ changes' \in {changes, changes + 1}
  BY DEF Server, ServeList, Serve, ServeLogin, Reject, Refuse, Fail, Others, tables
<1>3. changes \in Nat /\ changes' \in Nat /\ changes <= changes'
  BY <1>1, <1>2 DEF Types, CountsTyped
<1>4. ViewTyped'
  BY <1>3, ViewGrows DEF Types, ViewTyped, session
<1>5. Types'
  BY <1>1, <1>2, <1>4 DEF Types, SessionTyped, session, CallsGood
<1>6. ASSUME NEW s \in Slots
      PROVE  /\ PageCall(calls'[s]) <=> PageCall(calls[s])
             /\ calls'[s] = calls[s] \/ ServedAt(s)
  BY <1>1 DEF CallsGood, AllServed, ServedAt, Served, PageCall
<1>7. Serving \/ auth' = FALSE
  BY <1>2, <1>3, <1>6 DEF Serving, Undisturbed, session, Inv, Shows
<1> QED
  BY <1>5, <1>7 DEF Frame

\* The steps of the session leave the server alone.
SameTables == UNCHANGED <<limits, tables, failures>>

LEMMA TablesStay ==
    ASSUME TablesTyped, CountsTyped, SameTables, Within'
    PROVE  TablesTyped' /\ CountsTyped'
  BY DEF SameTables, tables, TablesTyped, CountsTyped, Same

LEMMA OpenTypes ==
    ASSUME Inv, Types, NEW p \in limits.pages, Open(p)
    PROVE  Types' /\ Frame
<1>1. SameTables /\ UNCHANGED <<calls, stored, registeredKey, switches, authMode,
                               switched, overtaken>>
  BY DEF Open, apiVars, SameTables
<1>2. CallsTyped' /\ Within' /\ TablesTyped' /\ CountsTyped'
  BY <1>1, CallsStayTyped, TablesStay DEF Types, SameTables, tables
<1>3. Here' /\ path' \in limits.pages
  BY LimitsAssumption DEF Open, Inv, Shows, Here
<1>4. SessionTyped'
  BY <1>1, <1>3 DEF Types, SessionTyped, SameTables
<1>5. ViewTyped'
  BY <1>1, MountedForm DEF Open, ViewTyped, Types, CountsTyped, SameTables, tables
<1>6. auth' = FALSE \/ Anew
  <2>1. ASSUME NEW s \in Slots
        PROVE  ~ PageCall(calls'[s])
    BY <1>1 DEF Open, Inv, Shows
  <2>2. ~ auth
    BY DEF Open, Inv, Shows
  <2> QED
    BY <1>1, <1>3, <2>1, <2>2 DEF Open, Anew, SameTables, tables
<1> QED
  BY <1>2, <1>4, <1>5, <1>6 DEF Types, Frame

LEMMA CallsUnmounted ==
    ASSUME Inv, Types, NEW kept, UNCHANGED <<limits, changes>>,
           calls' = Unmount(calls, kept)
    PROVE  CallsTyped' /\ Within'
<1>1. \A s \in Slots : /\ CallForm(calls[s])
                       /\ calls[s] # NoCall => CallTyped(calls[s], changes)
  BY DEF Inv, CallsForm, Types, CallsTyped
<1> QED
  BY <1>1, UnmountTypes DEF Types

LEMMA LeaveTypes ==
    ASSUME Inv, Types, Leave
    PROVE  Types' /\ Frame
<1>1. /\ SameTables /\ UNCHANGED <<stored, switches>> /\ path' = "landing"
      /\ authMode' = "login" /\ registeredKey' = NoKey /\ switched' = FALSE
      /\ overtaken' = FALSE /\ auth' = FALSE
  BY DEF Leave, SameTables
<1>2. CallsTyped' /\ Within' /\ TablesTyped' /\ CountsTyped'
  BY <1>1, CallsUnmounted, TablesStay DEF Leave, SameTables, tables, Types
<1> QED
  BY <1>1, <1>2 DEF Types, SessionTyped, ViewTyped, Frame, SameTables

LEMMA VisitTypes ==
    ASSUME Inv, Types, NEW p \in limits.pages, Visit(p)
    PROVE  Types' /\ Frame
<1>1. /\ SameTables /\ UNCHANGED <<stored, auth, authMode, registeredKey, switches>>
      /\ path' = p /\ view' = Mounted(stored) /\ switched' = (stored = NoKey)
      /\ overtaken' = FALSE
  BY DEF Visit, SameTables
<1>2. CallsTyped' /\ Within' /\ TablesTyped' /\ CountsTyped'
  BY <1>1, CallsUnmounted, TablesStay DEF Visit, SameTables, tables, Types
<1>3. SessionTyped'
  BY <1>1 DEF Types, SessionTyped, SameTables
<1>4. ViewTyped'
  BY <1>1, MountedForm DEF ViewTyped, Types, CountsTyped, SameTables, tables
<1>5. Anew
  <2>1. \A s \in Slots : ~ PageCall(calls'[s])
    BY UnmountingCalls DEF Inv, Visit
  <2>2. path' # path
    BY <1>1 DEF Visit
  <2> QED
    BY <1>1, <2>1, <2>2, LimitsAssumption
    DEF Anew, Here, SameTables, tables, Inv, Shows
<1> QED
  BY <1>2, <1>3, <1>4, <1>5 DEF Types, Frame

\* The session goes on around the page.
LEMMA Around ==
    ASSUME Inv, Types, SameTables, CallsTyped', Within', SessionTyped',
           UNCHANGED <<path, auth, view>>,
           Undisturbed' => Undisturbed /\ stored' = stored,
           \A s \in Slots : PageCall(calls'[s]) \/ PageCall(calls[s])
                               => calls'[s] = calls[s]
    PROVE  Types' /\ Frame
<1>1. TablesTyped' /\ CountsTyped'
  BY TablesStay DEF Types
<1>2. ViewTyped' /\ changes' = changes /\ changes \in Nat
  BY DEF Types, ViewTyped, SameTables, tables, CountsTyped
<1>3. auth' = FALSE \/ Serving
  BY <1>2 DEF Serving, Inv, Shows
<1> QED
  BY <1>1, <1>2, <1>3 DEF Types, Frame

LEMMA ShowFormTypes ==
    ASSUME Inv, Types, NEW mode, ShowForm(mode)
    PROVE  Types' /\ Frame
<1>1. /\ SameTables /\ UNCHANGED <<calls, stored, path, auth, registeredKey, view,
                                   switches, switched, overtaken>>
      /\ authMode' \in {"login", "register", "registered"}
  BY DEF ShowForm, apiVars, SameTables
<1>2. CallsTyped' /\ Within'
  BY <1>1, CallsStayTyped DEF Types, SameTables, tables
<1>3. SessionTyped'
  BY <1>1 DEF Types, SessionTyped, SameTables
<1> QED
  BY <1>1, <1>2, <1>3, Around DEF Types, SessionTyped, Undisturbed

\* The layout sends a call.
LEMMA VerifyingTypes ==
    ASSUME Inv, Types, NEW c, CallTyped(c, changes), Waits(c), Verifying(c),
           Pends(c) => Budget
    PROVE  Types' /\ Frame
<1>1. /\ SameTables /\ Send(c)
      /\ UNCHANGED <<stored, path, auth, authMode, registeredKey, view, switches,
                     switched, overtaken>>
  BY DEF Verifying, SameTables
<1>2. PICK s \in Slots : Idle(s) /\ calls' = [calls EXCEPT ![s] = c]
  BY <1>1 DEF Send
<1>3. /\ DOMAIN calls' = Slots /\ calls'[s] = c
      /\ \A t \in Slots : t # s => calls'[t] = calls[t]
  BY <1>2, OneSlot DEF Inv
<1>4. CallsTyped'
  BY <1>1, <1>3 DEF Types, CallsTyped, SameTables, tables
<1>5. Within'
  <2>1. \A t \in Slots : t # s /\ Pends(calls'[t]) => Pends(calls[t])
    BY <1>3
  <2>2. CASE Pends(c)
    BY <1>1, <2>1, <2>2, OneAsked DEF Types, SameTables, tables
  <2>3. CASE ~ Pends(c)
    <3>1. \A t \in Slots : Pends(calls'[t]) => Pends(calls[t])
      BY <1>3, <2>3
    <3> QED
      BY <1>1, <3>1, NoneAsked DEF Types, SameTables, tables
  <2> QED
    BY <2>2, <2>3
<1>6. SessionTyped'
  BY <1>1 DEF Types, SessionTyped, SameTables
<1>7. \A t \in Slots : PageCall(calls'[t]) \/ PageCall(calls[t])
                           => calls'[t] = calls[t]
  BY <1>2, <1>3 DEF PageCall, Waits, Idle
<1> QED
  BY <1>1, <1>4, <1>5, <1>6, <1>7, Around DEF Undisturbed

LEMMA HandleLoginTypes ==
    ASSUME Inv, Types, NEW k \in Keys, HandleLogin(k)
    PROVE  Types' /\ Frame
<1> DEFINE c == [Call("login", <<>>) EXCEPT !.key = k]
<1>1. Verifying(c)
  BY DEF HandleLogin
<1>2. /\ c.op = "login" /\ c.arg = <<>> /\ c.key = k /\ c.live = TRUE
      /\ c.code = "sent" /\ c.body = <<>> /\ c.made = NoKey /\ c.at = 0
      /\ c.load = FALSE /\ c.then = {}
  BY DEF Call
<1> HIDE DEF c
<1>3. 0 \in 0 .. changes
  BY DEF Types, CountsTyped
<1>4. ArgForm(c.op, c.arg)
  BY <1>2 DEF ArgForm, Naming, ClientOps
<1>5. CallTyped(c, changes) /\ Waits(c) /\ ~ Pends(c)
  BY <1>2, <1>3, <1>4, NoBody DEF CallTyped, Waits, Pends, LayoutCalls, Mutations
<1> QED
  BY <1>1, <1>5, VerifyingTypes

LEMMA HandleRegisterTypes ==
    ASSUME Inv, Types, NEW name \in limits.names, HandleRegister(name)
    PROVE  Types' /\ Frame
<1> DEFINE c == Call("register", [name |-> name])
<1>1. Verifying(c) /\ Budget
  BY DEF HandleRegister
<1>2. name \in Names
  BY LimitsAssumption DEF Inv, Shows
<1>3. ArgForm("register", [name |-> name]) /\ "register" \in Mutations
  BY <1>2 DEF ArgForm, Naming, ClientOps, Mutations
<1>4. CallTyped(c, changes)
  BY <1>3, CallFresh DEF Types, SessionTyped, CountsTyped
<1>5. Waits(c)
  BY DEF Waits, Call, LayoutCalls
<1> QED
  BY <1>1, <1>4, <1>5, VerifyingTypes

\* A call of the layout is answered.
LEMMA LayoutAnsweredTypes ==
    ASSUME Inv, Types, NEW s \in Slots, Answered(s), calls[s].op \in LayoutCalls,
           Consume(s), SameTables
    PROVE  /\ CallsTyped' /\ Within'
           /\ \A t \in Slots : PageCall(calls'[t]) \/ PageCall(calls[t])
                                  => calls'[t] = calls[t]
<1>1. ~ Idle(s) /\ calls[s].then = {}
  BY NoCallForm DEF Answered, Inv, CallsForm, CallForm, LayoutCalls
<1>2. calls' = [calls EXCEPT ![s] = NoCall]
  BY <1>1 DEF Consume, FollowUp, GoesOn
<1>3. /\ DOMAIN calls' = Slots /\ calls'[s] = NoCall
      /\ \A t \in Slots : t # s => calls'[t] = calls[t]
  BY <1>2, OneSlot DEF Inv
<1>4. ~ PageCall(NoCall) /\ ~ PageCall(calls[s])
  BY NoCallForm DEF PageCall, LayoutCalls
<1>5. CallsTyped' /\ Within'
  BY <1>1, FollowTypes DEF Types, SessionTyped, Inv, SameTables, tables
<1> QED
  BY <1>3, <1>4, <1>5

LEMMA RegisterAnsweredTypes ==
    ASSUME Inv, Types, NEW s \in Slots, RegisterAnswered(s)
    PROVE  Types' /\ Frame
<1>1. /\ Answered(s) /\ calls[s].op \in LayoutCalls /\ Consume(s) /\ SameTables
      /\ UNCHANGED <<stored, path, auth, view, switches, switched, overtaken>>
      /\ \/ UNCHANGED <<registeredKey, authMode>>
         \/ registeredKey' = calls[s].made /\ authMode' = "registered"
  BY DEF RegisterAnswered, LayoutCalls, SameTables
<1>2. calls[s].made \in Keys \union {NoKey}
  BY <1>1, Busy DEF Answered, Types, Inv, CallTyped
<1>3. SessionTyped'
  BY <1>1, <1>2 DEF Types, SessionTyped, SameTables
<1> QED
  BY <1>1, <1>3, LayoutAnsweredTypes, Around DEF Undisturbed

\* The stored key is set and the layout told, if it is there.
LEMMA DispatchTypes ==
    ASSUME Inv, Types, SameTables, CallsTyped', Within', NEW key \in Keys \union {NoKey},
           stored' = key, Dispatch(key), UNCHANGED <<path, authMode, registeredKey,
                                                     switches>>,
           \/ key = NoKey /\ Here
           \/ ~ Here
           \/ \A s \in Slots : PageCall(calls'[s]) \/ PageCall(calls[s])
                                  => calls'[s] = calls[s]
    PROVE  Types' /\ Frame
<1>1. TablesTyped' /\ CountsTyped' /\ changes' = changes
  BY TablesStay DEF Types, SameTables, tables
<1>2. SessionTyped'
  <2>1. switched' \in BOOLEAN /\ overtaken' \in BOOLEAN
    BY DEF Dispatch, CheckAuth, Types, SessionTyped
  <2> QED
    BY <2>1 DEF Types, SessionTyped, SameTables
<1>3. CASE ~ Here
  <2>1. auth' = FALSE
    BY <1>3 DEF Dispatch, Inv, Shows
  <2> QED
    BY <1>1, <1>2, <2>1 DEF Types, Frame, ViewTyped
<1>4. CASE Here /\ key = NoKey
  <2>1. auth' = FALSE
    BY <1>4 DEF Dispatch, CheckAuth
  <2> QED
    BY <1>1, <1>2, <2>1 DEF Types, Frame, ViewTyped
<1>5. CASE /\ Here /\ key # NoKey
           /\ \A s \in Slots : PageCall(calls'[s]) \/ PageCall(calls[s])
                                  => calls'[s] = calls[s]
  <2>1. CASE auth
    <3>1. /\ auth' = TRUE /\ view' = view
          /\ Undisturbed' => Undisturbed /\ key = stored
      BY <1>5, <2>1 DEF Dispatch, CheckAuth, Undisturbed
    <3>2. UNCHANGED auth
      BY <2>1, <3>1 DEF Inv, Shows
    <3> QED
      BY <1>2, <1>5, <3>1, <3>2, Around
  <2>2. CASE ~ auth
    <3>1. auth' = TRUE /\ view' = Mounted(key)
      BY <1>5, <2>2 DEF Dispatch, CheckAuth
    <3>2. \A s \in Slots : ~ PageCall(calls'[s])
      BY <1>5, <2>2 DEF Inv, Shows
    <3>3. Anew
      BY <1>1, <1>5, <2>2, <3>1, <3>2 DEF Anew, Here
    <3>4. ViewTyped'
      BY <1>1, <3>1, MountedForm DEF ViewTyped, CountsTyped
    <3> QED
      BY <1>1, <1>2, <3>3, <3>4 DEF Types, Frame
  <2> QED
    BY <2>1, <2>2
<1> QED
  BY <1>3, <1>4, <1>5

LEMMA LoginAnsweredTypes ==
    ASSUME Inv, Types, NEW s \in Slots, LoginAnswered(s)
    PROVE  Types' /\ Frame
<1>1. /\ Answered(s) /\ calls[s].op \in LayoutCalls /\ Consume(s) /\ SameTables
      /\ UNCHANGED <<path, authMode, registeredKey, switches>>
  BY DEF LoginAnswered, LayoutCalls, SameTables
<1>2. /\ CallsTyped' /\ Within'
      /\ \A t \in Slots : PageCall(calls'[t]) \/ PageCall(calls[t])
                             => calls'[t] = calls[t]
  BY <1>1, LayoutAnsweredTypes
<1>3. CASE calls[s].code = "ok"
  <2>1. calls[s].key \in Keys \union {NoKey}
    BY <1>1, Busy DEF Answered, Types, Inv, CallTyped
  <2>2. stored' = calls[s].key /\ Dispatch(calls[s].key)
    BY <1>3 DEF LoginAnswered
  <2> QED
    BY <1>1, <1>2, <2>1, <2>2, DispatchTypes
<1>4. CASE calls[s].code # "ok"
  <2>1. UNCHANGED <<stored, auth, view, switched, overtaken>>
    BY <1>4 DEF LoginAnswered
  <2>2. SessionTyped'
    BY <1>1, <2>1 DEF Types, SessionTyped, SameTables
  <2> QED
    BY <1>1, <1>2, <2>1, <2>2, Around DEF Undisturbed
<1> QED
  BY <1>3, <1>4

LEMMA EnterTypes ==
    ASSUME Inv, Types, Enter
    PROVE  Types' /\ Frame
<1>1. /\ Here /\ SameTables /\ stored' = registeredKey /\ Dispatch(registeredKey)
      /\ UNCHANGED <<calls, path, authMode, registeredKey, switches>>
  BY DEF Enter, RegisteredPanel, Dispatch, SameTables
<1>2. CallsTyped' /\ Within'
  BY <1>1, CallsStayTyped DEF Types, SameTables, tables
<1>3. registeredKey \in Keys \union {NoKey}
  BY DEF Types, SessionTyped
<1> QED
  BY <1>1, <1>2, <1>3, DispatchTypes

LEMMA LogoutTypes ==
    ASSUME Inv, Types, HandleLogout
    PROVE  Types' /\ Frame
<1>1. /\ Here /\ SameTables /\ stored' = NoKey /\ Dispatch(NoKey)
      /\ calls' = Unmount(calls, LayoutCalls)
      /\ UNCHANGED <<path, authMode, registeredKey, switches>>
  BY DEF HandleLogout, Dispatch, SameTables
<1>2. CallsTyped' /\ Within'
  BY <1>1, CallsUnmounted DEF SameTables, tables
<1> QED
  BY <1>1, <1>2, DispatchTypes

LEMMA UnauthorizedTypes ==
    ASSUME Inv, Types, NEW s \in Slots, Unauthorized(s)
    PROVE  Types' /\ Frame
<1> DEFINE next == FollowUp(s, NoKey)
           cs == [calls EXCEPT ![s] = next]
<1>1. /\ ~ Idle(s) /\ SameTables /\ stored' = NoKey /\ Dispatch(NoKey)
      /\ calls' = Unmount(cs, LayoutCalls)
      /\ UNCHANGED <<path, authMode, registeredKey, switches>>
  BY DEF Unauthorized, Answered, SameTables
<1>2. /\ next = NoCall \/ CallTyped(next, changes)
      /\ ~ Pends(next) /\ CallForm(next)
  <2>1. CallForm(next)
    BY <1>1, Following, NoCallForm DEF Inv
  <2> QED
    BY <1>1, <2>1, FollowTyped DEF Inv, Types, CountsTyped
<1> HIDE DEF next
<1>3. \A t \in Slots : /\ CallForm(cs[t])
                       /\ cs[t] # NoCall => CallTyped(cs[t], changes)
                       /\ Pends(cs[t]) => Pends(calls[t])
  BY <1>2 DEF Inv, CallsForm, Types, CallsTyped
<1> HIDE DEF cs
<1>4. CallsTyped' /\ Within'
  BY <1>1, <1>3, UnmountTypes DEF Types, SameTables, tables
<1>5. Here \/ ~ Here
  OBVIOUS
<1> QED
  BY <1>1, <1>4, <1>5, DispatchTypes

LEMMA ElsewhereTypes ==
    ASSUME Inv, Types, NEW k \in Keys \union {NoKey}, Elsewhere(k)
    PROVE  Types' /\ Frame
<1>1. /\ SameTables /\ stored' = k /\ switched' = Here
      /\ switches < limits.switches /\ switches' = switches + 1
      /\ UNCHANGED <<calls, path, auth, authMode, registeredKey, view, overtaken>>
  BY DEF Elsewhere, SameTables
<1>2. CallsTyped' /\ Within'
  BY <1>1, CallsStayTyped DEF Types, SameTables, tables
<1>3. SessionTyped'
  <2>1. switches' \in 0 .. limits.switches
    BY <1>1 DEF Types, SessionTyped, CountsTyped
  <2> QED
    BY <1>1, <2>1 DEF Types, SessionTyped, SameTables, Here
<1>4. CASE auth
  <2>1. switched' = TRUE
    BY <1>1, <1>4 DEF Inv, Shows
  <2> QED
    BY <1>1, <1>2, <1>3, <2>1, Around DEF Undisturbed
<1>5. CASE ~ auth
  <2>1. TablesTyped' /\ CountsTyped'
    BY <1>1, <1>2, TablesStay DEF Types
  <2>2. auth' = FALSE
    BY <1>1, <1>5 DEF Inv, Shows
  <2> QED
    BY <1>2, <1>3, <2>1, <2>2 DEF Types, ViewTyped, Frame
<1> QED
  BY <1>4, <1>5

LEMMA SessionTypes ==
    ASSUME Inv, Types, SessionNext
    PROVE  Types' /\ Frame
<1>1. ASSUME NEW mode, ShowForm(mode)
      PROVE  Types' /\ Frame
  BY <1>1, ShowFormTypes
<1> QED
  BY <1>1, OpenTypes, VisitTypes, LeaveTypes, EnterTypes, LogoutTypes,
     HandleLoginTypes, HandleRegisterTypes, LoginAnsweredTypes,
     RegisterAnsweredTypes, UnauthorizedTypes, ElsewhereTypes
  DEF SessionNext

-----------------------------------------------------------------------------
(* What the pages do, seen alike. *)

OpsOf(p) == CASE p = "keys" -> KeyOps
              [] p = "rules" -> {"putRule", "deleteRule"}
              [] p = "clients" -> ClientOps
              [] OTHER -> {}
RefreshOf(p) == IF p = "clients" THEN Parts ELSE {p}

\* The lists a page shows, and what it knows of them, stay; the page of the
\* clients may load them anew.
Looks(v) ==
    /\ v.waiting = view.waiting /\ v.at = view.at /\ v.body = view.body
    /\ \/ v.phase = view.phase
       \/ path = "clients" /\ v.phase = "fresh"

Clicked ==
    UNCHANGED calls /\ Looks(view') /\ view'.must = view.must
                    /\ view'.excused = view.excused

Asked(op, arg) ==
    /\ Send(Refreshing(op, arg, RefreshOf(path))) /\ Budget
    /\ op \in OpsOf(path) /\ ArgForm(op, arg)
    /\ Looks(view') /\ view'.must = view.must /\ view'.excused = view.excused
    /\ path # "clients" => view.phase # "fresh"

Replied(s) ==
    /\ MutationAnswered(s, OpsOf(path))
    /\ \/ /\ calls[s].code = "ok" /\ Looks(view')
          /\ view'.must = Larger(view.must, calls[s].at)
          /\ view'.excused = (view.excused \/ Listing(calls[s].then))
       \/ calls[s].code = "failed" /\ UNCHANGED view

\* The effect: the page loads its lists.
KeepsRows == /\ view'.at = view.at /\ view'.must = view.must
             /\ view'.body = view.body
LoadRows ==
    /\ path \in {"keys", "rules"} /\ view.phase = "fresh"
    /\ SendBoth(Fetch({path}, TRUE), Fetch({"clients"}, TRUE))
    /\ view'.phase = "loading" /\ view'.waiting = 2 /\ KeepsRows
    /\ view'.excused = view.excused
LoadAll ==
    /\ view.phase = "fresh" /\ view'.phase = "loading" /\ view'.waiting = 1
    /\ KeepsRows
    /\ \/ /\ path = "clients" /\ Send(Fetch(Parts, TRUE))
          /\ view'.excused = (view.excused \/ Listing(Parts))
       \/ /\ path = "overview" /\ Send(LoadStats(TRUE))
          /\ view'.excused = view.excused
LoadNothing ==
    /\ path = "clients" /\ view.phase = "fresh" /\ view'.phase = "ready"
    /\ UNCHANGED calls /\ KeepsRows /\ view'.excused = view.excused
LoadAgain ==
    /\ path = "overview" /\ view.phase = "ready" /\ Send(LoadStats(FALSE))
    /\ view'.phase = "ready" /\ view'.waiting = view.waiting /\ KeepsRows
    /\ view'.excused = (view.excused \/ Listing(Parts))

\* A list is answered: what it does to the spinner, and to how new the rows
\* are that the page is about.
Spins(c) ==
    \/ /\ ~ c.load /\ view'.waiting = view.waiting
       /\ \/ view'.phase = view.phase
          \/ path = "clients" /\ view'.phase = "fresh"
    \/ /\ c.load /\ path # "clients" /\ view'.waiting = view.waiting - 1
       /\ view'.phase = IF view.waiting = 1 THEN "ready" ELSE view.phase
    \/ c.load /\ path = "clients" /\ view'.phase \in {"fresh", "ready"}

Primary(c) == path = "overview" \/ path \in c.arg.parts
Taken(s) ==
    LET c == calls[s] IN
    /\ Answered(s) /\ Live(s) /\ c.op = "list" /\ Consume(s)
    /\ path # "clients" => c.then = {}
    /\ Spins(c) /\ view'.must = view.must
    /\ \/ /\ c.code = "ok" /\ view'.excused = view.excused
          /\ view'.at = IF Primary(c) THEN c.at ELSE view.at
       \/ /\ c.code = "failed" /\ view'.at = view.at
          /\ \/ view'.excused = TRUE
             \/ path = "overview" /\ view'.excused = view.excused

PageKind ==
    \/ Clicked \/ LoadRows \/ LoadAll \/ LoadNothing \/ LoadAgain
    \/ \E op \in Mutations : \E arg : Asked(op, arg)
    \/ \E s \in Slots : Replied(s) \/ Taken(s)
    \/ path = "overview" /\ \E s \in Slots : FirstStage(s)

PageGood == PageKind /\ Quiet /\ ViewForm(view', path, changes)

\* The page as it is mounted now.
Good == ViewForm(view, path, changes)

Near(v) ==
    /\ v.phase = view.phase /\ v.waiting = view.waiting
    /\ v.at = view.at /\ v.must = view.must
    /\ v.excused = view.excused /\ v.body = view.body

\* A rendering changes the role only.
LEMMA Rendered ==
    ASSUME NEW v, NEW n, ViewForm(v, path, n), Render(v)
    PROVE  /\ ViewForm(view', path, n)
           /\ view'.phase = v.phase /\ view'.waiting = v.waiting
           /\ view'.at = v.at /\ view'.must = v.must /\ view'.body = v.body
           /\ view'.excused = v.excused /\ view'.by = v.by
           /\ view'.modal = v.modal /\ view'.editing = v.editing
           /\ view'.generated = v.generated /\ view'.owed = v.owed
           /\ view'.hurried = v.hurried /\ view'.role = IsAdmin(stored)
<1>1. DOMAIN v = ViewFields /\ view' = [v EXCEPT !.role = IsAdmin(stored)]
  BY DEF ViewForm, Render
<1>2. /\ DOMAIN view' = ViewFields
      /\ view'.phase = v.phase /\ view'.waiting = v.waiting
      /\ view'.at = v.at /\ view'.must = v.must /\ view'.body = v.body
      /\ view'.excused = v.excused /\ view'.by = v.by
      /\ view'.modal = v.modal /\ view'.editing = v.editing
      /\ view'.generated = v.generated /\ view'.owed = v.owed
      /\ view'.hurried = v.hurried /\ view'.role = IsAdmin(stored)
  BY <1>1 DEF ViewFields
<1>3. IsAdmin(stored) \in BOOLEAN
  BY DEF IsAdmin
<1>4. ViewForm(view', path, n)
  BY <1>2, <1>3 DEF ViewForm
<1> QED
  BY <1>2, <1>4

LEMMA ClickKind ==
    ASSUME NEW v, Near(v), ViewForm(v, path, changes), Click(v)
    PROVE  PageGood
<1>1. ViewForm(view', path, changes) /\ Clicked /\ Quiet
  BY Rendered DEF Click, Clicked, Near, Looks
<1> QED
  BY <1>1 DEF PageGood, PageKind

LEMMA AskKind ==
    ASSUME NEW v, Near(v), ViewForm(v, path, changes), Render(v), Quiet, Budget,
           NEW op \in Mutations, NEW arg, op \in OpsOf(path), ArgForm(op, arg),
           Send(Refreshing(op, arg, RefreshOf(path))),
           path # "clients" => view.phase # "fresh"
    PROVE  PageGood
<1>1. ViewForm(view', path, changes) /\ Looks(view') /\ view'.must = view.must
      /\ view'.excused = view.excused
  BY Rendered DEF Near, Looks
<1>2. Asked(op, arg)
  BY <1>1 DEF Asked
<1> QED
  BY <1>1, <1>2 DEF PageGood, PageKind

\* What a reply makes of the page.
LEMMA ChangedForm ==
    ASSUME Good, changes \in Nat, NEW s, calls[s].at \in 0 .. changes,
           NEW v, Near(v), ViewForm(v, path, changes), Changed(s, v)
    PROVE  /\ calls[s].code = "ok"
           /\ \E w :
                 /\ Render(w) /\ ViewForm(w, path, changes) /\ Looks(w)
                 /\ w.must = Larger(view.must, calls[s].at)
                 /\ w.excused = (view.excused \/ Listing(calls[s].then))
                 /\ w.modal = v.modal /\ w.owed = v.owed /\ w.editing = v.editing
                 /\ w.generated = v.generated /\ w.hurried = v.hurried
<1> DEFINE w == [v EXCEPT !.must = Larger(@, calls[s].at),
                          !.excused = @ \/ Listing(calls[s].then)]
<1>1. DOMAIN v = ViewFields
  BY DEF ViewForm
<1>2. /\ DOMAIN w = ViewFields
      /\ w.phase = v.phase /\ w.waiting = v.waiting
      /\ w.at = v.at /\ w.must = Larger(v.must, calls[s].at) /\ w.body = v.body
      /\ w.excused = (v.excused \/ Listing(calls[s].then))
      /\ w.modal = v.modal /\ w.editing = v.editing
      /\ w.generated = v.generated /\ w.owed = v.owed
      /\ w.hurried = v.hurried /\ w.role = v.role
  BY <1>1 DEF ViewFields
<1>3. Larger(v.must, calls[s].at) \in 0 .. changes
  BY DEF Larger, ViewForm
<1>4. (v.excused \/ Listing(calls[s].then)) \in BOOLEAN
  OBVIOUS
<1>0. Render(w) /\ calls[s].code = "ok"
  BY DEF Changed
<1> HIDE DEF w
<1>5. ViewForm(w, path, changes)
  BY <1>2, <1>3, <1>4 DEF ViewForm
<1>6. Looks(w) /\ v.must = view.must /\ v.excused = view.excused
  BY <1>2 DEF Looks, Near
<1> QED
  BY <1>0, <1>2, <1>5, <1>6

LEMMA ReplyKind ==
    ASSUME Good, changes \in Nat, NEW s \in Slots, calls[s].at \in 0 .. changes,
           MutationAnswered(s, OpsOf(path)),
           \/ Caught(s)
           \/ \E v : Near(v) /\ ViewForm(v, path, changes) /\ Changed(s, v)
    PROVE  PageGood
<1>1. ASSUME Caught(s)
      PROVE  Replied(s) /\ ViewForm(view', path, changes)
  BY <1>1 DEF Caught, Replied, Good
<1>2. ASSUME NEW v, Near(v), ViewForm(v, path, changes), Changed(s, v)
      PROVE  Replied(s) /\ ViewForm(view', path, changes)
  <2>1. calls[s].code = "ok"
    BY <1>2, ChangedForm
  <2>2. PICK w : /\ Render(w) /\ ViewForm(w, path, changes) /\ Looks(w)
                 /\ w.must = Larger(view.must, calls[s].at)
                 /\ w.excused = (view.excused \/ Listing(calls[s].then))
    BY <1>2, ChangedForm
  <2>3. /\ ViewForm(view', path, changes) /\ Looks(view')
        /\ view'.must = Larger(view.must, calls[s].at)
        /\ view'.excused = (view.excused \/ Listing(calls[s].then))
    BY <2>2, Rendered DEF Looks
  <2> QED
    BY <2>1, <2>3 DEF Replied
<1>3. Replied(s) /\ ViewForm(view', path, changes)
  BY <1>1, <1>2
<1> QED
  BY <1>3 DEF PageGood, PageKind, MutationAnswered

\* The rows of a list are taken over, with all the rest of the page as it was.
LEMMA RowsForm ==
    ASSUME Good, NEW c, NEW primary, c.at \in 0 .. changes, BodyForm(c.body),
           c.arg.parts \subseteq DOMAIN c.body
    PROVE  LET v == Rows(view, c, primary)
           IN  /\ ViewForm(v, path, changes)
               /\ v.phase = view.phase /\ v.waiting = view.waiting
               /\ v.must = view.must /\ v.excused = view.excused
               /\ v.at = IF primary \in c.arg.parts THEN c.at ELSE view.at
               /\ v.role = view.role
<1> DEFINE body == [p \in Parts |-> IF p \in c.arg.parts THEN c.body[p]
                                    ELSE view.body[p]]
           at == IF primary \in c.arg.parts THEN c.at ELSE view.at
           v == [view EXCEPT !.body = body, !.by = @ \union {c.key}, !.at = at]
<1>1. v = Rows(view, c, primary)
  BY DEF Rows
<1>2. DOMAIN view = ViewFields /\ BodyForm(view.body) /\ DOMAIN view.body = Parts
  BY DEF Good, ViewForm
<1>3. DOMAIN body = Parts /\ BodyForm(body)
  <2>1. DOMAIN body = Parts
    OBVIOUS
  <2>2. \A p \in Parts : \/ body[p] = c.body[p] /\ p \in DOMAIN c.body
                         \/ body[p] = view.body[p]
    OBVIOUS
  <2> HIDE DEF body
  <2> QED
    BY <1>2, <2>1, <2>2 DEF BodyForm, Parts
<1>4. at \in 0 .. changes
  BY DEF Good, ViewForm
<1> HIDE DEF body, at
<1>5. /\ DOMAIN v = ViewFields /\ v.phase = view.phase
      /\ v.waiting = view.waiting /\ v.must = view.must
      /\ v.excused = view.excused /\ v.at = at /\ v.body = body
      /\ v.modal = view.modal /\ v.role = view.role /\ v.hurried = view.hurried
      /\ v.generated = view.generated /\ v.owed = view.owed
      /\ v.editing = view.editing
  BY <1>2 DEF ViewFields
<1> HIDE DEF v
<1>6. ViewForm(v, path, changes)
  BY <1>3, <1>4, <1>5 DEF ViewForm, Good
<1> QED
  BY <1>1, <1>5, <1>6 DEF at

LEMMA AwaitedForm ==
    ASSUME NEW v, NEW c, NEW n, ViewForm(v, path, n)
    PROVE  LET w == Awaited(v, c)
           IN  /\ ViewForm(w, path, n) /\ w.at = v.at /\ w.must = v.must
               /\ w.excused = v.excused
               /\ ~ c.load => w.waiting = v.waiting /\ w.phase = v.phase
               /\ c.load => /\ w.waiting = v.waiting - 1
                            /\ w.phase = IF v.waiting = 1 THEN "ready" ELSE v.phase
<1>1. CASE ~ c.load
  BY <1>1 DEF Awaited
<1>2. CASE c.load
  <2> DEFINE phase == IF v.waiting = 1 THEN "ready" ELSE v.phase
             w == [v EXCEPT !.waiting = @ - 1, !.phase = phase]
  <2>1. w = Awaited(v, c)
    BY <1>2 DEF Awaited
  <2>2. DOMAIN v = ViewFields
    BY DEF ViewForm
  <2>3. phase \in {"fresh", "loading", "ready"} /\ v.waiting - 1 \in Int
    BY DEF ViewForm
  <2> HIDE DEF phase
  <2>4. /\ DOMAIN w = ViewFields /\ w.phase = phase
        /\ w.waiting = v.waiting - 1 /\ w.must = v.must
        /\ w.excused = v.excused /\ w.at = v.at /\ w.body = v.body
        /\ w.modal = v.modal /\ w.role = v.role /\ w.hurried = v.hurried
        /\ w.generated = v.generated /\ w.owed = v.owed
        /\ w.editing = v.editing
    BY <2>2 DEF ViewFields
  <2> HIDE DEF w
  <2>5. ViewForm(w, path, n)
    BY <2>3, <2>4 DEF ViewForm
  <2> QED
    BY <1>2, <2>1, <2>4, <2>5 DEF phase
<1> QED
  BY <1>1, <1>2

\* An answered list of the page, all its rows there.
LEMMA RowsThere ==
    ASSUME CallsForm, CallsTyped, NEW s \in Slots, Answered(s), Live(s),
           calls[s].op = "list"
    PROVE  /\ CallTyped(calls[s], changes) /\ DOMAIN calls[s] = Fields
           /\ calls[s].at \in 0 .. changes /\ BodyForm(calls[s].body)
           /\ calls[s].code = "ok" =>
                 calls[s].arg.parts \subseteq DOMAIN calls[s].body
<1>1. /\ ~ Idle(s) /\ calls[s].live /\ DOMAIN calls[s] = Fields
      /\ CallTyped(calls[s], changes)
  BY Busy DEF Answered, Live
<1> QED
  BY <1>1 DEF CallTyped

LEMMA ListKind ==
    ASSUME CallsForm, CallsTyped, Good, NEW s \in Slots,
           path \in {"keys", "rules"}, ListAnswered(s, path)
    PROVE  PageGood
<1> DEFINE c == calls[s]
<1>1. /\ Answered(s) /\ Live(s) /\ c.op = "list" /\ c.then = {} /\ Consume(s) /\ Quiet
      /\ c.at \in 0 .. changes /\ BodyForm(c.body)
      /\ c.code = "ok" => c.arg.parts \subseteq DOMAIN c.body
  BY RowsThere DEF ListAnswered
<1>2. ASSUME c.code = "ok", Render(Awaited(Rows(view, c, path), c))
      PROVE  Taken(s) /\ ViewForm(view', path, changes)
  <2> DEFINE v == Rows(view, c, path)
             w == Awaited(v, c)
  <2>1. /\ ViewForm(v, path, changes)
        /\ v.phase = view.phase /\ v.waiting = view.waiting
        /\ v.must = view.must /\ v.excused = view.excused
        /\ v.at = IF path \in c.arg.parts THEN c.at ELSE view.at
    BY <1>1, <1>2, RowsForm
  <2> HIDE DEF v
  <2>2. /\ ViewForm(w, path, changes) /\ w.at = v.at /\ w.must = v.must
        /\ w.excused = v.excused
        /\ ~ c.load => w.waiting = v.waiting /\ w.phase = v.phase
        /\ c.load => /\ w.waiting = v.waiting - 1
                     /\ w.phase = IF v.waiting = 1 THEN "ready" ELSE v.phase
    BY <2>1, AwaitedForm
  <2>3. Render(w)
    BY <1>2 DEF v
  <2> HIDE DEF w
  <2>4. /\ ViewForm(view', path, changes) /\ view'.phase = w.phase
        /\ view'.waiting = w.waiting /\ view'.must = w.must /\ view'.at = w.at
        /\ view'.excused = w.excused
    BY <2>2, <2>3, Rendered
  <2>5. Spins(c)
    BY <2>1, <2>2, <2>4 DEF Spins
  <2> QED
    BY <1>1, <1>2, <2>1, <2>2, <2>4, <2>5 DEF Taken, Primary
<1>3. ASSUME c.code = "failed", Render([Awaited(view, c) EXCEPT !.excused = TRUE])
      PROVE  Taken(s) /\ ViewForm(view', path, changes)
  <2> DEFINE v == Awaited(view, c)
             w == [v EXCEPT !.excused = TRUE]
  <2>1. /\ ViewForm(v, path, changes) /\ v.at = view.at /\ v.must = view.must
        /\ ~ c.load => v.waiting = view.waiting /\ v.phase = view.phase
        /\ c.load => /\ v.waiting = view.waiting - 1
                     /\ v.phase = IF view.waiting = 1 THEN "ready" ELSE view.phase
    BY AwaitedForm DEF Good
  <2> HIDE DEF v
  <2>2. DOMAIN v = ViewFields
    BY <2>1 DEF ViewForm
  <2>3. /\ DOMAIN w = ViewFields /\ w.phase = v.phase
        /\ w.waiting = v.waiting /\ w.must = v.must
        /\ w.excused = TRUE /\ w.at = v.at /\ w.body = v.body
        /\ w.modal = v.modal /\ w.role = v.role /\ w.hurried = v.hurried
        /\ w.generated = v.generated /\ w.owed = v.owed
        /\ w.editing = v.editing
    BY <2>2 DEF ViewFields
  <2>4. Render(w)
    BY <1>3 DEF v
  <2> HIDE DEF w
  <2>5. ViewForm(w, path, changes)
    BY <2>1, <2>3 DEF ViewForm
  <2>6. /\ ViewForm(view', path, changes) /\ view'.phase = w.phase
        /\ view'.waiting = w.waiting /\ view'.must = w.must /\ view'.at = w.at
        /\ view'.excused = w.excused
    BY <2>4, <2>5, Rendered
  <2>7. Spins(c)
    BY <1>1, <2>1, <2>3, <2>6 DEF Spins
  <2> QED
    BY <1>1, <1>3, <2>1, <2>3, <2>6, <2>7 DEF Taken
<1>4. Taken(s) /\ ViewForm(view', path, changes)
  BY <1>2, <1>3 DEF ListAnswered
<1> QED
  BY <1>1, <1>4 DEF PageGood, PageKind

\* A page whose form, key or row is another.
LEMMA OtherForm ==
    ASSUME Good, NEW v, Near(v), DOMAIN v = ViewFields,
           v.role = view.role, v.modal \in BOOLEAN, v.hurried \in BOOLEAN,
           v.generated \in Keys \union {NoKey}, v.owed \subseteq Keys,
           path = "rules" => /\ v.editing \subseteq RuleRow
                             /\ \A e, f \in v.editing : e = f
    PROVE  ViewForm(v, path, changes)
  BY DEF Good, Near, ViewForm

LEMMA GoodTypes ==
    ASSUME Inv, Types, auth
    PROVE  /\ Good /\ changes \in Nat /\ CallsForm /\ CallsTyped
           /\ DOMAIN view = ViewFields /\ Near(view)
           /\ view.modal \in BOOLEAN /\ view.hurried \in BOOLEAN
           /\ view.generated \in Keys \union {NoKey} /\ view.owed \subseteq Keys
  BY DEF Inv, Types, ViewTyped, CountsTyped, Good, ViewForm, Near

LEMMA AtOfReply ==
    ASSUME Inv, Types, NEW s \in Slots, NEW ops, MutationAnswered(s, ops)
    PROVE  /\ calls[s].at \in 0 .. changes /\ calls[s].made \in Keys \union {NoKey}
           /\ calls[s].made # NoKey => calls[s].op \in MakingOps \union {"register"}
<1>1. CallTyped(calls[s], changes)
  BY Busy DEF MutationAnswered, Answered, Inv, Types
<1> QED
  BY <1>1 DEF CallTyped

LEMMA KeysKinds ==
    ASSUME Inv, Types, KeysPageNext
    PROVE  PageGood
<1>1. auth /\ path = "keys"
  BY DEF KeysPageNext, On
<1>2. /\ Good /\ changes \in Nat /\ CallsForm /\ CallsTyped
      /\ DOMAIN view = ViewFields /\ Near(view)
      /\ view.modal \in BOOLEAN /\ view.hurried \in BOOLEAN
      /\ view.generated \in Keys \union {NoKey} /\ view.owed \subseteq Keys
  BY <1>1, GoodTypes
<1>3. ASSUME LoadKeysPage
      PROVE  PageGood
  <2> DEFINE v == [view EXCEPT !.phase = "loading", !.waiting = 2]
  <2>1. /\ DOMAIN v = ViewFields /\ v.phase = "loading" /\ v.waiting = 2
        /\ v.must = view.must /\ v.excused = view.excused /\ v.at = view.at
        /\ v.body = view.body /\ v.modal = view.modal /\ v.role = view.role
        /\ v.hurried = view.hurried /\ v.generated = view.generated
        /\ v.owed = view.owed /\ v.editing = view.editing
    BY <1>2 DEF ViewFields
  <2>2. Render(v) /\ Quiet
    BY <1>3 DEF LoadKeysPage
  <2> HIDE DEF v
  <2>3. ViewForm(v, path, changes)
    BY <1>2, <2>1 DEF ViewForm, Good
  <2>4. LoadRows /\ ViewForm(view', path, changes)
    BY <1>1, <1>3, <2>1, <2>2, <2>3, Rendered DEF LoadRows, LoadKeysPage, KeepsRows
  <2> QED
    BY <2>2, <2>4 DEF PageGood, PageKind
<1>4. ASSUME OpenCreate
      PROVE  PageGood
  <2> DEFINE v == [view EXCEPT !.generated = NoKey, !.modal = TRUE]
  <2>1. Near(v) /\ ViewForm(v, path, changes)
    <3>1. /\ DOMAIN v = ViewFields /\ Near(v) /\ v.modal = TRUE
          /\ v.role = view.role /\ v.hurried = view.hurried
          /\ v.generated = NoKey /\ v.owed = view.owed
      BY <1>2 DEF ViewFields, Near
    <3> HIDE DEF v
    <3> QED
      BY <1>1, <1>2, <3>1, OtherForm
  <2> QED
    BY <1>4, <2>1, ClickKind DEF OpenCreate
<1>5. ASSUME CloseCreate
      PROVE  PageGood
  <2> DEFINE hurried == view.hurried \/ Making({"createKey"})
             u == [view EXCEPT !.owed = @ \ {view.generated}, !.hurried = hurried]
             v == [u EXCEPT !.modal = FALSE]
  <2>1. Click(v)
    BY <1>5 DEF CloseCreate, CloseForm
  <2>2. hurried \in BOOLEAN
    BY <1>2
  <2> HIDE DEF hurried
  <2>3. Near(v) /\ ViewForm(v, path, changes)
    <3>1. /\ DOMAIN v = ViewFields /\ Near(v) /\ v.modal = FALSE
          /\ v.role = view.role /\ v.hurried = hurried
          /\ v.generated = view.generated /\ v.owed = view.owed \ {view.generated}
      BY <1>2 DEF ViewFields, Near
    <3> HIDE DEF v
    <3> QED
      BY <1>1, <1>2, <2>2, <3>1, OtherForm
  <2> QED
    BY <2>1, <2>3, ClickKind
<1>6. ASSUME DoneWithKey
      PROVE  PageGood
  <2> DEFINE v == [view EXCEPT !.generated = NoKey, !.modal = FALSE,
                               !.owed = @ \ {view.generated}]
  <2>1. Near(v) /\ ViewForm(v, path, changes)
    <3>1. /\ DOMAIN v = ViewFields /\ Near(v) /\ v.modal = FALSE
          /\ v.role = view.role /\ v.hurried = view.hurried
          /\ v.generated = NoKey /\ v.owed = view.owed \ {view.generated}
      BY <1>2 DEF ViewFields, Near
    <3> HIDE DEF v
    <3> QED
      BY <1>1, <1>2, <3>1, OtherForm
  <2> QED
    BY <1>6, <2>1, ClickKind DEF DoneWithKey
<1>7. /\ OpsOf(path) = KeyOps /\ RefreshOf(path) = {"keys"}
      /\ KeyOps \subseteq Mutations
  BY <1>1 DEF OpsOf, RefreshOf, KeyOps, Mutations
<1> DEFINE hurried == view.hurried \/ Making({"createKey", "rotateKey"})
           w == [view EXCEPT !.hurried = hurried]
<1>8. Near(w) /\ ViewForm(w, path, changes)
  <2>1. hurried \in BOOLEAN
    BY <1>2
  <2> HIDE DEF hurried
  <2>2. /\ DOMAIN w = ViewFields /\ Near(w) /\ w.modal = view.modal
        /\ w.role = view.role /\ w.hurried = hurried
        /\ w.generated = view.generated /\ w.owed = view.owed
    BY <1>2 DEF ViewFields, Near
  <2> HIDE DEF w
  <2> QED
    BY <1>1, <1>2, <2>1, <2>2, OtherForm
<1>9. ASSUME NEW name \in Names \union {AdminName}, HandleCreateKey(name)
      PROVE  PageGood
  <2>1. /\ "createKey" \in Mutations /\ "createKey" \in OpsOf(path)
        /\ ArgForm("createKey", [client |-> name])
    BY <1>7 DEF KeyOps, Mutations, ArgForm, Naming, ClientOps
  <2>2. /\ Send(Refreshing("createKey", [client |-> name], RefreshOf(path)))
        /\ Budget /\ Render(w) /\ Quiet /\ view.phase # "fresh"
    BY <1>7, <1>9 DEF HandleCreateKey, KeyForm, FormShown
  <2> HIDE DEF w
  <2> QED
    BY <1>8, <2>1, <2>2, AskKind
<1>10. ASSUME NEW op \in {"deleteKey", "revokeKey", "rotateKey"}, NEW row,
              RowAction(op, row), Render(view) \/ Render(w)
       PROVE  PageGood
  <2>1. row \in ListedRow
    BY <1>2, <1>10 DEF RowAction, Good, ViewForm, BodyForm, Parts
  <2>2. op \in Mutations /\ op \in OpsOf(path) /\ ArgForm(op, [row |-> row])
    BY <1>7, <2>1 DEF KeyOps, Mutations, ArgForm, Naming, ClientOps
  <2>3. /\ Send(Refreshing(op, [row |-> row], RefreshOf(path)))
        /\ Budget /\ Quiet /\ view.phase # "fresh"
    BY <1>7, <1>10 DEF RowAction, RowsShown
  <2> HIDE DEF w
  <2>4. CASE Render(w)
    BY <1>8, <2>2, <2>3, <2>4, AskKind
  <2>5. CASE Render(view)
    BY <1>2, <2>2, <2>3, <2>5, AskKind DEF Good
  <2> QED
    BY <1>10, <2>4, <2>5
<1>11. ASSUME NEW s \in Slots, KeyOpAnswered(s)
       PROVE  PageGood
  <2>1. MutationAnswered(s, OpsOf(path))
    BY <1>7, <1>11 DEF KeyOpAnswered
  <2>2. calls[s].at \in 0 .. changes /\ calls[s].made \in Keys \union {NoKey}
    BY <2>1, AtOfReply
  <2>3. calls[s].made # NoKey => /\ Near(WithKey(view, calls[s]))
                                 /\ ViewForm(WithKey(view, calls[s]), path, changes)
    <3> DEFINE modal == view.modal \/ calls[s].op = "rotateKey"
               v == [view EXCEPT !.generated = calls[s].made,
                                 !.owed = @ \union {calls[s].made}, !.modal = modal]
    <3>1. v = WithKey(view, calls[s])
      BY DEF WithKey
    <3>2. modal \in BOOLEAN
      BY <1>2
    <3> HIDE DEF modal
    <3>3. /\ DOMAIN v = ViewFields /\ Near(v) /\ v.modal = modal
          /\ v.role = view.role /\ v.hurried = view.hurried
          /\ v.generated = calls[s].made /\ v.owed = view.owed \union {calls[s].made}
      BY <1>2 DEF ViewFields, Near
    <3> HIDE DEF v
    <3> QED
      BY <1>1, <1>2, <2>2, <3>1, <3>2, <3>3, OtherForm
  <2>4. \/ Caught(s)
        \/ \E v : Near(v) /\ ViewForm(v, path, changes) /\ Changed(s, v)
    BY <1>2, <1>11, <2>3 DEF KeyOpAnswered, Good
  <2> QED
    BY <1>2, <2>1, <2>2, <2>4, ReplyKind
<1>12. ASSUME NEW s \in Slots, FetchAPIKeys(s)
       PROVE  PageGood
  BY <1>1, <1>2, <1>12, ListKind DEF FetchAPIKeys
<1> HIDE DEF w
<1>13. ASSUME NEW row, HandleDeleteKey(row) \/ HandleRevoke(row) \/ HandleRotate(row)
       PROVE  PageGood
  BY <1>10, <1>13 DEF HandleDeleteKey, HandleRevoke, HandleRotate, w
<1> QED
  BY <1>3, <1>4, <1>5, <1>6, <1>9, <1>11, <1>12, <1>13 DEF KeysPageNext

\* What the form holds and what it sends are parameters of a rule.
LEMMA FormContent ==
    ASSUME NEW rows \in SUBSET RuleRow, NEW form \in FormOf(rows)
    PROVE  form \in Content
<1>1. CASE rows = {}
  BY <1>1, FirstContent DEF FormOf
<1>2. CASE rows # {}
  <2>1. PICK row \in rows :
           form = [row.content EXCEPT !.refill = Or(@, 1), !.capacity = Or(@, 10),
                                      !.window = Or(@, 60)]
    BY <1>2 DEF FormOf
  <2>2. row.content \in Content
    BY DEF RuleRow
  <2> QED
    BY <2>1, <2>2 DEF Content, Or
<1> QED
  BY <1>1, <1>2

LEMMA TypedContent ==
    ASSUME NEW form \in Content, NEW typed \in Typed(form)
    PROVE  typed \in Content /\ Payload(typed) \in Content
<1>1. Other(form.algorithm) \in Algorithms
  <2>1. \E a \in Algorithms : a # form.algorithm
    BY DEF Algorithms
  <2> QED
    BY <2>1 DEF Other
<1>2. typed \in Content
  BY <1>1 DEF Typed, Content
<1>3. Payload(typed) \in Content
  BY <1>2 DEF Payload, Content
<1> QED
  BY <1>2, <1>3

LEMMA RulesKinds ==
    ASSUME Inv, Types, RulesPageNext
    PROVE  PageGood
<1>1. auth /\ path = "rules"
  BY DEF RulesPageNext, On
<1>2. /\ Good /\ changes \in Nat /\ CallsForm /\ CallsTyped
      /\ DOMAIN view = ViewFields /\ Near(view)
      /\ view.modal \in BOOLEAN /\ view.hurried \in BOOLEAN
      /\ view.generated \in Keys \union {NoKey} /\ view.owed \subseteq Keys
  BY <1>1, GoodTypes
<1>3. /\ view.editing \subseteq RuleRow /\ \A e, f \in view.editing : e = f
      /\ view.body["rules"] \subseteq RuleRow
  BY <1>1, <1>2 DEF Good, ViewForm, BodyForm, Parts
<1>4. ASSUME LoadRulesPage
      PROVE  PageGood
  <2> DEFINE v == [view EXCEPT !.phase = "loading", !.waiting = 2]
  <2>1. /\ DOMAIN v = ViewFields /\ v.phase = "loading" /\ v.waiting = 2
        /\ v.must = view.must /\ v.excused = view.excused /\ v.at = view.at
        /\ v.body = view.body /\ v.modal = view.modal /\ v.role = view.role
        /\ v.hurried = view.hurried /\ v.generated = view.generated
        /\ v.owed = view.owed /\ v.editing = view.editing
    BY <1>2 DEF ViewFields
  <2>2. Render(v) /\ Quiet
    BY <1>4 DEF LoadRulesPage
  <2> HIDE DEF v
  <2>3. ViewForm(v, path, changes)
    BY <1>2, <2>1 DEF ViewForm, Good
  <2>4. LoadRows /\ ViewForm(view', path, changes)
    BY <1>1, <1>4, <2>1, <2>2, <2>3, Rendered DEF LoadRows, LoadRulesPage, KeepsRows
  <2> QED
    BY <2>2, <2>4 DEF PageGood, PageKind
<1>5. ASSUME NEW rows \in SUBSET RuleRow, \A e, f \in rows : e = f,
             Click([view EXCEPT !.editing = rows, !.modal = TRUE])
      PROVE  PageGood
  <2> DEFINE v == [view EXCEPT !.editing = rows, !.modal = TRUE]
  <2>1. /\ DOMAIN v = ViewFields /\ Near(v) /\ v.modal = TRUE
        /\ v.role = view.role /\ v.hurried = view.hurried
        /\ v.generated = view.generated /\ v.owed = view.owed /\ v.editing = rows
    BY <1>2 DEF ViewFields, Near
  <2>2. Click(v)
    BY <1>5
  <2> HIDE DEF v
  <2> QED
    BY <1>2, <1>5, <2>1, <2>2, OtherForm, ClickKind
<1> DEFINE w == [view EXCEPT !.modal = FALSE]
<1>6. Near(w) /\ ViewForm(w, path, changes)
  <2>1. /\ DOMAIN w = ViewFields /\ Near(w) /\ w.modal = FALSE
        /\ w.role = view.role /\ w.hurried = view.hurried
        /\ w.generated = view.generated /\ w.owed = view.owed
        /\ w.editing = view.editing
    BY <1>2 DEF ViewFields, Near
  <2> HIDE DEF w
  <2>2. w.editing \subseteq RuleRow /\ \A e, f \in w.editing : e = f
    BY <1>3, <2>1
  <2> QED
    BY <1>2, <2>1, <2>2, OtherForm
<1>7. ASSUME CloseRule
      PROVE  PageGood
  BY <1>6, <1>7, ClickKind DEF CloseRule, CloseForm
<1> HIDE DEF w
<1>8. /\ OpsOf(path) = {"putRule", "deleteRule"} /\ RefreshOf(path) = {"rules"}
  BY <1>1 DEF OpsOf, RefreshOf
<1>9. ASSUME NEW op \in {"putRule", "deleteRule"}, NEW arg, ArgForm(op, arg),
             Send(Refreshing(op, arg, {"rules"})), Budget, view.phase # "fresh",
             Render(view), Quiet
      PROVE  PageGood
  <2>1. op \in Mutations /\ op \in OpsOf(path)
    BY <1>8, <1>9 DEF Mutations
  <2> QED
    BY <1>2, <1>8, <1>9, <2>1, AskKind DEF Good
<1>10. ASSUME NEW name \in Names, NEW route \in Routes,
              NEW form \in FormOf(view.editing), NEW typed \in Typed(form),
              HandleSaveRule(name, route, form, typed)
       PROVE  PageGood
  <2> DEFINE row == [client |-> name, route |-> Trim[route],
                     content |-> Payload(typed)]
             arg == [row |-> row, edited |-> view.editing,
                     untouched |-> typed = form, behind |-> switched \/ overtaken]
  <2>1. Payload(typed) \in Content /\ Trim[route] \in Routes
    BY <1>3, <1>10, FormContent, TypedContent, TrimAssumption DEF HandleSaveRule
  <2>2. row \in RuleRow
    BY <2>1 DEF RuleRow
  <2>3. /\ arg \in [row : RuleRow, edited : SUBSET RuleRow,
                    untouched : BOOLEAN, behind : BOOLEAN]
    BY <1>3, <2>2 DEF Types, SessionTyped
  <2>4. /\ Send(Refreshing("putRule", arg, {"rules"})) /\ Budget /\ view.phase # "fresh"
        /\ Render(view) /\ Quiet
    BY <1>10 DEF HandleSaveRule, FormShown
  <2> HIDE DEF arg
  <2>5. ArgForm("putRule", arg)
    BY <2>3 DEF ArgForm, Naming, ClientOps
  <2> QED
    BY <1>9, <2>4, <2>5
<1>11. ASSUME NEW row \in view.body["rules"], HandleDeleteRule(row)
       PROVE  PageGood
  <2>1. ArgForm("deleteRule", [row |-> row])
    BY <1>3, <1>11 DEF ArgForm, Naming, ClientOps
  <2> QED
    BY <1>9, <1>11, <2>1 DEF HandleDeleteRule, RowsShown
<1>12. ASSUME NEW s \in Slots, RuleOpAnswered(s)
       PROVE  PageGood
  <2>1. MutationAnswered(s, OpsOf(path))
    BY <1>8, <1>12 DEF RuleOpAnswered
  <2>2. calls[s].at \in 0 .. changes
    BY <2>1, AtOfReply
  <2>3. \/ Caught(s)
        \/ \E v : Near(v) /\ ViewForm(v, path, changes) /\ Changed(s, v)
    BY <1>2, <1>6, <1>12 DEF RuleOpAnswered, Good, w
  <2> QED
    BY <1>2, <2>1, <2>2, <2>3, ReplyKind
<1>13. ASSUME NEW s \in Slots, FetchRateLimits(s)
       PROVE  PageGood
  BY <1>1, <1>2, <1>13, ListKind DEF FetchRateLimits
<1>14. ASSUME OpenAddRule
       PROVE  PageGood
  <2>1. {} \in SUBSET RuleRow /\ \A e, f \in {} : e = f
    OBVIOUS
  <2> QED
    BY <1>5, <1>14, <2>1 DEF OpenAddRule
<1>15. ASSUME NEW row \in view.body["rules"], OpenEditRule(row)
       PROVE  PageGood
  <2>1. {row} \in SUBSET RuleRow /\ \A e, f \in {row} : e = f
    BY <1>3
  <2> QED
    BY <1>5, <1>15, <2>1 DEF OpenEditRule
<1> QED
  BY <1>4, <1>7, <1>10, <1>11, <1>12, <1>13, <1>14, <1>15 DEF RulesPageNext

LEMMA RenderedClients ==
    ASSUME NEW v, NEW n, ViewForm(v, path, n), RenderClients(v)
    PROVE  /\ ViewForm(view', path, n)
           /\ view'.phase \in {v.phase, "fresh"} /\ view'.waiting = v.waiting
           /\ view'.at = v.at /\ view'.must = v.must /\ view'.body = v.body
           /\ view'.excused = v.excused
<1> DEFINE phase == IF IsAdmin(stored) = v.role THEN v.phase ELSE "fresh"
<1>1. /\ DOMAIN v = ViewFields
      /\ view' = [v EXCEPT !.role = IsAdmin(stored), !.phase = phase]
  BY DEF ViewForm, RenderClients
<1>2. phase \in {v.phase, "fresh"} /\ IsAdmin(stored) \in BOOLEAN
  BY DEF IsAdmin
<1> HIDE DEF phase
<1>3. /\ DOMAIN view' = ViewFields
      /\ view'.phase = phase /\ view'.waiting = v.waiting
      /\ view'.at = v.at /\ view'.must = v.must /\ view'.body = v.body
      /\ view'.excused = v.excused /\ view'.by = v.by
      /\ view'.modal = v.modal /\ view'.editing = v.editing
      /\ view'.generated = v.generated /\ view'.owed = v.owed
      /\ view'.hurried = v.hurried /\ view'.role = IsAdmin(stored)
  BY <1>1 DEF ViewFields
<1>4. ViewForm(view', path, n)
  BY <1>2, <1>3 DEF ViewForm
<1> QED
  BY <1>2, <1>3, <1>4

LEMMA LoadedForm ==
    ASSUME NEW v, NEW c, NEW n, ViewForm(v, path, n)
    PROVE  LET w == Loaded(v, c)
           IN  /\ ViewForm(w, path, n) /\ w.at = v.at /\ w.must = v.must
               /\ w.excused = v.excused
               /\ ~ c.load => w.waiting = v.waiting /\ w.phase = v.phase
               /\ c.load => w.waiting = 0 /\ w.phase = "ready"
<1> DEFINE waiting == IF c.load THEN 0 ELSE v.waiting
           phase == IF c.load THEN "ready" ELSE v.phase
           w == [v EXCEPT !.waiting = waiting, !.phase = phase]
<1>1. w = Loaded(v, c)
  BY DEF Loaded
<1>2. DOMAIN v = ViewFields
  BY DEF ViewForm
<1>3. phase \in {"fresh", "loading", "ready"} /\ waiting \in Int
  BY DEF ViewForm
<1>4. /\ ~ c.load => waiting = v.waiting /\ phase = v.phase
      /\ c.load => waiting = 0 /\ phase = "ready"
  OBVIOUS
<1> HIDE DEF phase, waiting
<1>5. /\ DOMAIN w = ViewFields /\ w.phase = phase
      /\ w.waiting = waiting /\ w.must = v.must
      /\ w.excused = v.excused /\ w.at = v.at /\ w.body = v.body
      /\ w.modal = v.modal /\ w.role = v.role /\ w.hurried = v.hurried
      /\ w.generated = v.generated /\ w.owed = v.owed
      /\ w.editing = v.editing
  BY <1>2 DEF ViewFields
<1> HIDE DEF w
<1>6. ViewForm(w, path, n)
  BY <1>3, <1>5 DEF ViewForm
<1> QED
  BY <1>1, <1>4, <1>5, <1>6

LEMMA FetchDataKind ==
    ASSUME CallsForm, CallsTyped, Good, NEW s \in Slots, path = "clients",
           FetchData(s)
    PROVE  PageGood
<1> DEFINE c == calls[s]
<1>1. /\ Answered(s) /\ Live(s) /\ c.op = "list" /\ Consume(s) /\ Quiet
      /\ c.at \in 0 .. changes /\ BodyForm(c.body) /\ c.load \in BOOLEAN
      /\ c.code = "ok" => c.arg.parts \subseteq DOMAIN c.body
  BY RowsThere DEF FetchData, CallTyped
<1>2. ASSUME c.code = "ok", RenderClients(Loaded(Rows(view, c, "clients"), c))
      PROVE  Taken(s) /\ ViewForm(view', path, changes)
  <2> DEFINE v == Rows(view, c, "clients")
             w == Loaded(v, c)
  <2>1. /\ ViewForm(v, path, changes)
        /\ v.phase = view.phase /\ v.waiting = view.waiting
        /\ v.must = view.must /\ v.excused = view.excused
        /\ v.at = IF "clients" \in c.arg.parts THEN c.at ELSE view.at
    BY <1>1, <1>2, RowsForm
  <2> HIDE DEF v
  <2>2. /\ ViewForm(w, path, changes) /\ w.at = v.at /\ w.must = v.must
        /\ w.excused = v.excused
        /\ ~ c.load => w.waiting = v.waiting /\ w.phase = v.phase
        /\ c.load => w.waiting = 0 /\ w.phase = "ready"
    BY <2>1, LoadedForm
  <2>3. RenderClients(w)
    BY <1>2 DEF v
  <2> HIDE DEF w
  <2>4. /\ ViewForm(view', path, changes) /\ view'.phase \in {w.phase, "fresh"}
        /\ view'.waiting = w.waiting /\ view'.must = w.must /\ view'.at = w.at
        /\ view'.excused = w.excused
    BY <2>2, <2>3, RenderedClients
  <2>5. Spins(c)
    BY <1>1, <2>1, <2>2, <2>4 DEF Spins
  <2> QED
    BY <1>1, <1>2, <2>1, <2>2, <2>4, <2>5 DEF Taken, Primary
<1>3. ASSUME c.code = "failed",
             RenderClients([Loaded(view, c) EXCEPT !.excused = TRUE])
      PROVE  Taken(s) /\ ViewForm(view', path, changes)
  <2> DEFINE v == Loaded(view, c)
             w == [v EXCEPT !.excused = TRUE]
  <2>1. /\ ViewForm(v, path, changes) /\ v.at = view.at /\ v.must = view.must
        /\ ~ c.load => v.waiting = view.waiting /\ v.phase = view.phase
        /\ c.load => v.waiting = 0 /\ v.phase = "ready"
    BY LoadedForm DEF Good
  <2> HIDE DEF v
  <2>2. DOMAIN v = ViewFields
    BY <2>1 DEF ViewForm
  <2>3. /\ DOMAIN w = ViewFields /\ w.phase = v.phase
        /\ w.waiting = v.waiting /\ w.must = v.must
        /\ w.excused = TRUE /\ w.at = v.at /\ w.body = v.body
        /\ w.modal = v.modal /\ w.role = v.role /\ w.hurried = v.hurried
        /\ w.generated = v.generated /\ w.owed = v.owed
        /\ w.editing = v.editing
    BY <2>2 DEF ViewFields
  <2>4. RenderClients(w)
    BY <1>3 DEF v
  <2> HIDE DEF w
  <2>5. ViewForm(w, path, changes)
    BY <2>1, <2>3 DEF ViewForm
  <2>6. /\ ViewForm(view', path, changes) /\ view'.phase \in {w.phase, "fresh"}
        /\ view'.waiting = w.waiting /\ view'.must = w.must /\ view'.at = w.at
        /\ view'.excused = w.excused
    BY <2>4, <2>5, RenderedClients
  <2>7. Spins(c)
    BY <1>1, <2>1, <2>3, <2>6 DEF Spins
  <2> QED
    BY <1>1, <1>3, <2>1, <2>3, <2>6, <2>7 DEF Taken
<1>4. Taken(s) /\ ViewForm(view', path, changes)
  BY <1>2, <1>3 DEF FetchData
<1> QED
  BY <1>1, <1>4 DEF PageGood, PageKind

LEMMA ClientsKinds ==
    ASSUME Inv, Types, ClientsPageNext
    PROVE  PageGood
<1>1. auth /\ path = "clients"
  BY DEF ClientsPageNext, On
<1>2. /\ Good /\ changes \in Nat /\ CallsForm /\ CallsTyped
      /\ DOMAIN view = ViewFields /\ Near(view)
      /\ view.modal \in BOOLEAN /\ view.hurried \in BOOLEAN
      /\ view.generated \in Keys \union {NoKey} /\ view.owed \subseteq Keys
  BY <1>1, GoodTypes
<1>3. ASSUME LoadClientsPage
      PROVE  PageGood
  <2> DEFINE loaded(phase, waiting, excused) ==
               [view EXCEPT !.phase = phase, !.waiting = waiting,
                            !.excused = excused]
  <2>1. ASSUME NEW phase \in {"loading", "ready"}, NEW waiting \in Int,
               NEW excused \in BOOLEAN
        PROVE  LET v == loaded(phase, waiting, excused)
               IN  /\ ViewForm(v, path, changes) /\ v.phase = phase
                   /\ v.waiting = waiting /\ v.excused = excused
                   /\ v.at = view.at /\ v.must = view.must /\ v.body = view.body
    <3> DEFINE v == loaded(phase, waiting, excused)
    <3>1. /\ DOMAIN v = ViewFields /\ v.phase = phase /\ v.waiting = waiting
          /\ v.must = view.must /\ v.excused = excused /\ v.at = view.at
          /\ v.body = view.body /\ v.modal = view.modal /\ v.role = view.role
          /\ v.hurried = view.hurried /\ v.generated = view.generated
          /\ v.owed = view.owed /\ v.editing = view.editing
      BY <1>2, <2>1 DEF ViewFields
    <3> HIDE DEF v
    <3>2. ViewForm(v, path, changes)
      BY <1>2, <2>1, <3>1 DEF ViewForm, Good
    <3> QED
      BY <3>1, <3>2 DEF v
  <2>2. CASE /\ Send(Fetch(Parts, TRUE)) /\ Quiet
             /\ view' = [view EXCEPT !.phase = "loading", !.waiting = 1,
                                     !.excused = @ \/ Listing(Parts)]
    <3> DEFINE excused == view.excused \/ Listing(Parts)
    <3>1. excused \in BOOLEAN
      BY <1>2 DEF Good, ViewForm
    <3>2. view' = loaded("loading", 1, excused)
      BY <2>2
    <3> HIDE DEF excused, loaded
    <3>3. /\ ViewForm(view', path, changes) /\ view'.phase = "loading"
          /\ view'.waiting = 1 /\ view'.excused = excused
          /\ view'.at = view.at /\ view'.must = view.must /\ view'.body = view.body
      BY <2>1, <3>1, <3>2
    <3>4. LoadAll
      BY <1>1, <1>3, <2>2, <3>3 DEF LoadAll, LoadClientsPage, KeepsRows, excused
    <3> QED
      BY <2>2, <3>3, <3>4 DEF PageGood, PageKind
  <2>3. CASE /\ UNCHANGED calls /\ Quiet
             /\ view' = [view EXCEPT !.phase = "ready", !.waiting = 0]
    <3>1. view' = loaded("ready", 0, view.excused)
      BY <1>2, <2>3 DEF ViewFields
    <3> HIDE DEF loaded
    <3>2. view.excused \in BOOLEAN
      BY <1>2 DEF Good, ViewForm
    <3>3. /\ ViewForm(view', path, changes) /\ view'.phase = "ready"
          /\ view'.waiting = 0 /\ view'.excused = view.excused
          /\ view'.at = view.at /\ view'.must = view.must /\ view'.body = view.body
      BY <2>1, <3>1, <3>2
    <3>4. LoadNothing
      BY <1>1, <1>3, <2>3, <3>3 DEF LoadNothing, LoadClientsPage, KeepsRows
    <3> QED
      BY <2>3, <3>3, <3>4 DEF PageGood, PageKind
  <2> QED
    BY <1>3, <2>2, <2>3 DEF LoadClientsPage
<1>4. ASSUME NEW v, Near(v), ViewForm(v, path, changes), ClickClients(v)
      PROVE  PageGood
  <2>1. /\ ViewForm(view', path, changes) /\ Looks(view')
        /\ view'.must = view.must /\ view'.excused = view.excused
    BY <1>1, <1>4, RenderedClients DEF ClickClients, Near, Looks
  <2> QED
    BY <1>4, <2>1 DEF ClickClients, PageGood, PageKind, Clicked
<1>5. ASSUME NEW rows, ClickClients([view EXCEPT !.editing = rows, !.modal = TRUE])
      PROVE  PageGood
  <2> DEFINE v == [view EXCEPT !.editing = rows, !.modal = TRUE]
  <2>1. /\ DOMAIN v = ViewFields /\ Near(v) /\ v.modal = TRUE
        /\ v.role = view.role /\ v.hurried = view.hurried
        /\ v.generated = view.generated /\ v.owed = view.owed
    BY <1>2 DEF ViewFields, Near
  <2>2. ClickClients(v)
    BY <1>5
  <2> HIDE DEF v
  <2> QED
    BY <1>1, <1>2, <1>4, <2>1, <2>2, OtherForm
<1> DEFINE w == [view EXCEPT !.modal = FALSE]
<1>6. Near(w) /\ ViewForm(w, path, changes)
  <2>1. /\ DOMAIN w = ViewFields /\ Near(w) /\ w.modal = FALSE
        /\ w.role = view.role /\ w.hurried = view.hurried
        /\ w.generated = view.generated /\ w.owed = view.owed
    BY <1>2 DEF ViewFields, Near
  <2> HIDE DEF w
  <2> QED
    BY <1>1, <1>2, <2>1, OtherForm
<1>7. ASSUME CloseClient
      PROVE  PageGood
  BY <1>4, <1>6, <1>7 DEF CloseClient
<1> HIDE DEF w
<1>8. /\ OpsOf(path) = ClientOps /\ RefreshOf(path) = Parts
  BY <1>1 DEF OpsOf, RefreshOf
<1>9. ASSUME NEW op \in ClientOps, NEW name \in Names,
             Send(Refreshing(op, [name |-> name], Parts)), Budget,
             RenderClients(view), Quiet
      PROVE  PageGood
  <2>1. op \in Mutations /\ op \in OpsOf(path) /\ ArgForm(op, [name |-> name])
    BY <1>8 DEF Mutations, ClientOps, ArgForm, Naming
  <2>2. /\ ViewForm(view', path, changes) /\ Looks(view')
        /\ view'.must = view.must /\ view'.excused = view.excused
    BY <1>1, <1>2, <1>9, RenderedClients DEF Near, Looks, Good
  <2>3. Asked(op, [name |-> name])
    BY <1>1, <1>8, <1>9, <2>1, <2>2 DEF Asked
  <2> QED
    BY <1>9, <2>1, <2>2, <2>3 DEF PageGood, PageKind
<1>10. ASSUME NEW name \in Names, HandleDeleteClient(name)
       PROVE  PageGood
  BY <1>9, <1>10 DEF HandleDeleteClient, ClientOps
<1>11. ASSUME NEW name \in Names, HandleSaveClient(name)
       PROVE  PageGood
  <2> DEFINE op == IF view.editing = {} THEN "createClient" ELSE "updateClient"
  <2>1. /\ Send(Refreshing(op, [name |-> name], Parts)) /\ Budget
        /\ RenderClients(view) /\ Quiet
    BY <1>11 DEF HandleSaveClient
  <2>2. op \in ClientOps
    BY DEF ClientOps
  <2> HIDE DEF op
  <2> QED
    BY <1>9, <2>1, <2>2
<1>12. ASSUME NEW s \in Slots, ClientOpAnswered(s)
       PROVE  PageGood
  <2>1. MutationAnswered(s, OpsOf(path))
    <3>1. OpsOf(path) = {"createClient", "updateClient", "deleteClient"}
      BY <1>8 DEF ClientOps
    <3> QED
      BY <1>12, <3>1 DEF ClientOpAnswered
  <2>2. calls[s].at \in 0 .. changes
    BY <2>1, AtOfReply
  <2>3. ASSUME NEW v, Near(v), ViewForm(v, path, changes), ChangedClients(s, v)
        PROVE  Replied(s) /\ ViewForm(view', path, changes)
    <3> DEFINE u == [v EXCEPT !.must = Larger(@, calls[s].at),
                              !.excused = @ \/ Listing(calls[s].then)]
    <3>1. calls[s].code = "ok" /\ RenderClients(u)
      BY <2>3 DEF ChangedClients
    <3>2. DOMAIN v = ViewFields
      BY <2>3 DEF ViewForm
    <3>3. /\ DOMAIN u = ViewFields
          /\ u.phase = v.phase /\ u.waiting = v.waiting
          /\ u.at = v.at /\ u.must = Larger(v.must, calls[s].at) /\ u.body = v.body
          /\ u.excused = (v.excused \/ Listing(calls[s].then))
          /\ u.modal = v.modal /\ u.editing = v.editing
          /\ u.generated = v.generated /\ u.owed = v.owed
          /\ u.hurried = v.hurried /\ u.role = v.role
      BY <3>2 DEF ViewFields
    <3>4. Larger(v.must, calls[s].at) \in 0 .. changes
      BY <1>2, <2>2, <2>3 DEF Larger, ViewForm
    <3>5. (v.excused \/ Listing(calls[s].then)) \in BOOLEAN
      OBVIOUS
    <3> HIDE DEF u
    <3>6. ViewForm(u, path, changes)
      BY <2>3, <3>3, <3>4, <3>5 DEF ViewForm
    <3>7. /\ ViewForm(view', path, changes)
          /\ view'.phase \in {u.phase, "fresh"} /\ view'.waiting = u.waiting
          /\ view'.at = u.at /\ view'.must = u.must /\ view'.body = u.body
          /\ view'.excused = u.excused
      BY <3>1, <3>6, RenderedClients
    <3>8. /\ Looks(view') /\ view'.must = Larger(view.must, calls[s].at)
      BY <1>1, <2>3, <3>3, <3>7 DEF Looks, Near
    <3>9. view'.excused = (view.excused \/ Listing(calls[s].then))
      BY <2>3, <3>3, <3>7 DEF Near
    <3> QED
      BY <2>1, <3>1, <3>7, <3>8, <3>9 DEF Replied
  <2>4. ASSUME Caught(s)
        PROVE  Replied(s) /\ ViewForm(view', path, changes)
    BY <1>2, <2>1, <2>4 DEF Caught, Replied, Good
  <2>5. Replied(s) /\ ViewForm(view', path, changes)
    BY <1>2, <1>6, <1>12, <2>3, <2>4 DEF ClientOpAnswered, Good, w
  <2> QED
    BY <2>1, <2>5 DEF PageGood, PageKind, MutationAnswered
<1>13. ASSUME NEW s \in Slots, FetchData(s)
       PROVE  PageGood
  BY <1>1, <1>2, <1>13, FetchDataKind
<1>14. ASSUME NEW name \in Names, OpenEditClient(name)
       PROVE  PageGood
  BY <1>5, <1>14 DEF OpenEditClient
<1>15. ASSUME OpenAddClient
       PROVE  PageGood
  BY <1>5, <1>15 DEF OpenAddClient
<1> QED
  BY <1>3, <1>7, <1>10, <1>11, <1>12, <1>13, <1>14, <1>15 DEF ClientsPageNext

LEMMA OverviewKinds ==
    ASSUME Inv, Types, OverviewNext
    PROVE  PageGood
<1>1. auth /\ path = "overview"
  BY DEF OverviewNext, On
<1>2. /\ Good /\ changes \in Nat /\ CallsForm /\ CallsTyped
      /\ DOMAIN view = ViewFields
  BY <1>1, GoodTypes
<1>3. ASSUME LoadOverview
      PROVE  PageGood
  <2> DEFINE v == [view EXCEPT !.phase = "loading", !.waiting = 1]
  <2>1. /\ DOMAIN v = ViewFields /\ v.phase = "loading" /\ v.waiting = 1
        /\ v.must = view.must /\ v.excused = view.excused /\ v.at = view.at
        /\ v.body = view.body /\ v.modal = view.modal /\ v.role = view.role
        /\ v.hurried = view.hurried /\ v.generated = view.generated
        /\ v.owed = view.owed /\ v.editing = view.editing
    BY <1>2 DEF ViewFields
  <2>2. Render(v) /\ Quiet
    BY <1>3 DEF LoadOverview
  <2> HIDE DEF v
  <2>3. ViewForm(v, path, changes)
    BY <1>2, <2>1 DEF ViewForm, Good
  <2>4. LoadAll /\ ViewForm(view', path, changes)
    BY <1>1, <1>3, <2>1, <2>2, <2>3, Rendered DEF LoadAll, LoadOverview, KeepsRows
  <2> QED
    BY <2>2, <2>4 DEF PageGood, PageKind
<1>4. ASSUME Refresh
      PROVE  PageGood
  <2> DEFINE excused == view.excused \/ Listing(Parts)
             v == [view EXCEPT !.excused = excused]
  <2>1. excused \in BOOLEAN
    BY <1>2 DEF Good, ViewForm
  <2>2. Render(v) /\ Quiet
    BY <1>4 DEF Refresh
  <2> HIDE DEF excused
  <2>3. /\ DOMAIN v = ViewFields /\ v.phase = view.phase
        /\ v.waiting = view.waiting
        /\ v.must = view.must /\ v.excused = excused /\ v.at = view.at
        /\ v.body = view.body /\ v.modal = view.modal /\ v.role = view.role
        /\ v.hurried = view.hurried /\ v.generated = view.generated
        /\ v.owed = view.owed /\ v.editing = view.editing
    BY <1>2 DEF ViewFields
  <2> HIDE DEF v
  <2>4. ViewForm(v, path, changes)
    BY <1>2, <2>1, <2>3 DEF ViewForm, Good
  <2>5. /\ ViewForm(view', path, changes) /\ view'.phase = view.phase
        /\ view'.waiting = view.waiting /\ KeepsRows /\ view'.excused = excused
    BY <2>2, <2>3, <2>4, Rendered DEF KeepsRows
  <2>6. LoadAgain
    BY <1>1, <1>4, <2>5 DEF LoadAgain, Refresh, excused
  <2> QED
    BY <2>2, <2>5, <2>6 DEF PageGood, PageKind
<1>5. ASSUME NEW s \in Slots, FirstStage(s)
      PROVE  PageGood
  BY <1>1, <1>2, <1>5 DEF FirstStage, Good, PageGood, PageKind
<1>6. ASSUME NEW s \in Slots, SecondStage(s)
      PROVE  PageGood
  <2> DEFINE c == calls[s]
             body == [p \in Parts |-> IF p \in DOMAIN c.body THEN c.body[p] ELSE {}]
             counted == [c EXCEPT !.arg.parts = Parts, !.body = body]
  <2>1. /\ Answered(s) /\ Live(s) /\ c.op = "list" /\ c.then = {} /\ Consume(s)
        /\ Quiet
    BY <1>6 DEF SecondStage
  <2>2. /\ DOMAIN c = Fields /\ CallTyped(c, changes)
        /\ c.at \in 0 .. changes /\ BodyForm(c.body)
    BY <1>2, <2>1, RowsThere
  <2>3. c.arg \in [parts : SUBSET Parts]
    BY <2>1, <2>2 DEF CallTyped, ArgForm
  <2>4. DOMAIN body = Parts /\ BodyForm(body)
    BY <2>2 DEF BodyForm, Parts
  <2> HIDE DEF body
  <2>5. /\ counted.at = c.at /\ counted.arg.parts = Parts /\ counted.body = body
        /\ counted.key = c.key
    BY <2>2, <2>3 DEF Fields
  <2>6. \/ c.code = "ok" /\ Render(Awaited(Rows(view, counted, "keys"), c))
        \/ c.code = "failed" /\ Render(Awaited(view, c))
    BY <1>6 DEF SecondStage, body
  <2> HIDE DEF counted
  <2>7. ASSUME c.code = "ok", Render(Awaited(Rows(view, counted, "keys"), c))
        PROVE  Taken(s) /\ ViewForm(view', path, changes)
    <3> DEFINE v == Rows(view, counted, "keys")
               w == Awaited(v, c)
    <3>1. "keys" \in counted.arg.parts
      BY <2>5 DEF Parts
    <3>2. /\ ViewForm(v, path, changes)
          /\ v.phase = view.phase /\ v.waiting = view.waiting
          /\ v.must = view.must /\ v.excused = view.excused /\ v.at = c.at
      <4>1. /\ counted.at \in 0 .. changes /\ BodyForm(counted.body)
            /\ counted.arg.parts \subseteq DOMAIN counted.body
        BY <2>2, <2>4, <2>5
      <4>2. /\ ViewForm(v, path, changes)
            /\ v.phase = view.phase /\ v.waiting = view.waiting
            /\ v.must = view.must /\ v.excused = view.excused
            /\ v.at = IF "keys" \in counted.arg.parts THEN counted.at ELSE view.at
        BY <1>2, <4>1, RowsForm
      <4> HIDE DEF v
      <4> QED
        BY <2>5, <3>1, <4>2
    <3> HIDE DEF v
    <3>3. /\ ViewForm(w, path, changes) /\ w.at = v.at /\ w.must = v.must
          /\ w.excused = v.excused
          /\ ~ c.load => w.waiting = v.waiting /\ w.phase = v.phase
          /\ c.load => /\ w.waiting = v.waiting - 1
                       /\ w.phase = IF v.waiting = 1 THEN "ready" ELSE v.phase
      BY <3>2, AwaitedForm
    <3>4. Render(w)
      BY <2>7 DEF v
    <3> HIDE DEF w
    <3>5. /\ ViewForm(view', path, changes) /\ view'.phase = w.phase
          /\ view'.waiting = w.waiting /\ view'.must = w.must /\ view'.at = w.at
          /\ view'.excused = w.excused
      BY <3>3, <3>4, Rendered
    <3>6. Spins(c)
      BY <1>1, <3>2, <3>3, <3>5 DEF Spins
    <3> QED
      BY <1>1, <2>1, <2>7, <3>2, <3>3, <3>5, <3>6 DEF Taken, Primary
  <2>8. ASSUME c.code = "failed", Render(Awaited(view, c))
        PROVE  Taken(s) /\ ViewForm(view', path, changes)
    <3> DEFINE w == Awaited(view, c)
    <3>1. /\ ViewForm(w, path, changes) /\ w.at = view.at /\ w.must = view.must
          /\ w.excused = view.excused
          /\ ~ c.load => w.waiting = view.waiting /\ w.phase = view.phase
          /\ c.load => /\ w.waiting = view.waiting - 1
                       /\ w.phase = IF view.waiting = 1 THEN "ready" ELSE view.phase
      BY <1>2, AwaitedForm DEF Good
    <3>2. Render(w)
      BY <2>8
    <3> HIDE DEF w
    <3>3. /\ ViewForm(view', path, changes) /\ view'.phase = w.phase
          /\ view'.waiting = w.waiting /\ view'.must = w.must /\ view'.at = w.at
          /\ view'.excused = w.excused
      BY <3>1, <3>2, Rendered
    <3>4. Spins(c)
      BY <1>1, <3>1, <3>3 DEF Spins
    <3> QED
      BY <1>1, <2>1, <2>8, <3>1, <3>3, <3>4 DEF Taken
  <2>9. Taken(s) /\ ViewForm(view', path, changes)
    BY <2>6, <2>7, <2>8
  <2> QED
    BY <2>1, <2>9 DEF PageGood, PageKind
<1> QED
  BY <1>3, <1>4, <1>5, <1>6 DEF OverviewNext

PageNext == KeysPageNext \/ RulesPageNext \/ ClientsPageNext \/ OverviewNext

LEMMA PageKinds ==
    ASSUME Inv, Types, PageNext
    PROVE  PageGood /\ auth
<1>1. auth
  BY DEF PageNext, KeysPageNext, RulesPageNext, ClientsPageNext, OverviewNext, On
<1>2. PageGood
  BY KeysKinds, RulesKinds, ClientsKinds, OverviewKinds DEF PageNext
<1> QED
  BY <1>1, <1>2

\* One call, or two, are sent by a page.
LEMMA SendTypes ==
    ASSUME Inv, Types, UNCHANGED <<limits, changes>>, NEW c,
           CallTyped(c, changes), Pends(c) => Budget, Send(c)
    PROVE  CallsTyped' /\ Within'
<1>1. PICK s \in Slots : Idle(s) /\ calls' = [calls EXCEPT ![s] = c]
  BY DEF Send
<1>2. /\ DOMAIN calls' = Slots /\ calls'[s] = c
      /\ \A t \in Slots : t # s => calls'[t] = calls[t]
  BY <1>1, OneSlot DEF Inv
<1>3. CallsTyped'
  BY <1>2 DEF Types, CallsTyped
<1>4. \A t \in Slots : t # s /\ Pends(calls'[t]) => Pends(calls[t])
  BY <1>2
<1>5. CASE Pends(c)
  BY <1>3, <1>4, <1>5, OneAsked DEF Types
<1>6. CASE ~ Pends(c)
  <2>1. \A t \in Slots : Pends(calls'[t]) => Pends(calls[t])
    BY <1>2, <1>6
  <2> QED
    BY <1>3, <2>1, NoneAsked DEF Types
<1> QED
  BY <1>5, <1>6

LEMMA SendBothTypes ==
    ASSUME Inv, Types, UNCHANGED <<limits, changes>>, NEW c, NEW d,
           CallTyped(c, changes), CallTyped(d, changes), ~ Pends(c), ~ Pends(d),
           SendBoth(c, d)
    PROVE  CallsTyped' /\ Within'
<1>1. PICK s \in Slots, t \in Slots :
         /\ s # t /\ Idle(s) /\ Idle(t)
         /\ calls' = [calls EXCEPT ![s] = c, ![t] = d]
  BY DEF SendBoth
<1>2. \A r \in Slots : calls'[r] = calls[r] \/ calls'[r] \in {c, d}
  BY <1>1 DEF Inv, CallsForm
<1>3. CallsTyped'
  BY <1>2 DEF Types, CallsTyped
<1>4. \A r \in Slots : Pends(calls'[r]) => Pends(calls[r])
  BY <1>2
<1> QED
  BY <1>3, <1>4, NoneAsked DEF Types

LEMMA LoadStatsTyped ==
    ASSUME Types, NEW load \in BOOLEAN
    PROVE  CallTyped(LoadStats(load), changes) /\ ~ Pends(LoadStats(load))
<1>1. {"clients"} \in SUBSET Parts /\ Counted \in SUBSET Parts
  BY DEF Counted, Parts
<1>2. stored \in Keys \union {NoKey} /\ changes \in Nat
  BY DEF Types, SessionTyped, CountsTyped
<1>3. CallTyped(LoadStats(load), changes)
  BY <1>1, <1>2, FetchFresh DEF LoadStats
<1>4. LoadStats(load).op = "list"
  BY DEF LoadStats, Fetch, Call
<1> QED
  BY <1>3, <1>4 DEF Pends, Mutations

LEMMA FetchTyped ==
    ASSUME Types, NEW parts \in SUBSET Parts
    PROVE  CallTyped(Fetch(parts, TRUE), changes) /\ ~ Pends(Fetch(parts, TRUE))
<1>1. stored \in Keys \union {NoKey} /\ changes \in Nat
  BY DEF Types, SessionTyped, CountsTyped
<1>2. Fetch(parts, TRUE).op = "list"
  BY DEF Fetch, Call
<1> QED
  BY <1>1, <1>2, FetchFresh DEF Pends, Mutations

LEMMA PageTypes ==
    ASSUME Inv, Types, PageNext
    PROVE  Types'
<1>1. PageKind /\ Quiet /\ ViewForm(view', path, changes) /\ auth
  BY PageKinds DEF PageGood
<1>2. UNCHANGED <<limits, stored, changes, session>> /\ SameTables
  BY <1>1 DEF Quiet, SameTables, tables
<1>3. stored \in Keys \union {NoKey} /\ changes \in Nat /\ path \in limits.pages
  BY <1>1 DEF Types, SessionTyped, CountsTyped, Inv, Shows, Here
<1>4. RefreshOf(path) \in SUBSET Parts \/ path = "overview"
  BY <1>3, LimitsAssumption DEF RefreshOf, Parts, Inv, Shows
<1>5. CallsTyped' /\ Within'
  <2>1. CASE UNCHANGED calls
    BY <1>2, <2>1, CallsStayTyped DEF Types
  <2>2. CASE LoadRows
    <3>1. {path} \in SUBSET Parts /\ {"clients"} \in SUBSET Parts
      BY <2>2 DEF LoadRows, Parts
    <3> QED
      BY <1>2, <2>2, <3>1, FetchTyped, SendBothTypes DEF LoadRows
  <2>3. CASE LoadAll \/ LoadAgain
    <3>1. \E c : Send(c) /\ CallTyped(c, changes) /\ ~ Pends(c)
      <4>1. Parts \in SUBSET Parts
        OBVIOUS
      <4> QED
        BY <2>3, <4>1, FetchTyped, LoadStatsTyped DEF LoadAll, LoadAgain
    <3> QED
      BY <1>2, <3>1, SendTypes
  <2>4. ASSUME NEW op \in Mutations, NEW arg, Asked(op, arg)
        PROVE  CallsTyped' /\ Within'
    <3>1. path # "overview"
      BY <2>4 DEF Asked, OpsOf
    <3>2. RefreshOf(path) \in SUBSET Parts
      BY <1>4, <3>1
    <3>3. CallTyped(Refreshing(op, arg, RefreshOf(path)), changes)
      BY <1>3, <2>4, <3>2, CallFresh DEF Asked
    <3> QED
      BY <1>2, <2>4, <3>3, SendTypes DEF Asked
  <2>5. ASSUME NEW s \in Slots, Consume(s), ~ Idle(s)
        PROVE  CallsTyped' /\ Within'
    BY <1>2, <1>3, <2>5, FollowTypes DEF Inv, Types
  <2> QED
    BY <1>1, <2>1, <2>2, <2>3, <2>4, <2>5
    DEF PageKind, Clicked, LoadNothing, Replied, Taken, FirstStage,
        MutationAnswered, Answered
<1>6. TablesTyped' /\ CountsTyped'
  BY <1>2, <1>5, TablesStay DEF Types
<1>7. SessionTyped' /\ ViewTyped'
  BY <1>1, <1>2 DEF Types, SessionTyped, ViewTyped, session
<1> QED
  BY <1>5, <1>6, <1>7 DEF Types

-----------------------------------------------------------------------------
(* Types are kept. *)

LEMMA TypesInit == Init => Types
<1> SUFFICES ASSUME Init
             PROVE  Types
  OBVIOUS
<1>1. calls = [s \in Slots |-> NoCall] /\ changes = 0 /\ failures = 0
  BY DEF Init, ApiInit
<1>2. CallsTyped
  BY <1>1 DEF CallsTyped
<1>3. PICK limit \in Limits : limit = limits
  BY DEF Init, ApiInit
<1>4. /\ DOMAIN limits.owner \subseteq Keys
      /\ \A k \in DOMAIN limits.owner : limits.owner[k] \in Names
      /\ limits.changes \in Nat /\ limits.failures \in Nat
      /\ limits.switches \in Nat /\ limits.routes \subseteq Routes
  BY <1>3, LimitsAssumption
<1>5. CountsTyped
  <2>1. Pending = {}
    BY <1>1 DEF Pending, NoCall, Mutations
  <2>2. IsFiniteSet(Pending) /\ Cardinality(Pending) = 0
    BY <2>1, FS_EmptySet
  <2>3. changes + Cardinality(Pending) <= limits.changes
    BY <1>1, <1>4, <2>2
  <2> QED
    BY <1>1, <1>4, <2>2, <2>3 DEF CountsTyped, Within
<1>6. TablesTyped
  <2>1. /\ issued = DOMAIN limits.owner
        /\ apiKeys = {[key |-> k, owner |-> limits.owner[k], active |-> TRUE] :
                         k \in issued}
        /\ clients = {Default} \union {row.owner : row \in apiKeys}
        /\ rules = {[client |-> c, route |-> r,
                     content |-> IF c \in Windowed THEN Window(100, 5)
                                 ELSE Bucket(100, 1, 10, 60)] :
                       c \in clients, r \in limits.routes}
    BY DEF Init, ApiInit
  <2>2. /\ apiKeys \subseteq KeyRow
        /\ \A row \in apiKeys :
              /\ row.key \in issued
              /\ row = [key |-> row.key, owner |-> limits.owner[row.key],
                        active |-> TRUE]
    <3>1. ASSUME NEW row \in apiKeys
          PROVE  /\ row \in KeyRow /\ row.key \in issued
                 /\ row = [key |-> row.key, owner |-> limits.owner[row.key],
                           active |-> TRUE]
      <4>1. PICK k \in issued :
               row = [key |-> k, owner |-> limits.owner[k], active |-> TRUE]
        BY <2>1
      <4>2. row.key = k
        BY <4>1
      <4>3. k \in Keys /\ limits.owner[k] \in Names
        BY <1>4, <2>1
      <4> QED
        BY <4>1, <4>2, <4>3 DEF KeyRow
    <3> QED
      BY <3>1
  <2>3. \A r1, r2 \in apiKeys : r1.key = r2.key => r1 = r2
    BY <2>2
  <2>4. clients \subseteq Names
    BY <2>1, <2>2, ApiAssumption DEF KeyRow
  <2>5. ASSUME NEW row \in rules
        PROVE  row \in RuleRow /\ row.client \in clients
    <3>1. PICK c \in clients, r \in limits.routes :
             row = [client |-> c, route |-> r,
                    content |-> IF c \in Windowed THEN Window(100, 5)
                                ELSE Bucket(100, 1, 10, 60)]
      BY <2>1
    <3>2. (IF c \in Windowed THEN Window(100, 5) ELSE Bucket(100, 1, 10, 60))
             \in Content
      BY FirstContent
    <3> QED
      BY <1>4, <2>4, <3>1, <3>2 DEF RuleRow
  <2>6. \A r1, r2 \in rules :
           r1.client = r2.client /\ r1.route = r2.route => r1 = r2
    BY <2>1
  <2>7. \A row \in apiKeys : row.owner \in clients
    BY <2>1
  <2> QED
    BY <1>4, <2>1, <2>2, <2>3, <2>4, <2>5, <2>6, <2>7 DEF TablesTyped, Same
<1>7. SessionTyped
  <2>1. switches \in 0 .. limits.switches
    BY <1>4 DEF Init, SessionInit
  <2>2. /\ stored = NoKey /\ path = "landing" /\ authMode = "login"
        /\ registeredKey = NoKey /\ switched = FALSE /\ overtaken = FALSE
    BY DEF Init, ApiInit, SessionInit
  <2> QED
    BY <2>1, <2>2 DEF SessionTyped
<1>8. ViewTyped
  BY DEF ViewTyped, Init, SessionInit
<1> QED
  BY <1>2, <1>5, <1>6, <1>7, <1>8 DEF Types

\* A step outside of the page.
LEMMA FrameSteps ==
    ASSUME Inv, Types, [Next]_vars, ~ PageNext
    PROVE  Types' /\ Frame
<1>1. CASE SessionNext
  BY <1>1, SessionTypes
<1>2. CASE (Server \/ \E s \in Slots : DeadAnswer(s)) /\ UNCHANGED <<session, view>>
  BY <1>2, ServedTypes, DeadTypes
<1>3. CASE UNCHANGED vars
  <2>1. Types'
    BY <1>3
    DEF vars, apiVars, tables, session, Types, CallsTyped, TablesTyped,
        CountsTyped, SessionTyped, ViewTyped, Within, Pending, Same
  <2>2. auth' = FALSE \/ Serving
    BY <1>3
    DEF vars, apiVars, tables, session, Inv, Shows, Serving, Undisturbed, Types,
        CountsTyped
  <2> QED
    BY <2>1, <2>2 DEF Frame
<1> QED
  BY <1>1, <1>2, <1>3 DEF Next, PageNext

LEMMA TypesStep == Inv /\ Types /\ [Next]_vars => Types'
  BY FrameSteps, PageTypes

\* Types and the tables' keys, for every number of calls in flight (the rows of
\* the four tables of scripts/setup.sql, the answers of the endpoints and the
\* state of the pages).
THEOREM Typing == Spec => []TypeOK
<1>1. ASSUME Inv, Types
      PROVE  TypeOK
  <2>1. ASSUME NEW s \in Slots, ~ Idle(s)
        PROVE  /\ calls[s].op \in Mutations \union {"list", "login"}
               /\ calls[s].code \in {"sent", "ok", "failed", "unauthorized"}
               /\ calls[s].key \in Keys \union {NoKey}
               /\ calls[s].live \in BOOLEAN
    <3>1. CallTyped(calls[s], changes) /\ calls[s] # NoCall
      BY <1>1, <2>1, Busy DEF Inv, Types
    <3> QED
      BY <1>1, <3>1 DEF CallTyped, Inv, CallsForm, CallForm
  <2>2. /\ {row.key : row \in apiKeys} \subseteq issued
        /\ {row.owner : row \in apiKeys} \union {row.client : row \in rules}
              \subseteq clients
    BY <1>1 DEF Types, TablesTyped
  <2>3. changes \in 0..limits.changes /\ failures \in 0..limits.failures
    <3>1. IsFiniteSet(Pending) /\ changes + Cardinality(Pending) <= limits.changes
      BY <1>1 DEF Types, CountsTyped, Within
    <3>2. Cardinality(Pending) \in Nat
      BY <3>1, FS_CardinalityType
    <3> QED
      BY <1>1, <3>1, <3>2 DEF Types, CountsTyped
  <2>4. ASSUME view # Nothing
        PROVE  /\ view.phase \in {"fresh", "loading", "ready"}
               /\ view.body["keys"] \subseteq ListedRow
               /\ view.body["clients"] \subseteq Names
               /\ view.body["rules"] \subseteq RuleRow
               /\ view.generated \in Keys \union {NoKey}
    <3>1. ViewForm(view, path, changes)
      BY <1>1, <2>4 DEF Inv, Shows, Types, ViewTyped
    <3> QED
      BY <3>1 DEF ViewForm, BodyForm, Parts
  <2>5. auth \in BOOLEAN /\ isVerifying \in BOOLEAN
    BY <1>1 DEF Inv, Shows, Verified
  <2> QED
    BY <1>1, <2>1, <2>2, <2>3, <2>4, <2>5
    DEF TypeOK, Types, TablesTyped, SessionTyped
<1>2. Init => Inv /\ Types
  BY InvInit, TypesInit
<1>3. Inv /\ Types /\ [Next]_vars => (Inv /\ Types)'
  BY InvStep, TypesStep
<1> QED
  BY <1>1, <1>2, <1>3, PTL DEF Spec

-----------------------------------------------------------------------------
(* How the calls of a page move. *)

\* A list that the page has just asked for.
JustSent(c, parts, load, then) ==
    /\ c.op = "list" /\ c.live = TRUE /\ c.arg = [parts |-> parts]
    /\ c.body = <<>> /\ c.load = load /\ c.then = then

\* What follows the call c while its component is there.
Follows(c, d) ==
    /\ d.op = "list" /\ d.live = TRUE /\ d.arg = [parts |-> c.then]
    /\ d.body = (IF c.code = "ok" THEN c.body ELSE <<>>)
    /\ d.load = c.load /\ d.then = {}

OthersStay(s) == \A t \in Slots : t # s => calls'[t] = calls[t]

LEMMA IdleCall ==
    ASSUME NEW s, Idle(s)
    PROVE  ~ PageCall(calls[s])
  BY DEF Idle, PageCall

LEMMA SentOne ==
    ASSUME CallsForm, NEW c, Send(c)
    PROVE  \E s \in Slots : ~ PageCall(calls[s]) /\ calls'[s] = c /\ OthersStay(s)
<1>1. PICK s \in Slots : Idle(s) /\ calls' = [calls EXCEPT ![s] = c]
  BY DEF Send
<1> QED
  BY <1>1, OneSlot, IdleCall DEF OthersStay

LEMMA SentTwo ==
    ASSUME CallsForm, NEW c, NEW d, SendBoth(c, d)
    PROVE  \E s, t \in Slots :
              /\ s # t /\ calls'[s] = c /\ calls'[t] = d
              /\ \A r \in Slots \ {s, t} : calls'[r] = calls[r]
<1>1. PICK s \in Slots, t \in Slots :
         /\ s # t /\ Idle(s) /\ Idle(t)
         /\ calls' = [calls EXCEPT ![s] = c, ![t] = d]
  BY DEF SendBoth
<1>2. /\ calls'[s] = c /\ calls'[t] = d
      /\ \A r \in Slots \ {s, t} : calls'[r] = calls[r]
  BY <1>1 DEF CallsForm
<1> QED
  BY <1>1, <1>2

LEMMA Consumed ==
    ASSUME CallsForm, NEW s \in Slots, Live(s), Consume(s)
    PROVE  /\ OthersStay(s) /\ calls[s].live = TRUE
           /\ ~ GoesOn(calls[s]) => calls'[s] = NoCall
           /\ GoesOn(calls[s]) => Follows(calls[s], calls'[s])
<1> DEFINE c == calls[s]
           body == IF c.code = "ok" THEN c.body ELSE <<>>
           next == [Fetch(c.then, c.load) EXCEPT !.key = stored, !.body = body]
<1>1. calls' = [calls EXCEPT ![s] = FollowUp(s, stored)]
  BY DEF Consume
<1>2. c.live = TRUE
  BY NoCallForm DEF Live, Idle, CallsForm, CallForm
<1>3. FollowUp(s, stored) = IF GoesOn(c) THEN next ELSE NoCall
  BY <1>2 DEF FollowUp
<1> HIDE DEF body
<1>4. /\ next.op = "list" /\ next.live = TRUE /\ next.arg = [parts |-> c.then]
      /\ next.body = body /\ next.load = c.load /\ next.then = {}
  BY DEF Fetch, Call
<1> HIDE DEF next
<1>5. calls'[s] = FollowUp(s, stored) /\ OthersStay(s)
  BY <1>1, OneSlot DEF OthersStay
<1> QED
  BY <1>2, <1>3, <1>4, <1>5 DEF Follows, body

LEMMA FetchListing ==
    ASSUME NEW parts, NEW load
    PROVE  /\ JustSent(Fetch(parts, load), parts, load, {})
           /\ \A then : JustSent([Fetch(parts, load) EXCEPT !.then = then],
                                 parts, load, then)
  BY DEF JustSent, Fetch, Call

-----------------------------------------------------------------------------
(* What the calls of a page are for. *)

\* The lists of a page, and what is fetched after them.
ListForm(p, parts, then) ==
    \/ p \in {"keys", "rules"} /\ parts \in {{p}, {"clients"}} /\ then = {}
    \/ p = "clients" /\ parts = Parts /\ then = {}
    \/ p = "overview" /\ parts = {"clients"} /\ then = Counted
    \/ p = "overview" /\ parts = Counted /\ then = {}

PageForm(p, c) ==
    \/ /\ c.op = "list" /\ ListForm(p, c.arg.parts, c.then)
       /\ c.then # {} => DOMAIN c.body \subseteq c.arg.parts
    \/ c.op # "list" /\ c.op \in OpsOf(p) /\ c.then = RefreshOf(p)

PageForms == auth => \A s \in Slots : PageCall(calls[s]) => PageForm(path, calls[s])

LEMMA ListingForm ==
    ASSUME NEW p, NEW c, NEW parts, NEW load, NEW then,
           JustSent(c, parts, load, then), ListForm(p, parts, then)
    PROVE  PageForm(p, c)
  BY NoBody DEF JustSent, PageForm

LEMMA StatsForm ==
    ASSUME NEW load
    PROVE  \E parts, then : /\ JustSent(LoadStats(load), parts, load, then)
                            /\ ListForm("overview", parts, then)
  BY FetchListing DEF LoadStats, ListForm

LEMMA FollowForm ==
    ASSUME NEW p \in {"overview", "keys", "rules", "clients"}, NEW c, NEW d,
           PageForm(p, c), c.then # {}, Follows(c, d)
    PROVE  PageForm(p, d)
<1>1. CASE c.op = "list" /\ ListForm(p, c.arg.parts, c.then)
  <2>1. p = "overview" /\ c.then = Counted
    BY <1>1 DEF ListForm
  <2> QED
    BY <2>1 DEF ListForm, Follows, PageForm
<1>2. CASE c.op \in OpsOf(p) /\ c.then = RefreshOf(p)
  <2>1. p \in {"keys", "rules", "clients"}
    BY <1>2 DEF OpsOf
  <2>2. ListForm(p, RefreshOf(p), {})
    BY <2>1 DEF ListForm, RefreshOf
  <2> QED
    BY <1>2, <2>2 DEF Follows, PageForm
<1> QED
  BY <1>1, <1>2 DEF PageForm

\* The server reads one list more.
LEMMA OneListMore ==
    ASSUME CallsForm, NEW s \in Slots, ~ Idle(s), NEW part \in Parts,
           ServeList(s, part)
    PROVE  /\ part \in calls[s].arg.parts
           /\ calls'[s].body =
                 [p \in DOMAIN calls[s].body \union {part} |->
                     IF p = part THEN Listed(p, calls[s].key)
                                 ELSE calls[s].body[p]]
           /\ calls'[s].at =
                 IF calls[s].arg.parts \intersect DOMAIN calls[s].body = {}
                   THEN changes ELSE calls[s].at
<1> DEFINE c == calls[s]
           read == DOMAIN c.body \union {part}
           body == [p \in read |-> IF p = part THEN Listed(p, c.key)
                                               ELSE c.body[p]]
           at == IF c.arg.parts \intersect DOMAIN c.body = {}
                   THEN changes ELSE c.at
           code == IF c.arg.parts \subseteq read THEN "ok" ELSE "sent"
           d == [c EXCEPT !.body = body, !.at = at, !.code = code]
<1>1. calls' = [calls EXCEPT ![s] = d] /\ part \in c.arg.parts
  BY DEF ServeList
<1>2. DOMAIN c = Fields
  BY NoCallForm DEF Idle, CallsForm, CallForm
<1> HIDE DEF body, at, code
<1>3. d.body = body /\ d.at = at
  BY <1>2 DEF Fields
<1> HIDE DEF d
<1>4. calls'[s] = d
  BY <1>1, OneSlot
<1> QED
  BY <1>1, <1>3, <1>4 DEF body, at

LEMMA ServedForm ==
    ASSUME CallsForm, NEW p, NEW s \in Slots, ServedAt(s), PageForm(p, calls[s])
    PROVE  PageForm(p, calls'[s])
<1> DEFINE c == calls[s]
           d == calls'[s]
<1>1. /\ ~ Idle(s)
      /\ d.op = c.op /\ d.arg = c.arg /\ d.then = c.then
      /\ c.op = "list" => \/ d.body = c.body
                          \/ \E part \in Parts : ServeList(s, part)
  BY DEF ServedAt, Served
<1>2. ASSUME c.op = "list"
      PROVE  \/ DOMAIN d.body = DOMAIN c.body
             \/ \E part \in c.arg.parts : DOMAIN d.body = DOMAIN c.body \union {part}
  <2>1. ASSUME NEW part \in Parts, ServeList(s, part)
        PROVE  part \in c.arg.parts /\ DOMAIN d.body = DOMAIN c.body \union {part}
    BY <1>1, <2>1, OneListMore
  <2> QED
    BY <1>1, <1>2, <2>1
<1>3. CASE c.op = "list"
  BY <1>1, <1>2, <1>3 DEF PageForm
<1>4. CASE c.op # "list"
  BY <1>1, <1>4 DEF PageForm
<1> QED
  BY <1>3, <1>4

\* Frame steps.
LEMMA FormsFrame ==
    ASSUME Inv, PageForms, Frame
    PROVE  PageForms'
<1>1. CASE auth' = FALSE
  BY <1>1 DEF PageForms
<1>2. CASE Anew
  BY <1>2 DEF PageForms, Anew
<1>3. CASE Serving
  BY <1>3, ServedForm DEF PageForms, Serving, Inv
<1> QED
  BY <1>1, <1>2, <1>3 DEF Frame

LEMMA FormsPage ==
    ASSUME Inv, Types, PageForms, PageNext
    PROVE  PageForms'
<1>1. /\ PageKind /\ auth /\ UNCHANGED <<path, auth>>
      /\ path \in {"overview", "keys", "rules", "clients"}
  <2>1. PageGood /\ auth
    BY PageKinds
  <2>2. Here /\ limits \in Limits /\ path \in limits.pages \union {"landing"}
    BY <2>1 DEF Inv, Shows, Types, SessionTyped
  <2> QED
    BY <2>1, <2>2, LimitsAssumption DEF PageGood, Quiet, session, Here
<1> USE DEF Inv
<1>2. \A s \in Slots : calls'[s] = calls[s] /\ PageCall(calls'[s])
                          => PageForm(path, calls'[s])
  BY <1>1 DEF PageForms
<1> DEFINE Goal(s) == PageCall(calls'[s]) => PageForm(path, calls'[s])
<1>3. ASSUME NEW c, Send(c), PageForm(path, c)
      PROVE  \A s \in Slots : Goal(s)
  BY <1>2, <1>3, SentOne DEF OthersStay
<1>4. ASSUME NEW s \in Slots, Live(s), PageCall(calls[s]), Consume(s)
      PROVE  \A t \in Slots : Goal(t)
  <2>1. ~ PageCall(NoCall)
    BY NoCallForm DEF PageCall
  <2>2. GoesOn(calls[s]) => PageForm(path, calls'[s])
    BY <1>1, <1>4, Consumed, FollowForm DEF PageForms, GoesOn
  <2>3. Goal(s)
    BY <1>4, <2>1, <2>2, Consumed
  <2> QED
    BY <1>2, <1>4, <2>3, Consumed DEF OthersStay
<1>5. ASSUME UNCHANGED calls
      PROVE  \A s \in Slots : Goal(s)
  BY <1>2, <1>5 DEF PageForms
<1>6. ASSUME NEW op \in Mutations, NEW arg, Asked(op, arg)
      PROVE  \A s \in Slots : Goal(s)
  <2> DEFINE c == Refreshing(op, arg, RefreshOf(path))
  <2>1. PageForm(path, c)
    <3>1. c.op = op /\ c.then = RefreshOf(path)
      BY DEF Refreshing, Call
    <3>2. op # "list" /\ op \in OpsOf(path)
      BY <1>6 DEF Asked, Mutations
    <3> HIDE DEF c
    <3> QED
      BY <3>1, <3>2 DEF PageForm
  <2> QED
    BY <1>3, <1>6, <2>1 DEF Asked
<1>7. ASSUME LoadRows
      PROVE  \A s \in Slots : Goal(s)
  <2> DEFINE c == Fetch({path}, TRUE)
             d == Fetch({"clients"}, TRUE)
  <2>1. PageForm(path, c) /\ PageForm(path, d) /\ SendBoth(c, d)
    BY <1>7, FetchListing, ListingForm DEF LoadRows, ListForm
  <2> HIDE DEF c, d
  <2>2. PICK s \in Slots, t \in Slots :
           /\ calls'[s] = c /\ calls'[t] = d
           /\ \A r \in Slots \ {s, t} : calls'[r] = calls[r]
    BY <2>1, SentTwo
  <2>3. Goal(s) /\ Goal(t) /\ \A r \in Slots \ {s, t} : Goal(r)
    BY <1>2, <2>1, <2>2
  <2> QED
    BY <2>3
<1>8. ASSUME LoadAll \/ LoadAgain
      PROVE  \A s \in Slots : Goal(s)
  <2>1. /\ path = "clients" => PageForm(path, Fetch(Parts, TRUE))
        /\ path = "overview" => \A load : PageForm(path, LoadStats(load))
    <3>1. path = "clients" => PageForm(path, Fetch(Parts, TRUE))
      BY FetchListing, ListingForm DEF ListForm
    <3>2. ASSUME path = "overview", NEW load
          PROVE  PageForm(path, LoadStats(load))
      BY <3>2, StatsForm, ListingForm
    <3> QED
      BY <3>1, <3>2
  <2> QED
    BY <1>3, <1>8, <2>1 DEF LoadAll, LoadAgain
<1>9. ASSUME NEW s \in Slots, Replied(s) \/ Taken(s) \/ FirstStage(s)
      PROVE  \A t \in Slots : Goal(t)
  <2>1. Live(s) /\ Consume(s) /\ calls[s].op \notin LayoutCalls
    BY <1>9
    DEF Replied, MutationAnswered, Taken, FirstStage, OpsOf, KeyOps, ClientOps,
        LayoutCalls
  <2>2. PageCall(calls[s])
    BY <2>1 DEF Live, Idle, PageCall
  <2> QED
    BY <1>4, <2>1, <2>2
<1>10. \A s \in Slots : Goal(s)
  BY <1>1, <1>5, <1>6, <1>7, <1>8, <1>9 DEF PageKind, Clicked, LoadNothing
<1> QED
  BY <1>1, <1>10 DEF PageForms

-----------------------------------------------------------------------------
(* The spinner. *)

\* The calls that the page shows its spinner for.
Load(c) == PageCall(c) /\ c.load = TRUE
Loads == {s \in Slots : Load(calls[s])}

\* The page counts them; that of the clients knows only that there are some.
LoadInv == auth =>
    /\ IsFiniteSet(Loads)
    /\ path # "clients" =>
          /\ view.phase = "loading" =>
                view.waiting > 0 /\ view.waiting = Cardinality(Loads)
          /\ view.phase = "fresh" => \A s \in Slots : ~ PageCall(calls[s])
    /\ path = "clients" /\ view.phase = "loading" =>
          view.waiting = 1 /\ Loads # {}

LEMMA SameLoads ==
    ASSUME \A s \in Slots : Load(calls'[s]) <=> Load(calls[s])
    PROVE  Loads' = Loads
  BY DEF Loads

LEMMA LoadFrame ==
    ASSUME LoadInv, Frame
    PROVE  LoadInv'
<1>1. CASE auth' = FALSE
  BY <1>1 DEF LoadInv
<1>2. CASE Anew
  <2>1. Loads' = {}
    BY <1>2 DEF Anew, Loads, Load
  <2>2. view'.phase = "fresh"
    BY <1>2 DEF Anew, Mounted
  <2> QED
    BY <1>2, <2>1, <2>2, FS_EmptySet DEF LoadInv, Anew
<1>3. CASE Serving
  <2>1. \A s \in Slots : Load(calls'[s]) <=> Load(calls[s])
    BY <1>3 DEF Serving, Load, ServedAt, Served
  <2>2. Loads' = Loads
    BY <2>1, SameLoads
  <2> QED
    BY <1>3, <2>2 DEF LoadInv, Serving
<1> QED
  BY <1>1, <1>2, <1>3 DEF Frame

LEMMA NoCallLoad == ~ PageCall(NoCall) /\ ~ Load(NoCall)
  BY NoCallForm DEF PageCall, Load

\* An answer of the page and what follows it.
LEMMA Answers ==
    ASSUME Inv, Types, PageForms, auth, NEW s \in Slots,
           Replied(s) \/ Taken(s) \/ (path = "overview" /\ FirstStage(s))
    PROVE  /\ OthersStay(s) /\ PageCall(calls[s]) /\ PageForm(path, calls[s])
           /\ CallTyped(calls[s], changes) /\ calls[s].live = TRUE
           /\ Replied(s) => /\ calls[s].op \in OpsOf(path) /\ calls[s].op # "list"
                            /\ calls[s].then = RefreshOf(path)
                            /\ calls[s].load = FALSE
                            /\ DOMAIN calls[s].body = {}
                            /\ IF calls[s].code = "ok"
                                 THEN Follows(calls[s], calls'[s])
                                 ELSE calls'[s] = NoCall
           /\ Taken(s) => /\ calls[s].op = "list" /\ calls[s].then = {}
                          /\ calls'[s] = NoCall
           /\ path = "overview" /\ FirstStage(s) =>
                /\ calls[s].op = "list" /\ calls[s].then # {}
                /\ Follows(calls[s], calls'[s])
<1>1. Live(s) /\ Consume(s) /\ calls[s].op \notin LayoutCalls
  BY DEF Replied, MutationAnswered, Taken, FirstStage, OpsOf, KeyOps, ClientOps,
         LayoutCalls
<1>2. PageCall(calls[s]) /\ ~ Idle(s)
  BY <1>1 DEF Live, Idle, PageCall
<1>3. /\ OthersStay(s) /\ calls[s].live = TRUE
      /\ ~ GoesOn(calls[s]) => calls'[s] = NoCall
      /\ GoesOn(calls[s]) => Follows(calls[s], calls'[s])
  BY <1>1, Consumed DEF Inv
<1>4. PageForm(path, calls[s])
  BY <1>2 DEF PageForms
<1>5. CallTyped(calls[s], changes)
  BY <1>2, Busy DEF Inv, Types
<1>6. ASSUME Replied(s)
      PROVE  /\ calls[s].op \in OpsOf(path) /\ calls[s].op # "list"
             /\ calls[s].then = RefreshOf(path) /\ RefreshOf(path) # {}
             /\ calls[s].load = FALSE /\ DOMAIN calls[s].body = {}
             /\ calls[s].code \in {"ok", "failed"}
  <2>1. /\ calls[s].op \in OpsOf(path) /\ calls[s].op # "list"
        /\ calls[s].code \in {"ok", "failed"}
    BY <1>6 DEF Replied, MutationAnswered, OpsOf, KeyOps, ClientOps
  <2>2. calls[s].then = RefreshOf(path)
    BY <1>4, <2>1 DEF PageForm
  <2> QED
    BY <1>5, <2>1, <2>2 DEF CallTyped, RefreshOf, Parts
<1>7. ASSUME Taken(s)
      PROVE  calls[s].op = "list" /\ calls[s].then = {}
  BY <1>4, <1>7 DEF Taken, PageForm, ListForm
<1>8. ASSUME FirstStage(s)
      PROVE  calls[s].op = "list" /\ calls[s].then # {}
  BY <1>8 DEF FirstStage
<1>9. Replied(s) => IF calls[s].code = "ok" THEN Follows(calls[s], calls'[s])
                                            ELSE calls'[s] = NoCall
  BY <1>3, <1>6 DEF GoesOn
<1>10. Taken(s) => calls'[s] = NoCall
  BY <1>3, <1>7 DEF GoesOn
<1>11. FirstStage(s) => Follows(calls[s], calls'[s])
  BY <1>3, <1>8 DEF GoesOn
<1> QED
  BY <1>2, <1>3, <1>4, <1>5, <1>6, <1>7, <1>8, <1>9, <1>10, <1>11

\* Calls that the page has sent.
LEMMA SentLoads ==
    ASSUME NEW s \in Slots, OthersStay(s), ~ Load(calls[s]),
           ~ Load(calls'[s])
    PROVE  Loads' = Loads
  BY SameLoads DEF OthersStay

LEMMA NotLoading ==
    ASSUME CallsForm, NEW c, Send(c), ~ Load(c)
    PROVE  Loads' = Loads
<1>1. PICK s \in Slots : ~ PageCall(calls[s]) /\ calls'[s] = c /\ OthersStay(s)
  BY SentOne
<1> QED
  BY <1>1, SentLoads DEF Load

LEMMA LoadingPage ==
    ASSUME Inv, Types, PageForms, LoadInv, PageNext
    PROVE  LoadInv'
<1>1. /\ PageKind /\ auth /\ UNCHANGED <<path, auth>>
      /\ view.waiting \in Int /\ view'.waiting \in Int
  BY PageKinds DEF PageGood, Quiet, session, ViewForm, Types, ViewTyped
<1>2. IsFiniteSet(Loads) /\ Cardinality(Loads) \in Nat
  BY <1>1, FS_CardinalityType DEF LoadInv
<1> DEFINE SamePhase == \/ view'.phase = view.phase
                        \/ path = "clients" /\ view'.phase # "loading"
           NoneFresh == path # "clients" => view.phase # "fresh"
\* The page counts what it counted.
<1>3. ASSUME Loads' = Loads, SamePhase, view'.waiting = view.waiting,
             NoneFresh \/ UNCHANGED calls
      PROVE  LoadInv'
  BY <1>1, <1>3 DEF LoadInv
<1>4. CASE Clicked \/ LoadNothing
  <2>1. UNCHANGED calls /\ Loads' = Loads
    BY <1>4 DEF Clicked, LoadNothing, Loads
  <2> QED
    BY <1>1, <1>3, <1>4, <2>1 DEF Clicked, LoadNothing, Looks, LoadInv
<1>5. ASSUME NEW op \in Mutations, NEW arg, Asked(op, arg)
      PROVE  LoadInv'
  <2> DEFINE c == Refreshing(op, arg, RefreshOf(path))
  <2>1. Send(c) /\ c.load = FALSE
    BY <1>5 DEF Asked, Refreshing, Call
  <2> HIDE DEF c
  <2>2. Loads' = Loads
    BY <2>1, NotLoading DEF Load, Inv
  <2> QED
    BY <1>3, <1>5, <2>2 DEF Asked, Looks
<1>6. CASE LoadRows
  <2> DEFINE c == Fetch({path}, TRUE)
             d == Fetch({"clients"}, TRUE)
  <2>1. /\ SendBoth(c, d) /\ path # "clients" /\ view.phase = "fresh"
        /\ view'.phase = "loading" /\ view'.waiting = 2
    BY <1>6 DEF LoadRows
  <2>2. Load(c) /\ Load(d)
    BY DEF Fetch, Call, Load, PageCall, LayoutCalls
  <2> HIDE DEF c, d
  <2>3. PICK s \in Slots, t \in Slots :
           /\ s # t /\ calls'[s] = c /\ calls'[t] = d
           /\ \A r \in Slots \ {s, t} : calls'[r] = calls[r]
    BY <2>1, SentTwo DEF Inv
  <2>4. Loads' = {s, t}
    BY <1>1, <2>1, <2>2, <2>3 DEF Loads, Load, LoadInv
  <2>5. IsFiniteSet({s, t}) /\ Cardinality({s, t}) = 2
    <3>1. IsFiniteSet({s}) /\ Cardinality({s}) = 1
      BY FS_Singleton
    <3>2. /\ IsFiniteSet({s} \union {t})
          /\ Cardinality({s} \union {t}) = Cardinality({s}) + 1
      BY <2>3, <3>1, FS_AddElement
    <3> QED
      BY <3>1, <3>2
  <2> QED
    BY <1>1, <2>1, <2>4, <2>5 DEF LoadInv
<1>7. CASE LoadAll
  <2>1. PICK c : Send(c) /\ Load(c)
    <3>1. \/ Send(Fetch(Parts, TRUE)) \/ Send(LoadStats(TRUE))
      BY <1>7 DEF LoadAll
    <3>2. Load(Fetch(Parts, TRUE))
      BY FetchListing DEF JustSent, Load, PageCall, LayoutCalls
    <3>3. Load(LoadStats(TRUE))
      BY StatsForm DEF JustSent, Load, PageCall, LayoutCalls
    <3> QED
      BY <3>1, <3>2, <3>3
  <2>2. PICK s \in Slots : calls'[s] = c /\ OthersStay(s)
    BY <2>1, SentOne DEF Inv
  <2>3. Loads' = Loads \union {s}
    BY <2>1, <2>2 DEF Loads, OthersStay
  <2>4. IsFiniteSet(Loads')
    BY <1>2, <2>3, FS_AddElement
  <2>5. path # "clients" => Loads' = {s}
    BY <1>1, <1>7, <2>3 DEF LoadAll, LoadInv, Loads, Load
  <2>6. Cardinality({s}) = 1
    BY FS_Singleton
  <2>7. view'.phase = "loading" /\ view'.waiting = 1
    BY <1>7 DEF LoadAll
  <2> QED
    BY <1>1, <2>3, <2>4, <2>5, <2>6, <2>7 DEF LoadInv
<1>8. CASE LoadAgain
  <2>1. PICK c : Send(c) /\ ~ Load(c)
    <3>1. ~ Load(LoadStats(FALSE))
      BY StatsForm DEF JustSent, Load
    <3> QED
      BY <1>8, <3>1 DEF LoadAgain
  <2>2. Loads' = Loads
    BY <2>1, NotLoading DEF Inv
  <2> QED
    BY <1>3, <1>8, <2>2 DEF LoadAgain
<1>9. ASSUME NEW s \in Slots, Replied(s)
      PROVE  LoadInv'
  <2>1. Loads' = Loads
    <3>1. OthersStay(s) /\ ~ Load(calls[s]) /\ ~ Load(calls'[s])
      BY <1>1, <1>9, Answers, NoCallLoad DEF Load, Follows
    <3> QED
      BY <3>1, SentLoads
  <2>2. NoneFresh
    BY <1>1, <1>9, Answers DEF LoadInv
  <2>3. SamePhase /\ view'.waiting = view.waiting
    BY <1>9 DEF Replied, Looks
  <2> QED
    BY <1>3, <2>1, <2>2, <2>3
<1>10. ASSUME NEW s \in Slots, Taken(s)
       PROVE  LoadInv'
  <2>1. OthersStay(s) /\ PageCall(calls[s]) /\ ~ Load(calls'[s]) /\ Spins(calls[s])
    BY <1>1, <1>10, Answers, NoCallLoad DEF Taken
  <2>2. NoneFresh
    BY <1>1, <2>1 DEF LoadInv
  <2>3. calls[s].load \in BOOLEAN
    BY <1>1, <1>10, Answers DEF CallTyped
  <2>4. CASE calls[s].load = FALSE
    <3>1. Loads' = Loads
      BY <2>1, <2>4, SentLoads DEF Load
    <3>2. SamePhase /\ view'.waiting = view.waiting
      BY <2>1, <2>4 DEF Spins
    <3> QED
      BY <1>3, <2>2, <3>1, <3>2
  <2>5. CASE calls[s].load = TRUE
    <3>1. s \in Loads /\ Loads' = Loads \ {s}
      BY <2>1, <2>5 DEF Loads, Load, OthersStay
    <3>2. /\ IsFiniteSet(Loads')
          /\ Cardinality(Loads') = Cardinality(Loads) - 1
      BY <1>2, <3>1, FS_RemoveElement
    <3>3. CASE path = "clients"
      BY <1>1, <2>1, <2>5, <3>2, <3>3 DEF Spins, LoadInv
    <3>4. CASE path # "clients"
      <4>1. /\ view'.waiting = view.waiting - 1
            /\ view'.phase = IF view.waiting = 1 THEN "ready" ELSE view.phase
        BY <2>1, <2>5, <3>4 DEF Spins
      <4>2. ASSUME view'.phase = "loading"
            PROVE  view'.waiting > 0 /\ view'.waiting = Cardinality(Loads')
        <5>1. view.phase = "loading" /\ view.waiting # 1
          BY <4>1, <4>2
        <5>2. view.waiting > 0 /\ view.waiting = Cardinality(Loads)
          BY <1>1, <3>4, <5>1 DEF LoadInv
        <5> QED
          BY <1>1, <1>2, <3>2, <4>1, <5>1, <5>2
      <4>3. view'.phase # "fresh"
        BY <2>2, <3>4, <4>1
      <4> QED
        BY <1>1, <3>2, <3>4, <4>2, <4>3 DEF LoadInv
    <3> QED
      BY <3>3, <3>4
  <2> QED
    BY <2>3, <2>4, <2>5
<1>11. ASSUME path = "overview", NEW s \in Slots, FirstStage(s)
       PROVE  LoadInv'
  <2>1. /\ OthersStay(s) /\ PageCall(calls[s]) /\ calls'[s].load = calls[s].load
        /\ PageCall(calls'[s])
    BY <1>1, <1>11, Answers DEF Follows, PageCall, LayoutCalls
  <2>2. Loads' = Loads
    BY <2>1, SameLoads DEF Load, OthersStay
  <2>3. NoneFresh
    BY <1>1, <2>1 DEF LoadInv
  <2> QED
    BY <1>3, <1>11, <2>2, <2>3 DEF FirstStage
<1> QED
  BY <1>1, <1>4, <1>5, <1>6, <1>7, <1>8, <1>9, <1>10, <1>11 DEF PageKind

-----------------------------------------------------------------------------
(* How new the rows are. *)

\* A call that brings the rows the page is about, and one that has read some.
Lists(p, c) ==
    PageCall(c) /\ c.op = "list" /\ (p = "overview" \/ p \in c.arg.parts)
Started(c) == c.arg.parts \intersect DOMAIN c.body # {}

\* One list at a time is under way; what it has read, and what the page shows
\* when there is none, is as new as the last change of the page.
FreshInv == auth /\ ~ view.excused =>
    /\ \A s, t \in Slots : Lists(path, calls[s]) /\ Lists(path, calls[t]) => s = t
    /\ \A s \in Slots : Lists(path, calls[s]) /\ Started(calls[s]) =>
          /\ calls[s].at >= view.at
          /\ path # "overview" => calls[s].at >= view.must
    /\ (path # "overview" /\ \A s \in Slots : ~ Lists(path, calls[s])) =>
          view.at >= view.must

LEMMA NoCallLists == \A p : ~ Lists(p, NoCall)
  BY NoCallForm DEF Lists, PageCall

LEMMA FreshFrame ==
    ASSUME Inv, Types, FreshInv, Frame
    PROVE  FreshInv'
<1>1. CASE auth' = FALSE
  BY <1>1 DEF FreshInv
<1>2. CASE Anew
  <2>1. view'.at = 0 /\ view'.must = 0
    BY <1>2 DEF Anew, Mounted
  <2>2. \A s \in Slots : ~ Lists(path', calls'[s])
    BY <1>2 DEF Anew, Lists
  <2> QED
    BY <2>1, <2>2 DEF FreshInv
<1>3. CASE Serving
  <2>1. ASSUME NEW s \in Slots
        PROVE  Lists(path, calls'[s]) <=> Lists(path, calls[s])
    BY <1>3 DEF Serving, Lists, ServedAt, Served
  <2>2. ASSUME ~ view.excused, NEW s \in Slots, Lists(path, calls'[s]),
               Started(calls'[s])
        PROVE  /\ calls'[s].at >= view.at
               /\ path # "overview" => calls'[s].at >= view.must
    <3> DEFINE c == calls[s]
               d == calls'[s]
    <3>1. auth /\ Lists(path, c)
      BY <1>3, <2>1, <2>2 DEF Serving
    <3>2. Started(c) => /\ c.at >= view.at
                        /\ path # "overview" => c.at >= view.must
      BY <2>2, <3>1 DEF FreshInv
    <3>3. CASE d = c
      BY <2>2, <3>2, <3>3
    <3>4. CASE /\ d.body = c.body /\ d.at = c.at /\ d.arg = c.arg
      BY <2>2, <3>2, <3>4 DEF Started
    <3>5. ASSUME NEW part \in Parts, ServeList(s, part)
          PROVE  (d.at = c.at /\ Started(c)) \/ d.at = changes
      <4>1. ~ Idle(s)
        BY <3>1 DEF Lists, Idle
      <4>2. d.at = IF c.arg.parts \intersect DOMAIN c.body = {}
                     THEN changes ELSE c.at
        BY <3>5, <4>1, OneListMore DEF Inv
      <4> QED
        BY <4>2 DEF Started
    <3>6. view.at \in 0 .. changes /\ view.must \in 0 .. changes /\ changes \in Nat
      BY <3>1 DEF Types, CountsTyped, ViewTyped, ViewForm
    <3>7. CASE (d.at = c.at /\ Started(c)) \/ d.at = changes
      BY <3>2, <3>6, <3>7
    <3>8. \/ d = c
          \/ d.body = c.body /\ d.at = c.at /\ d.arg = c.arg
          \/ \E part \in Parts : ServeList(s, part)
      BY <1>3, <3>1 DEF Serving, ServedAt, Served, Lists
    <3> QED
      BY <3>3, <3>4, <3>5, <3>7, <3>8
  <2>3. auth /\ auth' /\ UNCHANGED <<path, view>>
    BY <1>3 DEF Serving
  <2> QED
    BY <2>1, <2>2, <2>3 DEF FreshInv
<1> QED
  BY <1>1, <1>2, <1>3 DEF Frame

\* Whatever brings the rows of the page is seen by Listing.
LEMMA ListsSeen ==
    ASSUME Inv, PageForms, auth, NEW s \in Slots, Lists(path, calls[s])
    PROVE  /\ Listing(Parts)
           /\ path # "overview" => Listing(RefreshOf(path))
<1>1. Live(s) /\ calls[s].op = "list" /\ PageForm(path, calls[s])
  BY DEF Lists, PageCall, Live, Idle, PageForms
<1>2. ListForm(path, calls[s].arg.parts, calls[s].then)
  BY <1>1 DEF PageForm
<1>3. /\ calls[s].arg.parts \intersect Parts # {}
      /\ path # "overview" => calls[s].arg.parts \intersect RefreshOf(path) # {}
  BY <1>2 DEF ListForm, Parts, RefreshOf, Lists, Counted
<1> QED
  BY <1>1, <1>3 DEF Listing

\* The lists under way and what the page knows stay.
LEMMA FreshKept ==
    ASSUME FreshInv, auth, UNCHANGED path, view'.excused = view.excused,
           view'.at = view.at, view'.must = view.must,
           \A s \in Slots : Lists(path, calls[s]) \/ Lists(path, calls'[s])
                               => calls'[s] = calls[s]
    PROVE  FreshInv'
  BY DEF FreshInv

\* One list is under way that has not been read yet.
LEMMA FreshAnew ==
    ASSUME UNCHANGED path, NEW s \in Slots, Lists(path, calls'[s]),
           ~ Started(calls'[s]),
           \A t \in Slots : Lists(path, calls'[t]) => t = s
    PROVE  FreshInv'
  BY DEF FreshInv

LEMMA FreshSent ==
    ASSUME CallsForm, UNCHANGED path, NEW c, Send(c), Lists(path, c), ~ Started(c),
           \A t \in Slots : ~ Lists(path, calls[t])
    PROVE  FreshInv'
<1>1. PICK s \in Slots : calls'[s] = c /\ OthersStay(s)
  BY SentOne
<1>2. \A t \in Slots : Lists(path, calls'[t]) => t = s
  BY <1>1 DEF OthersStay
<1> QED
  BY <1>1, <1>2, FreshAnew

LEMMA FreshFetched ==
    ASSUME NEW c, NEW parts, NEW load, NEW then,
           JustSent(c, parts, load, then)
    PROVE  /\ PageCall(c) /\ c.op = "list" /\ c.arg.parts = parts
           /\ ~ Started(c)
  BY NoBody DEF JustSent, PageCall, LayoutCalls, Started

\* The list of the page is answered.
LEMMA TakenLists ==
    ASSUME Inv, Types, PageForms, FreshInv, auth, NEW s \in Slots, Taken(s),
           UNCHANGED <<path, auth>>, view'.excused = FALSE,
           view.excused \in BOOLEAN
    PROVE  FreshInv' /\ view'.at >= view.at
<1> DEFINE c == calls[s]
<1>1. /\ OthersStay(s) /\ PageCall(c) /\ PageForm(path, c) /\ CallTyped(c, changes)
      /\ c.live = TRUE /\ c.op = "list" /\ calls'[s] = NoCall
  BY Answers
<1>2. /\ view'.must = view.must
      /\ \/ /\ c.code = "ok" /\ view'.excused = view.excused
            /\ view'.at = IF Primary(c) THEN c.at ELSE view.at
         \/ /\ c.code = "failed" /\ view'.at = view.at
            /\ path = "overview" /\ view'.excused = view.excused
  BY DEF Taken
<1>3. view.excused = FALSE
  BY <1>2
<1>4. \A t \in Slots : /\ Lists(path, calls'[t]) => t # s
                       /\ t # s => calls'[t] = calls[t]
  BY <1>1, NoCallLists DEF OthersStay
<1>5. view.at \in Nat
  BY DEF Types, ViewTyped, ViewForm
<1>6. CASE c.code = "ok" /\ Primary(c)
  <2>1. Lists(path, c) /\ view'.at = c.at
    BY <1>1, <1>2, <1>6 DEF Lists, Primary
  <2>2. \A t \in Slots : ~ Lists(path, calls'[t])
    BY <1>3, <1>4, <2>1 DEF FreshInv
  <2>3. Started(c)
    <3>1. c.arg.parts \subseteq DOMAIN c.body
      BY <1>1, <1>6 DEF CallTyped
    <3>2. c.arg.parts # {}
      BY <1>1 DEF PageForm, ListForm, Parts, Counted
    <3> QED
      BY <3>1, <3>2 DEF Started
  <2>4. c.at >= view.at /\ (path # "overview" => c.at >= view.must)
    BY <1>3, <2>1, <2>3 DEF FreshInv
  <2> QED
    BY <1>2, <2>1, <2>2, <2>4 DEF FreshInv
<1>7. CASE c.code = "ok" /\ ~ Primary(c)
  <2>1. ~ Lists(path, c) /\ view'.at = view.at /\ view'.excused = view.excused
    BY <1>2, <1>7 DEF Lists, Primary
  <2>2. FreshInv'
    BY <1>2, <1>4, <2>1, FreshKept
  <2> QED
    BY <1>5, <2>1, <2>2
<1>8. CASE c.code = "failed"
  <2>1. path = "overview" /\ view'.at = view.at
    BY <1>2, <1>8
  <2> QED
    BY <1>2, <1>3, <1>4, <1>5, <2>1 DEF FreshInv
<1> QED
  BY <1>2, <1>6, <1>7, <1>8

LEMMA FreshPage ==
    ASSUME Inv, Types, PageForms, LoadInv, FreshInv, PageNext
    PROVE  /\ FreshInv'
           /\ UNCHANGED <<path, auth>>
           /\ view'.excused = FALSE => view'.at >= view.at
<1>1. /\ PageKind /\ auth /\ UNCHANGED <<path, auth>>
      /\ view.at \in Nat /\ view'.excused \in BOOLEAN /\ view.excused \in BOOLEAN
      /\ path \in {"overview", "keys", "rules", "clients"}
  <2>1. PageGood /\ auth
    BY PageKinds
  <2>2. Here /\ limits \in Limits /\ path \in limits.pages \union {"landing"}
    BY <2>1 DEF Inv, Shows, Types, SessionTyped
  <2> QED
    BY <2>1, <2>2, LimitsAssumption
    DEF PageGood, Quiet, session, Here, ViewForm, Types, ViewTyped
<1>2. ASSUME view'.excused = TRUE
      PROVE  FreshInv'
  BY <1>2 DEF FreshInv
<1> DEFINE Goal == FreshInv' /\ (view'.excused = FALSE => view'.at >= view.at)
<1>3. ASSUME view'.at = view.at, FreshInv'
      PROVE  Goal
  BY <1>1, <1>3
<1>4. ASSUME Clicked \/ LoadNothing
      PROVE  Goal
  <2>1. /\ UNCHANGED calls /\ view'.at = view.at /\ view'.must = view.must
        /\ view'.excused = view.excused
    BY <1>4 DEF Clicked, LoadNothing, Looks, KeepsRows
  <2> QED
    BY <1>1, <1>3, <2>1, FreshKept
<1>5. ASSUME NEW op \in Mutations, NEW arg, Asked(op, arg)
      PROVE  Goal
  <2> DEFINE c == Refreshing(op, arg, RefreshOf(path))
  <2>1. /\ Send(c) /\ view'.at = view.at /\ view'.must = view.must
        /\ view'.excused = view.excused
    BY <1>5 DEF Asked, Looks
  <2>2. ~ Lists(path, c)
    BY DEF Lists, Mutations, Refreshing, Call
  <2> HIDE DEF c
  <2>3. PICK s \in Slots : ~ PageCall(calls[s]) /\ calls'[s] = c /\ OthersStay(s)
    BY <2>1, SentOne DEF Inv
  <2>4. \A t \in Slots : Lists(path, calls[t]) \/ Lists(path, calls'[t])
                            => calls'[t] = calls[t]
    BY <2>2, <2>3 DEF OthersStay, Lists
  <2> QED
    BY <1>1, <1>3, <2>1, <2>4, FreshKept
<1>6. ASSUME LoadRows
      PROVE  Goal
  <2> DEFINE c == Fetch({path}, TRUE)
             d == Fetch({"clients"}, TRUE)
  <2>1. SendBoth(c, d) /\ path \in {"keys", "rules"} /\ view.phase = "fresh"
        /\ view'.at = view.at
    BY <1>6 DEF LoadRows, KeepsRows
  <2>2. Lists(path, c) /\ ~ Started(c) /\ ~ Lists(path, d)
    <3>1. /\ c.op = "list" /\ c.live = TRUE /\ c.arg.parts = {path} /\ c.body = <<>>
          /\ d.arg.parts = {"clients"}
      BY DEF Fetch, Call
    <3> HIDE DEF c, d
    <3> QED
      BY <2>1, <3>1, NoBody DEF Lists, Started, PageCall, LayoutCalls
  <2> HIDE DEF c, d
  <2>3. PICK s \in Slots, t \in Slots :
           /\ s # t /\ calls'[s] = c /\ calls'[t] = d
           /\ \A r \in Slots \ {s, t} : calls'[r] = calls[r]
    BY <2>1, SentTwo DEF Inv
  <2>4. \A r \in Slots : ~ Lists(path, calls[r])
    BY <1>1, <2>1 DEF LoadInv, Lists
  <2>5. \A r \in Slots : Lists(path, calls'[r]) => r = s
    BY <2>2, <2>3, <2>4
  <2>6. FreshInv'
    BY <1>1, <2>2, <2>3, <2>5, FreshAnew
  <2> QED
    BY <1>3, <2>1, <2>6
<1>7. ASSUME LoadAll \/ LoadAgain
      PROVE  Goal
  <2>1. view'.at = view.at
    BY <1>7 DEF LoadAll, LoadAgain, KeepsRows
  <2>2. PICK c : Send(c) /\ Lists(path, c) /\ ~ Started(c)
    <3>1. CASE path = "clients" /\ Send(Fetch(Parts, TRUE))
      <4>1. /\ PageCall(Fetch(Parts, TRUE)) /\ Fetch(Parts, TRUE).op = "list"
            /\ Fetch(Parts, TRUE).arg.parts = Parts /\ ~ Started(Fetch(Parts, TRUE))
        BY NoBody DEF Fetch, Call, PageCall, LayoutCalls, Started
      <4> QED
        BY <3>1, <4>1 DEF Lists, Parts
    <3>2. ASSUME path = "overview", NEW load, Send(LoadStats(load))
          PROVE  \E c : Send(c) /\ Lists(path, c) /\ ~ Started(c)
      BY <3>2, StatsForm, FreshFetched DEF Lists
    <3> QED
      BY <1>7, <3>1, <3>2 DEF LoadAll, LoadAgain
  <2>3. ASSUME view'.excused = FALSE
        PROVE  \A t \in Slots : ~ Lists(path, calls[t])
    <3>1. (path = "overview" /\ LoadAll) => view.phase = "fresh"
      BY DEF LoadAll
    <3>2. (path = "overview" /\ LoadAll) => \A t \in Slots : ~ PageCall(calls[t])
      BY <1>1, <3>1 DEF LoadInv
    <3>3. ~ (path = "overview" /\ LoadAll) => ~ Listing(Parts)
      BY <1>7, <2>3 DEF LoadAll, LoadAgain
    <3> QED
      BY <1>1, <3>2, <3>3, ListsSeen DEF Lists
  <2>4. FreshInv'
    BY <1>1, <1>2, <2>2, <2>3, FreshSent DEF Inv
  <2> QED
    BY <1>3, <2>1, <2>4
<1>8. ASSUME NEW s \in Slots, Replied(s)
      PROVE  Goal
  <2>1. /\ OthersStay(s) /\ calls[s].op # "list" /\ calls[s].op \in OpsOf(path)
        /\ calls[s].then = RefreshOf(path)
        /\ DOMAIN calls[s].body = {}
        /\ IF calls[s].code = "ok" THEN Follows(calls[s], calls'[s])
                                   ELSE calls'[s] = NoCall
    BY <1>1, <1>8, Answers
  <2>2. path # "overview" /\ view'.at = view.at
    BY <1>8, <2>1 DEF OpsOf, Replied, Looks
  <2>3. CASE calls[s].code = "ok"
    <3>1. Lists(path, calls'[s]) /\ ~ Started(calls'[s])
      <4>1. /\ calls'[s].op = "list" /\ calls'[s].live = TRUE
            /\ calls'[s].arg.parts = RefreshOf(path)
            /\ DOMAIN calls'[s].body = {}
        BY <2>1, <2>3 DEF Follows
      <4>2. path \in RefreshOf(path)
        BY <1>1, <2>2 DEF RefreshOf, Parts
      <4> QED
        BY <4>1, <4>2 DEF Lists, Started, PageCall, LayoutCalls
    <3>2. ASSUME view'.excused = FALSE
          PROVE  \A t \in Slots : ~ Lists(path, calls[t])
      <4>1. ~ Listing(RefreshOf(path))
        BY <1>8, <2>1, <2>3, <3>2 DEF Replied
      <4> QED
        BY <1>1, <2>2, <4>1, ListsSeen
    <3>3. ASSUME view'.excused = FALSE
          PROVE  FreshInv'
      <4>1. \A t \in Slots : Lists(path, calls'[t]) => t = s
        BY <2>1, <3>2, <3>3 DEF OthersStay
      <4> QED
        BY <1>1, <3>1, <4>1, FreshAnew
    <3> QED
      BY <1>1, <1>2, <1>3, <2>2, <3>3
  <2>4. CASE calls[s].code # "ok"
    <3>1. UNCHANGED view /\ calls'[s] = NoCall
      BY <1>8, <2>1, <2>4 DEF Replied
    <3>2. \A t \in Slots : Lists(path, calls[t]) \/ Lists(path, calls'[t])
                              => calls'[t] = calls[t]
      BY <2>1, <3>1, NoCallLists DEF OthersStay, Lists
    <3> QED
      BY <1>1, <1>3, <3>1, <3>2, FreshKept
  <2> QED
    BY <2>3, <2>4
<1>9. ASSUME NEW s \in Slots, Taken(s)
      PROVE  Goal
  BY <1>1, <1>2, <1>9, TakenLists
<1>10. ASSUME path = "overview", NEW s \in Slots, FirstStage(s)
       PROVE  Goal
  <2>1. /\ OthersStay(s) /\ PageCall(calls[s]) /\ PageForm(path, calls[s])
        /\ calls[s].op = "list" /\ calls[s].then # {}
        /\ Follows(calls[s], calls'[s])
    BY <1>1, <1>10, Answers
  <2>2. /\ calls[s].arg.parts = {"clients"} /\ calls[s].then = Counted
        /\ DOMAIN calls[s].body \subseteq calls[s].arg.parts
    BY <2>1 DEF PageForm, ListForm
  <2>3. Lists(path, calls'[s]) /\ ~ Started(calls'[s])
    <3>1. /\ calls'[s].op = "list" /\ calls'[s].live = TRUE
          /\ calls'[s].arg.parts = Counted
          /\ DOMAIN calls'[s].body \subseteq {"clients"}
      BY <2>1, <2>2, NoBody DEF Follows
    <3> QED
      BY <1>10, <3>1 DEF Lists, Started, PageCall, LayoutCalls, Counted
  <2>4. UNCHANGED view
    BY <1>10 DEF FirstStage
  <2>5. ASSUME ~ view'.excused
        PROVE  FreshInv'
    <3>1. Lists(path, calls[s])
      BY <1>10, <2>1 DEF Lists
    <3>2. \A t \in Slots : Lists(path, calls'[t]) => t = s
      BY <1>1, <2>1, <2>4, <2>5, <3>1 DEF FreshInv, OthersStay
    <3> QED
      BY <1>1, <2>3, <3>2, FreshAnew
  <2> QED
    BY <1>1, <1>2, <1>3, <2>4, <2>5
<1>11. Goal
  BY <1>1, <1>4, <1>5, <1>6, <1>7, <1>8, <1>9, <1>10 DEF PageKind
<1> QED
  BY <1>1, <1>11

\* Everything together.
Orderly == Inv /\ Types /\ PageForms /\ LoadInv /\ FreshInv

LEMMA OrderlyInit == Init => Orderly
  BY InvInit, TypesInit
  DEF Init, SessionInit, Orderly, PageForms, LoadInv, FreshInv

LEMMA OrderlyStep == Orderly /\ [Next]_vars => Orderly'
<1> SUFFICES ASSUME Orderly, [Next]_vars
             PROVE  Orderly'
  OBVIOUS
<1>1. Inv' /\ Types'
  BY InvStep, TypesStep DEF Orderly
<1>2. CASE PageNext
  BY <1>1, <1>2, FormsPage, LoadingPage, FreshPage DEF Orderly
<1>3. CASE ~ PageNext
  BY <1>1, <1>3, FrameSteps, FormsFrame, LoadFrame, FreshFrame DEF Orderly
<1> QED
  BY <1>2, <1>3

\* Types, the roles of the calls, the loads that are awaited and the lists under
\* way hold together in every state: what the theorems below rest on.
THEOREM Order == Spec => []Orderly
  BY OrderlyInit, OrderlyStep, PTL DEF Spec

\* The spinner is shown only while an answer can still end it (loading of the
\* four pages and the finally of their fetches).
THEOREM SpinnerEnds == Spec => []LoadingJustified
<1> DEFINE loads == {s \in Slots : Live(s) /\ calls[s].load}
<1>1. ASSUME Orderly, auth, view.phase = "loading"
      PROVE  view.waiting \in 1..Cardinality(loads)
  <2>1. loads = Loads
    <3>1. ASSUME NEW s \in Slots, Live(s)
          PROVE  calls[s].load <=> Load(calls[s])
      <4>1. CallTyped(calls[s], changes) /\ ~ Idle(s)
        BY <1>1, <3>1, Busy DEF Orderly, Inv, Types, Live
      <4>2. calls[s].op \in LayoutCalls => calls[s].load = FALSE
        BY <4>1 DEF CallTyped, LayoutCalls
      <4>3. calls[s].load \in BOOLEAN
        BY <4>1 DEF CallTyped
      <4> QED
        BY <3>1, <4>1, <4>2, <4>3 DEF Load, PageCall, Live, Idle
    <3>2. ASSUME NEW s \in Slots, Load(calls[s])
          PROVE  Live(s)
      BY <3>2 DEF Load, PageCall, Live, Idle
    <3> QED
      BY <3>1, <3>2 DEF Loads
  <2>2. IsFiniteSet(Loads) /\ Cardinality(Loads) \in Nat
    BY <1>1, FS_CardinalityType DEF Orderly, LoadInv
  <2>3. CASE path # "clients"
    <3>1. view.waiting > 0 /\ view.waiting = Cardinality(Loads)
      BY <1>1, <2>3 DEF Orderly, LoadInv
    <3>2. view.waiting \in 1..Cardinality(Loads)
      BY <2>2, <3>1
    <3> QED
      BY <2>1, <3>2
  <2>4. CASE path = "clients"
    <3>1. view.waiting = 1 /\ Loads # {}
      BY <1>1, <2>4 DEF Orderly, LoadInv
    <3>2. Cardinality(Loads) # 0
      BY <2>2, <3>1, FS_EmptySet
    <3> QED
      BY <2>1, <2>2, <3>1, <3>2
  <2> QED
    BY <2>3, <2>4
<1>2. Orderly => LoadingJustified
  BY <1>1 DEF LoadingJustified
<1> QED
  BY <1>2, Order, PTL

\* When no refresh is under way, a page that edits a table shows it as new as
\* its own last change, unless refreshes overlapped or failed (the fetches that
\* follow the changes on the pages of keys, rules and clients).
THEOREM RefreshesArrive == Spec => []ListsFresh
<1>1. ASSUME Orderly, auth, path # "overview", ~ view.excused, ~ Listing({path})
      PROVE  view.at >= view.must
  <2>1. \A s \in Slots : ~ Lists(path, calls[s])
    BY <1>1 DEF Lists, PageCall, Listing, Live, Idle
  <2> QED
    BY <1>1, <2>1 DEF Orderly, FreshInv
<1>2. Orderly => ListsFresh
  BY <1>1 DEF ListsFresh
<1> QED
  BY <1>2, Order, PTL

\* Without overlapping refreshes a page never goes back to older rows, whatever
\* the order in which the server reads them and the answers arrive.
THEOREM NeverOlder == Spec => ListsForward
<1>1. ASSUME Orderly, [Next]_vars, auth, auth', path' = path, ~ view'.excused
      PROVE  view'.at >= view.at
  <2>1. view.at \in Nat
    BY <1>1 DEF Orderly, Types, ViewTyped, ViewForm
  <2>2. CASE PageNext
    <3>1. view'.excused \in BOOLEAN
      BY <1>1, TypesStep DEF Orderly, Types, ViewTyped, ViewForm
    <3> QED
      BY <1>1, <2>2, <3>1, FreshPage DEF Orderly
  <2>3. CASE ~ PageNext
    <3>1. Frame
      BY <1>1, <2>3, FrameSteps DEF Orderly
    <3> QED
      BY <1>1, <2>1, <3>1 DEF Frame, Anew, Serving
  <2> QED
    BY <2>2, <2>3
<1>2. Orderly /\ [Next]_vars
         => [auth /\ auth' /\ path' = path /\ ~view'.excused => view'.at >= view.at]_vars
  BY <1>1
<1> QED
  BY <1>2, Order, PTL DEF Spec, ListsForward

-----------------------------------------------------------------------------
(* The key that is displayed. *)

Makes(c) == PageCall(c) /\ c.op \in MakingOps

\* One key is awaited at a time; none while the page holds one that the user
\* has not seen off, and a creation in the open form only.
KeysShown == auth /\ path = "keys" /\ view.hurried = FALSE =>
    /\ \A s, t \in Slots : Makes(calls[s]) /\ Makes(calls[t]) => s = t
    /\ view.owed # {} => /\ view.modal = TRUE /\ view.generated # NoKey
                         /\ view.owed = {view.generated}
                         /\ \A s \in Slots : ~ Makes(calls[s])
    /\ \A s \in Slots : Makes(calls[s]) /\ calls[s].op = "createKey" =>
          view.modal = TRUE /\ view.generated = NoKey

\* The form stays as it is, and the key that is displayed.
SameForm(v, w) ==
    /\ DOMAIN v = ViewFields /\ DOMAIN w = ViewFields
    /\ w.modal = v.modal /\ w.generated = v.generated
    /\ w.owed = v.owed /\ w.hurried = v.hurried /\ w.editing = v.editing

\* No key more is awaited.
NoneMore == \A s \in Slots : Makes(calls'[s]) => calls'[s] = calls[s]

LEMMA NoCallMakes == ~ Makes(NoCall)
  BY NoCallForm DEF Makes, PageCall

LEMMA FormRendered ==
    ASSUME NEW v, DOMAIN v = ViewFields, Render(v)
    PROVE  SameForm(v, view') /\ view'.body = v.body /\ view'.role = IsAdmin(stored)
  BY DEF Render, SameForm, ViewFields

LEMMA FormAwaited ==
    ASSUME NEW v, NEW c, DOMAIN v = ViewFields
    PROVE  /\ SameForm(v, Awaited(v, c)) /\ Awaited(v, c).body = v.body
           /\ SameForm(v, [Awaited(v, c) EXCEPT !.excused = TRUE])
           /\ [Awaited(v, c) EXCEPT !.excused = TRUE].body = v.body
<1>1. SameForm(v, Awaited(v, c)) /\ Awaited(v, c).body = v.body
  <2>1. CASE ~ c.load
    BY <2>1 DEF Awaited, SameForm
  <2>2. CASE c.load
    <3> DEFINE phase == IF v.waiting = 1 THEN "ready" ELSE v.phase
               w == [v EXCEPT !.waiting = @ - 1, !.phase = phase]
    <3>1. w = Awaited(v, c)
      BY <2>2 DEF Awaited
    <3> HIDE DEF phase
    <3>2. SameForm(v, w) /\ w.body = v.body
      BY DEF SameForm, ViewFields
    <3> QED
      BY <3>1, <3>2
  <2> QED
    BY <2>1, <2>2
<1> QED
  BY <1>1 DEF SameForm, ViewFields

LEMMA FormListed ==
    ASSUME NEW v, NEW c, NEW primary, DOMAIN v = ViewFields
    PROVE  /\ SameForm(v, Rows(v, c, primary))
           /\ Rows(v, c, primary).body =
                 [p \in Parts |-> IF p \in c.arg.parts THEN c.body[p]
                                 ELSE v.body[p]]
<1> DEFINE body == [p \in Parts |-> IF p \in c.arg.parts THEN c.body[p]
                                    ELSE v.body[p]]
           at == IF primary \in c.arg.parts THEN c.at ELSE v.at
           w == [v EXCEPT !.body = body, !.by = @ \union {c.key}, !.at = at]
<1>1. w = Rows(v, c, primary)
  BY DEF Rows
<1> HIDE DEF body, at
<1>2. SameForm(v, w) /\ w.body = body
  BY DEF SameForm, ViewFields
<1> QED
  BY <1>1, <1>2 DEF body

LEMMA FormChanged ==
    ASSUME NEW v, NEW s, DOMAIN v = ViewFields, Changed(s, v)
    PROVE  SameForm(v, view') /\ view'.body = v.body /\ view'.role = IsAdmin(stored)
<1> DEFINE must == Larger(v.must, calls[s].at)
           excused == v.excused \/ Listing(calls[s].then)
           w == [v EXCEPT !.must = must, !.excused = excused]
<1>1. Render(w)
  BY DEF Changed
<1> HIDE DEF must, excused
<1>2. SameForm(v, w) /\ w.body = v.body
  BY DEF SameForm, ViewFields
<1> QED
  BY <1>1, <1>2, FormRendered DEF SameForm

LEMMA KeyKept ==
    ASSUME KeysShown, auth, path = "keys", NoneMore, SameForm(view, view')
    PROVE  KeysShown'
  BY DEF KeysShown, NoneMore, SameForm

LEMMA NoneMade ==
    ASSUME CallsForm, NEW s \in Slots, Live(s), Consume(s)
    PROVE  /\ NoneMore /\ ~ Makes(calls'[s])
<1>1. OthersStay(s) /\ (calls'[s] = NoCall \/ calls'[s].op = "list")
  BY Consumed DEF Follows
<1> QED
  BY <1>1, NoCallMakes DEF NoneMore, OthersStay, Makes, MakingOps

LEMMA KeysFrame ==
    ASSUME KeysShown, Frame
    PROVE  KeysShown'
<1>1. CASE auth' = FALSE
  BY <1>1 DEF KeysShown
<1>2. CASE Anew
  BY <1>2 DEF Anew, KeysShown, Mounted, Makes
<1>3. CASE Serving
  <2>1. \A s \in Slots : /\ Makes(calls'[s]) <=> Makes(calls[s])
                         /\ Makes(calls[s]) => calls'[s].op = calls[s].op
    BY <1>3 DEF Serving, Makes, ServedAt, Served
  <2> QED
    BY <1>3, <2>1 DEF Serving, KeysShown
<1> QED
  BY <1>1, <1>2, <1>3 DEF Frame

\* Another page.
LEMMA KeysElsewhere ==
    ASSUME Inv, Types, PageNext, path # "keys"
    PROVE  KeysShown'
  BY PageKinds DEF PageGood, Quiet, session, KeysShown

\* A key is asked for.
LEMMA KeyAsked ==
    ASSUME CallsForm, KeysShown, auth, path = "keys", view.hurried \in BOOLEAN,
           NEW c, Send(c), c.op = "createKey" => view.modal = TRUE /\ view.generated = NoKey,
           view.owed = {} \/ view.hurried = TRUE,
           NEW v, DOMAIN v = ViewFields, Render(v),
           v.modal = view.modal, v.generated = view.generated, v.owed = view.owed,
           v.hurried = (view.hurried \/ Making(MakingOps))
    PROVE  KeysShown'
<1>1. /\ view'.modal = view.modal /\ view'.generated = view.generated
      /\ view'.owed = view.owed
      /\ view'.hurried = (view.hurried \/ Making(MakingOps))
  BY FormRendered DEF SameForm
<1>2. PICK s \in Slots : ~ PageCall(calls[s]) /\ calls'[s] = c /\ OthersStay(s)
  BY SentOne
<1>3. ASSUME view'.hurried = FALSE
      PROVE  view.hurried = FALSE /\ \A t \in Slots : ~ Makes(calls[t])
  BY <1>1, <1>3 DEF Making, Makes, Live, Idle, PageCall
<1>4. ASSUME view'.hurried = FALSE, NEW t \in Slots, Makes(calls'[t])
      PROVE  t = s
  BY <1>2, <1>3, <1>4 DEF OthersStay
<1> QED
  BY <1>1, <1>2, <1>3, <1>4 DEF KeysShown

\* A key is answered while the page awaits it.
LEMMA KeyAnswered ==
    ASSUME Inv, Types, KeysShown, auth, path = "keys", NEW s \in Slots,
           KeyOpAnswered(s)
    PROVE  KeysShown'
<1> DEFINE c == calls[s]
<1>1. /\ Answered(s) /\ Live(s) /\ c.op \in KeyOps /\ Consume(s) /\ Quiet
      /\ UNCHANGED <<path, auth>>
  BY DEF KeyOpAnswered, MutationAnswered, Quiet, session
<1>2. NoneMore /\ ~ Makes(calls'[s])
  BY <1>1, NoneMade DEF Inv
<1>3. /\ DOMAIN view = ViewFields /\ view.modal \in BOOLEAN
      /\ view.hurried \in BOOLEAN
  BY GoodTypes
<1>4. CASE Caught(s)
  BY <1>2, <1>3, <1>4, KeyKept DEF Caught, SameForm
<1>5. CASE Changed(s, view)
  BY <1>2, <1>3, <1>5, FormChanged, KeyKept
<1>6. CASE c.made # NoKey /\ Changed(s, WithKey(view, c))
  <2> DEFINE modal == view.modal \/ c.op = "rotateKey"
             v == [view EXCEPT !.generated = c.made, !.owed = @ \union {c.made},
                               !.modal = modal]
  <2>1. c.op \in MakingOps
    BY <1>1, <1>6, AtOfReply DEF MutationAnswered, KeyOps, MakingOps
  <2>2. Makes(c)
    BY <1>1, <2>1 DEF Makes, PageCall, Live, Idle, MakingOps, LayoutCalls
  <2>3. v = WithKey(view, c)
    BY DEF WithKey
  <2> HIDE DEF modal
  <2>4. /\ DOMAIN v = ViewFields /\ v.modal = modal /\ v.generated = c.made
        /\ v.owed = view.owed \union {c.made} /\ v.hurried = view.hurried
    BY <1>3 DEF ViewFields
  <2>5. Changed(s, v)
    BY <1>6, <2>3
  <2> HIDE DEF v
  <2>6. /\ view'.modal = modal /\ view'.generated = c.made
        /\ view'.owed = view.owed \union {c.made} /\ view'.hurried = view.hurried
    BY <2>4, <2>5, FormChanged DEF SameForm
  <2>7. ASSUME view.hurried = FALSE
        PROVE  /\ view.owed = {}
               /\ \A t \in Slots : Makes(calls[t]) => t = s
               /\ modal = TRUE
    <3>1. view.owed = {} /\ \A t \in Slots : Makes(calls[t]) => t = s
      BY <2>2, <2>7 DEF KeysShown
    <3>2. c.op = "createKey" => view.modal = TRUE
      BY <2>2, <2>7 DEF KeysShown
    <3> QED
      BY <1>3, <2>1, <3>1, <3>2 DEF MakingOps, modal
  <2>8. ASSUME view.hurried = FALSE
        PROVE  \A t \in Slots : ~ Makes(calls'[t])
    BY <1>2, <2>7, <2>8 DEF NoneMore
  <2> QED
    BY <1>1, <1>6, <2>6, <2>7, <2>8 DEF KeysShown
<1> QED
  BY <1>4, <1>5, <1>6 DEF KeyOpAnswered

\* The calls stay, and the form is another.
LEMMA KeyClicked ==
    ASSUME KeysShown, UNCHANGED calls, auth, path = "keys",
           NEW v, DOMAIN v = ViewFields, Render(v),
           v.hurried = FALSE =>
              /\ view.hurried = FALSE /\ v.owed = {}
              /\ \A s \in Slots : Makes(calls[s]) /\ calls[s].op = "createKey" =>
                    v.modal = TRUE /\ v.generated = NoKey
    PROVE  KeysShown'
<1>1. SameForm(v, view')
  BY FormRendered
<1> QED
  BY <1>1 DEF KeysShown, SameForm

LEMMA KeysShownPage ==
    ASSUME Inv, Types, KeysShown, KeysPageNext
    PROVE  KeysShown'
<1>1. auth /\ path = "keys" /\ CallsForm
  BY DEF KeysPageNext, On, Inv
<1>2. /\ DOMAIN view = ViewFields /\ view.modal \in BOOLEAN
      /\ view.hurried \in BOOLEAN /\ view.owed \subseteq Keys
  BY <1>1, GoodTypes
<1>3. ASSUME LoadKeysPage
      PROVE  KeysShown'
  <2> DEFINE v == [view EXCEPT !.phase = "loading", !.waiting = 2]
             c == Fetch({"keys"}, TRUE)
             d == Fetch({"clients"}, TRUE)
  <2>1. SendBoth(c, d) /\ Render(v) /\ c.op = "list" /\ d.op = "list"
    BY <1>3 DEF LoadKeysPage, Fetch, Call
  <2>2. SameForm(view, v)
    BY <1>2 DEF SameForm, ViewFields
  <2> HIDE DEF c, d, v
  <2>3. NoneMore
    <3>1. PICK s \in Slots, t \in Slots :
             /\ calls'[s] = c /\ calls'[t] = d
             /\ \A r \in Slots \ {s, t} : calls'[r] = calls[r]
      BY <1>1, <2>1, SentTwo
    <3> QED
      BY <2>1, <3>1 DEF NoneMore, Makes, MakingOps
  <2>4. SameForm(view, view')
    BY <2>1, <2>2, FormRendered DEF SameForm
  <2> QED
    BY <1>1, <2>3, <2>4, KeyKept
<1>4. ASSUME OpenCreate
      PROVE  KeysShown'
  <2> DEFINE v == [view EXCEPT !.generated = NoKey, !.modal = TRUE]
  <2>1. /\ UNCHANGED calls /\ Render(v) /\ view.modal = FALSE
    BY <1>2, <1>4 DEF OpenCreate, Click
  <2>2. /\ DOMAIN v = ViewFields /\ v.hurried = view.hurried
        /\ v.owed = view.owed /\ v.modal = TRUE /\ v.generated = NoKey
    BY <1>2 DEF ViewFields
  <2> HIDE DEF v
  <2>3. view.hurried = FALSE => view.owed = {}
    BY <1>1, <2>1 DEF KeysShown
  <2> QED
    BY <1>1, <2>1, <2>2, <2>3, KeyClicked
<1>5. ASSUME CloseCreate
      PROVE  KeysShown'
  <2> DEFINE hurried == view.hurried \/ Making({"createKey"})
             u == [view EXCEPT !.owed = @ \ {view.generated}, !.hurried = hurried]
             v == [u EXCEPT !.modal = FALSE]
  <2>1. UNCHANGED calls /\ Render(v)
    BY <1>5 DEF CloseCreate, CloseForm, Click
  <2>2. hurried = FALSE =>
           /\ view.hurried = FALSE
           /\ \A s \in Slots : ~ (Makes(calls[s]) /\ calls[s].op = "createKey")
    BY <1>2 DEF Making, Makes, PageCall, Live, Idle
  <2> HIDE DEF hurried
  <2>3. /\ DOMAIN v = ViewFields /\ v.hurried = hurried
        /\ v.owed = view.owed \ {view.generated}
    BY <1>2 DEF ViewFields
  <2> HIDE DEF v
  <2>4. view.hurried = FALSE => view.owed \ {view.generated} = {}
    BY <1>1 DEF KeysShown
  <2> QED
    BY <1>1, <2>1, <2>2, <2>3, <2>4, KeyClicked
<1>6. ASSUME DoneWithKey
      PROVE  KeysShown'
  <2> DEFINE v == [view EXCEPT !.generated = NoKey, !.modal = FALSE,
                               !.owed = @ \ {view.generated}]
  <2>1. UNCHANGED calls /\ Render(v) /\ view.generated # NoKey
    BY <1>6 DEF DoneWithKey, Click, KeyPanel
  <2>2. /\ DOMAIN v = ViewFields /\ v.hurried = view.hurried
        /\ v.owed = view.owed \ {view.generated}
    BY <1>2 DEF ViewFields
  <2> HIDE DEF v
  <2>3. view.hurried = FALSE =>
           /\ view.owed \ {view.generated} = {}
           /\ \A s \in Slots : ~ (Makes(calls[s]) /\ calls[s].op = "createKey")
    BY <1>1, <2>1 DEF KeysShown
  <2> QED
    BY <1>1, <2>1, <2>2, <2>3, KeyClicked
<1> DEFINE hurried == view.hurried \/ Making(MakingOps)
           w == [view EXCEPT !.hurried = hurried]
<1>7. /\ DOMAIN w = ViewFields /\ w.modal = view.modal
      /\ w.generated = view.generated /\ w.owed = view.owed /\ w.hurried = hurried
  <2> HIDE DEF hurried
  <2> QED
    BY <1>2 DEF ViewFields
<1>8. w = [view EXCEPT !.hurried = @ \/ Making({"createKey", "rotateKey"})]
  BY DEF MakingOps
<1>9. ASSUME NEW name, HandleCreateKey(name)
      PROVE  KeysShown'
  <2> DEFINE c == Refreshing("createKey", [client |-> name], {"keys"})
  <2>1. /\ Send(c) /\ Render(w) /\ view.modal = TRUE /\ view.generated = NoKey
    BY <1>2, <1>8, <1>9 DEF HandleCreateKey, KeyForm, FormShown
  <2>2. view.owed = {} \/ view.hurried = TRUE
    BY <1>1, <1>2, <2>1 DEF KeysShown
  <2> HIDE DEF c, w
  <2> QED
    BY <1>1, <1>2, <1>7, <2>1, <2>2, KeyAsked
<1>10. ASSUME NEW row, HandleRotate(row)
       PROVE  KeysShown'
  <2> DEFINE c == Refreshing("rotateKey", [row |-> row], {"keys"})
  <2>1. Send(c) /\ Render(w) /\ view.modal = FALSE /\ c.op = "rotateKey"
    BY <1>2, <1>8, <1>10 DEF HandleRotate, RowAction, RowsShown, Refreshing, Call
  <2>2. view.owed = {} \/ view.hurried = TRUE
    BY <1>1, <1>2, <2>1 DEF KeysShown
  <2> HIDE DEF c, w
  <2> QED
    BY <1>1, <1>2, <1>7, <2>1, <2>2, KeyAsked
<1>11. ASSUME NEW row, HandleDeleteKey(row) \/ HandleRevoke(row)
       PROVE  KeysShown'
  <2>1. PICK op \in {"deleteKey", "revokeKey"} : RowAction(op, row) /\ Render(view)
    BY <1>11 DEF HandleDeleteKey, HandleRevoke
  <2> DEFINE c == Refreshing(op, [row |-> row], {"keys"})
  <2>2. Send(c) /\ c.op \notin MakingOps
    BY <2>1 DEF RowAction, Refreshing, Call, MakingOps
  <2> HIDE DEF c
  <2>3. NoneMore
    BY <1>1, <2>2, SentOne DEF NoneMore, OthersStay, Makes
  <2> QED
    BY <1>1, <1>2, <2>1, <2>3, FormRendered, KeyKept
<1>12. ASSUME NEW s \in Slots, FetchAPIKeys(s)
       PROVE  KeysShown'
  <2> DEFINE c == calls[s]
             v == Rows(view, c, "keys")
  <2>1. NoneMore
    BY <1>1, <1>12, NoneMade DEF FetchAPIKeys, ListAnswered
  <2>2. SameForm(view, v)
    BY <1>2, FormListed
  <2>3. \/ Render(Awaited(v, c))
        \/ Render([Awaited(view, c) EXCEPT !.excused = TRUE])
    BY <1>12 DEF FetchAPIKeys, ListAnswered
  <2> HIDE DEF v
  <2>4. CASE Render(Awaited(v, c))
    <3>1. SameForm(v, Awaited(v, c))
      BY <2>2, FormAwaited DEF SameForm
    <3>2. SameForm(view, view')
      BY <2>2, <2>4, <3>1, FormRendered DEF SameForm
    <3> QED
      BY <1>1, <2>1, <3>2, KeyKept
  <2>5. CASE Render([Awaited(view, c) EXCEPT !.excused = TRUE])
    <3> DEFINE x == [Awaited(view, c) EXCEPT !.excused = TRUE]
    <3>1. SameForm(view, x) /\ Render(x)
      BY <1>2, <2>5, FormAwaited
    <3> HIDE DEF x
    <3>2. SameForm(view, view')
      BY <3>1, FormRendered DEF SameForm
    <3> QED
      BY <1>1, <2>1, <3>2, KeyKept
  <2> QED
    BY <2>3, <2>4, <2>5
<1> QED
  BY <1>1, <1>3, <1>4, <1>5, <1>6, <1>9, <1>10, <1>11, <1>12, KeyAnswered
  DEF KeysPageNext

\* A key that was made for the user is on the screen until the user has seen it
\* off, unless the user closed the form before the answer or asked for two keys
\* at once (generatedKey of api-keys/page.tsx).
THEOREM NewKeyShown == Spec => []KeyDisplayed
<1>1. Init => KeysShown
  BY DEF Init, SessionInit, KeysShown
<1>2. ASSUME Orderly, KeysShown, [Next]_vars
      PROVE  KeysShown'
  <2>1. CASE KeysPageNext
    BY <1>2, <2>1, KeysShownPage DEF Orderly
  <2>2. CASE PageNext /\ ~ KeysPageNext
    BY <1>2, <2>2, KeysElsewhere
    DEF Orderly, PageNext, RulesPageNext, ClientsPageNext, OverviewNext, On
  <2>3. CASE ~ PageNext
    BY <1>2, <2>3, FrameSteps, KeysFrame DEF Orderly
  <2> QED
    BY <2>1, <2>2, <2>3
<1>3. ASSUME Orderly, KeysShown
      PROVE  KeyDisplayed
  <2>1. auth => view.hurried \in BOOLEAN
    BY <1>3 DEF Orderly, Types, ViewTyped, ViewForm
  <2> QED
    BY <1>3, <2>1 DEF KeyDisplayed, KeysShown, On, KeyPanel
<1>4. Orderly /\ KeysShown /\ [Next]_vars => KeysShown'
  BY <1>2
<1> QED
  BY <1>1, <1>3, <1>4, Order, PTL DEF Spec

-----------------------------------------------------------------------------
(* What a step outside of the page makes of the rules and the owners. *)

\* Whatever the calls that write a rule ask for, they ask for it all the time.
ArgKept == \A s \in Slots :
    calls'[s].op = "putRule" =>
        calls[s].op = "putRule" /\ calls'[s].arg = calls[s].arg

\* A key that was issued keeps its owner as long as it is there.
OwnersKept ==
    /\ issued \subseteq issued'
    /\ \A new \in apiKeys' :
          \/ new.key \notin issued
          \/ \E row \in apiKeys : row.key = new.key /\ row.owner = new.owner

RulesValid == \A row \in rules : Validated(row.content)

LEMMA InsertOwners ==
    ASSUME apiKeys \subseteq KeyRow, NEW s, NEW k, k \notin issued, NEW owner,
           NEW old \in SUBSET apiKeys, Insert(s, k, owner, old)
    PROVE  OwnersKept
<1> DEFINE off == {[row EXCEPT !.active = FALSE] : row \in old}
           new == [key |-> k, owner |-> owner, active |-> TRUE]
<1>1. apiKeys' = (apiKeys \ old) \union off \union {new} /\ issued' = issued \union {k}
  BY DEF Insert
<1>2. \A r \in off : \E row \in apiKeys : r.key = row.key /\ r.owner = row.owner
  BY SwitchedOff
<1>3. new.key = k
  OBVIOUS
<1> HIDE DEF off, new
<1> QED
  BY <1>1, <1>2, <1>3 DEF OwnersKept

LEMMA FirstValid ==
    /\ Validated(Bucket(100, 1, 10, 60))
    /\ Validated(Window(100, 5))
  BY DEF Validated, Bucket, Window

LEMMA ServeOwners ==
    ASSUME TablesTyped, NEW s \in Slots, Serve(s)
    PROVE  OwnersKept
<1> DEFINE c == calls[s]
<1>1. ASSUME apiKeys' \subseteq apiKeys, issued' = issued
      PROVE  OwnersKept
  BY <1>1 DEF OwnersKept
<1>2. ASSUME NEW k \in Keys, k \notin issued, NEW owner, NEW old \in SUBSET apiKeys,
             Insert(s, k, owner, old)
      PROVE  OwnersKept
  BY <1>2, InsertOwners DEF TablesTyped
<1>3. CASE ServeKeys(s)
  <2>1. ASSUME NEW k \in Fresh(FALSE), Insert(s, k, c.arg.client, {})
        PROVE  OwnersKept
    <3>1. {} \in SUBSET apiKeys /\ k \in Keys /\ k \notin issued
      BY DEF Fresh
    <3> QED
      BY <1>2, <2>1, <3>1
  <2>2. ASSUME NEW row \in Named(c), NEW k \in Fresh(IsAdmin(c.arg.row.key)),
               Insert(s, k, row.owner, {row})
        PROVE  OwnersKept
    <3>1. {row} \in SUBSET apiKeys /\ k \in Keys /\ k \notin issued
      BY DEF Fresh, Named
    <3> QED
      BY <1>2, <2>2, <3>1
  <2>3. CASE /\ apiKeys' = (apiKeys \ Named(c)) \union
                           {[row EXCEPT !.active = FALSE] : row \in Named(c)}
             /\ UNCHANGED issued
    <3> DEFINE off == {[row EXCEPT !.active = FALSE] : row \in Named(c)}
    <3>1. \A r \in off : \E row \in apiKeys : r.key = row.key /\ r.owner = row.owner
      <4>1. Named(c) \subseteq apiKeys /\ apiKeys \subseteq KeyRow
        BY DEF Named, TablesTyped
      <4> QED
        BY <4>1, SwitchedOff
    <3>2. apiKeys' = (apiKeys \ Named(c)) \union off
      BY <2>3
    <3> HIDE DEF off
    <3> QED
      BY <2>3, <3>1, <3>2 DEF OwnersKept
  <2>4. CASE apiKeys' = apiKeys \ Named(c) /\ UNCHANGED issued
    BY <1>1, <2>4
  <2> QED
    BY <1>3, <2>1, <2>2, <2>3, <2>4 DEF ServeKeys
<1>4. CASE ServeRules(s) /\ UNCHANGED <<apiKeys, clients, issued>>
  BY <1>1, <1>4
<1>5. CASE ServeClients(s) /\ UNCHANGED issued
  BY <1>1, <1>5 DEF ServeClients
<1>6. CASE ServeRegister(s)
  <2>1. PICK k \in Fresh(FALSE) : Insert(s, k, c.arg.name, {})
    BY <1>6 DEF ServeRegister
  <2>2. {} \in SUBSET apiKeys /\ k \in Keys /\ k \notin issued
    BY DEF Fresh
  <2> QED
    BY <1>2, <2>1, <2>2
<1> QED
  BY <1>3, <1>4, <1>5, <1>6 DEF Serve

LEMMA ServeValid ==
    ASSUME RulesValid, NEW s \in Slots, Serve(s)
    PROVE  RulesValid'
<1> DEFINE c == calls[s]
<1>1. CASE UNCHANGED rules
  BY <1>1 DEF RulesValid
<1>2. CASE ServeRules(s)
  <2>1. c.op = "putRule" => Validated(c.arg.row.content)
    BY DEF Serve, Accepts
  <2> QED
    BY <1>2, <2>1 DEF ServeRules, RulesValid
<1>3. CASE ServeClients(s)
  BY <1>1, <1>3 DEF ServeClients, RulesValid
<1>4. CASE ServeRegister(s)
  <2> DEFINE rule == [client |-> c.arg.name, route |-> Star,
                      content |-> Bucket(100, 1, 10, 60)]
  <2>1. rules' = rules \union {rule} /\ rule.content = Bucket(100, 1, 10, 60)
    BY <1>4 DEF ServeRegister
  <2> HIDE DEF rule
  <2> QED
    BY <2>1, FirstValid DEF RulesValid
<1> QED
  BY <1>1, <1>2, <1>3, <1>4 DEF Serve

LEMMA ServerData ==
    ASSUME Inv, Types, Server
    PROVE  ArgKept /\ OwnersKept /\ (RulesValid => RulesValid')
<1>1. ArgKept
  <2>1. AllServed
    BY ServerTypes DEF Inv, Shows, Types, CallsGood
  <2> QED
    BY <2>1 DEF ArgKept, AllServed, ServedAt, Served
<1>2. ASSUME UNCHANGED tables
      PROVE  OwnersKept /\ (RulesValid => RulesValid')
  BY <1>2 DEF tables, OwnersKept, RulesValid
<1>3. ASSUME NEW s \in Slots, Serve(s)
      PROVE  OwnersKept /\ (RulesValid => RulesValid')
  BY <1>3, ServeOwners, ServeValid DEF Types
<1>4. ASSUME Others
      PROVE  OwnersKept /\ (RulesValid => RulesValid')
  BY <1>4 DEF Others, OwnersKept, RulesValid
<1>5. OwnersKept /\ (RulesValid => RulesValid')
  BY <1>2, <1>3, <1>4 DEF Server, ServeList, ServeLogin, Reject, Refuse, Fail
<1> QED
  BY <1>1, <1>5

\* What follows a call is a list, and what is forgotten is what it was.
LEMMA FollowArg ==
    ASSUME CallsForm, NEW s \in Slots, ~ Idle(s), NEW key
    PROVE  FollowUp(s, key).op # "putRule"
  BY Following, NoCallForm

LEMMA ForgetArg ==
    ASSUME NEW c, CallForm(c), Forget(c).op = "putRule"
    PROVE  c.op = "putRule" /\ Forget(c).arg = c.arg
<1>1. Forget(c) # NoCall /\ c # NoCall
  BY NoCallForm DEF Forget
<1>2. DOMAIN c = Fields
  BY <1>1 DEF CallForm
<1> DEFINE d == [c EXCEPT !.live = FALSE, !.load = FALSE, !.body = <<>>, !.at = 0,
                 !.made = NoKey, !.then = IF @ = {} THEN {} ELSE {"keys"},
                 !.arg = IF c.op = "list" THEN [parts |-> {"keys"}] ELSE @]
<1>3. Forget(c) = d
  BY <1>1 DEF Forget
<1>4. d.op = c.op /\ d.arg = IF c.op = "list" THEN [parts |-> {"keys"}] ELSE c.arg
  BY <1>2 DEF Fields
<1> HIDE DEF d
<1> QED
  BY <1>3, <1>4

LEMMA UnmountArgs ==
    ASSUME NEW cs, NEW kept, calls' = Unmount(cs, kept),
           \A s \in Slots : /\ CallForm(cs[s])
                            /\ cs[s] = calls[s] \/ cs[s].op # "putRule"
    PROVE  ArgKept
<1>1. ASSUME NEW s \in Slots, calls'[s].op = "putRule"
      PROVE  calls[s].op = "putRule" /\ calls'[s].arg = calls[s].arg
  <2>1. calls'[s] = cs[s] \/ calls'[s] = Forget(cs[s])
    BY DEF Unmount
  <2>2. cs[s].op = "putRule" /\ calls'[s].arg = cs[s].arg
    BY <1>1, <2>1, ForgetArg
  <2> QED
    BY <2>2
<1> QED
  BY <1>1 DEF ArgKept

LEMMA ConsumeArgs ==
    ASSUME CallsForm, NEW s \in Slots, ~ Idle(s), Consume(s)
    PROVE  ArgKept
<1> DEFINE next == FollowUp(s, stored)
<1>1. calls' = [calls EXCEPT ![s] = next] /\ next.op # "putRule"
  BY FollowArg DEF Consume
<1> HIDE DEF next
<1> QED
  BY <1>1, OneSlot DEF ArgKept

LEMMA SendArgs ==
    ASSUME CallsForm, NEW c, Send(c), c.op # "putRule"
    PROVE  ArgKept
  BY SentOne DEF OthersStay, ArgKept

LEMMA SessionData ==
    ASSUME Inv, SessionNext
    PROVE  ArgKept /\ UNCHANGED tables
<1>0. CallsForm
  BY DEF Inv
<1>1. UNCHANGED calls => ArgKept
  BY DEF ArgKept
<1>2. ASSUME NEW kept, calls' = Unmount(calls, kept)
      PROVE  ArgKept
  BY <1>0, <1>2, UnmountArgs DEF CallsForm
<1>3. ASSUME NEW p, Open(p) \/ Visit(p)
      PROVE  ArgKept /\ UNCHANGED tables
  BY <1>1, <1>2, <1>3 DEF Open, Visit, apiVars
<1>4. CASE Leave \/ HandleLogout
  BY <1>2, <1>4 DEF Leave, HandleLogout
<1>5. CASE Enter
  BY <1>1, <1>5 DEF Enter
<1>6. ASSUME NEW mode, ShowForm(mode)
      PROVE  ArgKept /\ UNCHANGED tables
  BY <1>1, <1>6 DEF ShowForm, apiVars
<1>7. ASSUME NEW k, HandleLogin(k)
      PROVE  ArgKept /\ UNCHANGED tables
  <2> DEFINE c == [Call("login", <<>>) EXCEPT !.key = k]
  <2>1. Send(c) /\ UNCHANGED tables /\ c.op = "login"
    BY <1>7 DEF HandleLogin, Verifying, Call
  <2> HIDE DEF c
  <2> QED
    BY <1>0, <2>1, SendArgs
<1>8. ASSUME NEW name, HandleRegister(name)
      PROVE  ArgKept /\ UNCHANGED tables
  <2> DEFINE c == Call("register", [name |-> name])
  <2>1. Send(c) /\ UNCHANGED tables /\ c.op = "register"
    BY <1>8 DEF HandleRegister, Verifying, Call
  <2> HIDE DEF c
  <2> QED
    BY <1>0, <2>1, SendArgs
<1>9. ASSUME NEW s \in Slots, LoginAnswered(s) \/ RegisterAnswered(s)
      PROVE  ArgKept /\ UNCHANGED tables
  BY <1>0, <1>9, ConsumeArgs DEF LoginAnswered, RegisterAnswered, Answered
<1>10. ASSUME NEW s \in Slots, Unauthorized(s)
       PROVE  ArgKept /\ UNCHANGED tables
  <2> DEFINE next == FollowUp(s, NoKey)
             cs == [calls EXCEPT ![s] = next]
  <2>1. ~ Idle(s) /\ calls' = Unmount(cs, LayoutCalls) /\ UNCHANGED tables
    BY <1>10 DEF Unauthorized, Answered
  <2>2. next.op # "putRule" /\ CallForm(next)
    BY <1>0, <2>1, FollowArg, Following, NoCallForm
  <2> HIDE DEF next
  <2>3. \A t \in Slots : /\ CallForm(cs[t])
                         /\ cs[t] = calls[t] \/ cs[t].op # "putRule"
    BY <1>0, <2>2 DEF CallsForm
  <2> HIDE DEF cs
  <2> QED
    BY <2>1, <2>3, UnmountArgs
<1>11. ASSUME NEW k, Elsewhere(k)
       PROVE  ArgKept /\ UNCHANGED tables
  BY <1>1, <1>11 DEF Elsewhere
<1> QED
  BY <1>3, <1>4, <1>5, <1>6, <1>7, <1>8, <1>9, <1>10, <1>11 DEF SessionNext

LEMMA FrameData ==
    ASSUME Inv, Types, [Next]_vars, ~ PageNext
    PROVE  ArgKept /\ OwnersKept /\ (RulesValid => RulesValid')
<1>1. ASSUME UNCHANGED tables
      PROVE  OwnersKept /\ (RulesValid => RulesValid')
  BY <1>1 DEF tables, OwnersKept, RulesValid
<1>2. CASE SessionNext
  BY <1>1, <1>2, SessionData
<1>3. CASE Server
  BY <1>3, ServerData
<1>4. ASSUME NEW s \in Slots, DeadAnswer(s)
      PROVE  ArgKept /\ OwnersKept /\ (RulesValid => RulesValid')
  BY <1>1, <1>4, ConsumeArgs DEF DeadAnswer, Answered, Inv
<1>5. CASE UNCHANGED vars
  BY <1>1, <1>5 DEF vars, apiVars, ArgKept
<1> QED
  BY <1>2, <1>3, <1>4, <1>5 DEF Next, PageNext

-----------------------------------------------------------------------------
(* Whose rules the page of the rules shows. *)

\* Rows of one client only.
OfName(b, n) ==
    /\ "clients" \in DOMAIN b => b["clients"] \subseteq {n}
    /\ "rules" \in DOMAIN b => \A row \in b["rules"] : row.client = n
ViewFits(v, n) == OfName(v.body, n) /\ \A e \in v.editing : e.client = n
CallsFit(n) == \A s \in Slots : PageCall(calls[s]) => OfName(calls[s].body, n)
Fits(n) == ViewFits(view, n) /\ CallsFit(n)

OwnerIs(n) == \A row \in apiKeys : row.key = stored => row.owner = n

\* All that the page of a client has fetched is of one client, that of its key.
\* Before the key was issued there is nothing.
OneClient == \E n \in Names :
    Fits(n) /\ OwnerIs(n) /\ (stored \notin issued => \A m \in Names : Fits(m))

RulesKnown == auth /\ path = "rules" /\ Undisturbed =>
    /\ view.role = IsAdmin(stored)
    /\ ~ IsAdmin(stored) => OneClient

LEMMA OneClientKept ==
    ASSUME OneClient, OwnersKept, TablesTyped', UNCHANGED stored,
           \A n \in Names : Fits(n) /\ (OwnerIs(n) \/ stored \notin issued)
                               => Fits(n)'
    PROVE  OneClient'
<1>1. PICK n \in Names : /\ Fits(n) /\ OwnerIs(n)
                         /\ stored \notin issued => \A m \in Names : Fits(m)
  BY DEF OneClient
<1>2. CASE stored \in issued
  <2>1. OwnerIs(n)'
    BY <1>1, <1>2 DEF OwnersKept, OwnerIs
  <2>2. Fits(n)' /\ stored' \in issued'
    BY <1>1, <1>2 DEF OwnersKept
  <2> QED
    BY <2>1, <2>2 DEF OneClient
<1>3. CASE stored \notin issued
  <2>1. \A m \in Names : Fits(m)'
    BY <1>1, <1>3
  <2>2. \E m \in Names : OwnerIs(m)'
    <3>1. CASE \E row \in apiKeys' : row.key = stored'
      BY <3>1 DEF TablesTyped, OwnerIs
    <3>2. CASE \A row \in apiKeys' : row.key # stored'
      BY <3>2, ApiAssumption DEF OwnerIs
    <3> QED
      BY <3>1, <3>2
  <2> QED
    BY <2>1, <2>2 DEF OneClient
<1> QED
  BY <1>2, <1>3

LEMMA OneClientAnew ==
    ASSUME Anew, TablesTyped'
    PROVE  OneClient'
<1>1. ASSUME NEW m
      PROVE  Fits(m)'
  <2>1. view'.body = NoRows /\ view'.editing = {}
    BY DEF Anew, Mounted
  <2>2. ViewFits(view', m)
    BY <2>1 DEF ViewFits, OfName, NoRows, Parts
  <2>3. CallsFit(m)'
    BY DEF Anew, CallsFit
  <2> QED
    BY <2>2, <2>3 DEF Fits
<1>2. \E m \in Names : OwnerIs(m)'
  <2>1. CASE \E row \in apiKeys' : row.key = stored'
    BY <2>1 DEF TablesTyped, OwnerIs
  <2>2. CASE \A row \in apiKeys' : row.key # stored'
    BY <2>2, ApiAssumption DEF OwnerIs
  <2> QED
    BY <2>1, <2>2
<1> QED
  BY <1>1, <1>2 DEF OneClient

\* What the server lists for a client.
LEMMA ListedOne ==
    ASSUME Valid(stored), ~ IsAdmin(stored), NEW n, OwnerIs(n)
    PROVE  /\ Listed("clients", stored) \subseteq {n}
           /\ \A rule \in Listed("rules", stored) : rule.client = n
<1>1. PICK row \in apiKeys : row.key = stored
  BY DEF Valid
<1>2. OwnerOf(stored) = n
  BY <1>1 DEF OwnerOf, OwnerIs
<1>3. \A name : Own(stored, name) => name = n
  BY <1>2 DEF Own
<1>4. Listed("clients", stored) = {name \in clients : Own(stored, name)}
  BY DEF Listed
<1>5. Listed("rules", stored) = {rule \in rules : Own(stored, rule.client)}
  BY DEF Listed
<1> QED
  BY <1>3, <1>4, <1>5

LEMMA ServedFits ==
    ASSUME Inv, Types, Types', auth, Undisturbed, ~ IsAdmin(stored),
           NEW n \in Names, Fits(n), OwnerIs(n) \/ stored \notin issued, Serving
    PROVE  Fits(n)'
<1>1. ASSUME NEW s \in Slots, PageCall(calls'[s])
      PROVE  OfName(calls'[s].body, n)
  <2> DEFINE c == calls[s]
             d == calls'[s]
  <2>1. PageCall(c) /\ OfName(c.body, n) /\ ~ Idle(s) /\ c.key = stored
    BY <1>1 DEF Serving, Undisturbed, Fits, CallsFit, PageCall, Idle, Inv, Shows
  <2>2. CASE d = c
    BY <2>1, <2>2
  <2>3. CASE d.body = c.body
    BY <2>1, <2>3
  <2>4. ASSUME NEW part \in Parts, ServeList(s, part)
        PROVE  OfName(d.body, n)
    <3>1. Valid(stored)
      BY <2>1, <2>4 DEF ServeList
    <3>2. stored \in issued
      BY <3>1 DEF Valid, Types, TablesTyped
    <3>3. /\ Listed("clients", stored) \subseteq {n}
          /\ \A row \in Listed("rules", stored) : row.client = n
      BY <3>1, <3>2, ListedOne
    <3>4. d.body = [p \in DOMAIN c.body \union {part} |->
                       IF p = part THEN Listed(p, stored) ELSE c.body[p]]
      BY <2>1, <2>4, OneListMore DEF Inv
    <3> HIDE DEF c, d
    <3>5. \A p \in DOMAIN d.body : \/ d.body[p] = Listed(p, stored)
                                   \/ p \in DOMAIN c.body /\ d.body[p] = c.body[p]
      BY <3>4
    <3> QED
      BY <2>1, <3>3, <3>5 DEF OfName
  <2>5. d = c \/ ServedAt(s)
    BY <1>1, <2>1 DEF Serving
  <2>6. CASE c.op = "list" /\ ServedAt(s)
    BY <2>3, <2>4, <2>6 DEF ServedAt
  <2>7. ASSUME c.op # "list", ServedAt(s)
        PROVE  OfName(d.body, n)
    <3>1. d.op # "list" /\ PageCall(d)
      BY <1>1, <2>7 DEF ServedAt, Served
    <3>2. DOMAIN d.body = {}
      BY <1>1, <3>1, NoCallForm DEF Types, CallsTyped, CallTyped, PageCall
    <3> QED
      BY <3>2 DEF OfName
  <2> QED
    BY <2>2, <2>5, <2>6, <2>7
<1>2. ViewFits(view', n)
  BY DEF Serving, Fits
<1> QED
  BY <1>1, <1>2 DEF Fits, CallsFit

\* The calls move and none brings rows of another client.
LEMMA SentFits ==
    ASSUME CallsForm, NEW n, CallsFit(n), NEW c, Send(c), c.body = <<>>
    PROVE  CallsFit(n)'
<1>1. OfName(c.body, n)
  BY NoBody DEF OfName
<1> QED
  BY <1>1, SentOne DEF CallsFit, OthersStay

LEMMA BothFit ==
    ASSUME CallsForm, NEW n, CallsFit(n), NEW c, NEW d, SendBoth(c, d),
           c.body = <<>>, d.body = <<>>
    PROVE  CallsFit(n)'
<1>1. OfName(c.body, n) /\ OfName(d.body, n)
  BY NoBody DEF OfName
<1>2. PICK s \in Slots, t \in Slots :
         /\ s # t /\ calls'[s] = c /\ calls'[t] = d
         /\ \A r \in Slots \ {s, t} : calls'[r] = calls[r]
  BY SentTwo
<1> QED
  BY <1>1, <1>2 DEF CallsFit

LEMMA ConsumedFits ==
    ASSUME CallsForm, NEW n, CallsFit(n), NEW s \in Slots, Live(s),
           calls[s].op \notin LayoutCalls, Consume(s)
    PROVE  CallsFit(n)' /\ OfName(calls[s].body, n)
<1>1. OfName(calls[s].body, n)
  BY DEF CallsFit, PageCall, Live, Idle
<1>2. PageCall(calls'[s]) => OfName(calls'[s].body, n)
  <2>1. ~ PageCall(NoCall)
    BY NoCallForm DEF PageCall
  <2>2. OfName(<<>>, n)
    BY NoBody DEF OfName
  <2> QED
    BY <1>1, <2>1, <2>2, Consumed DEF Follows
<1> QED
  BY <1>1, <1>2, Consumed DEF CallsFit, OthersStay

\* A form for the rows of one client, or none, above what was listed.
LEMMA SameFits ==
    ASSUME NEW n, NEW v, ViewFits(v, n), SameForm(v, view'), view'.body = v.body
    PROVE  ViewFits(view', n)
  BY DEF ViewFits, SameForm

LEMMA RulesClicked ==
    ASSUME NEW n, Fits(n), DOMAIN view = ViewFields,
           NEW rows, \A e \in rows : e.client = n,
           Click([view EXCEPT !.editing = rows, !.modal = TRUE])
    PROVE  Fits(n)'
<1> DEFINE v == [view EXCEPT !.editing = rows, !.modal = TRUE]
<1>1. DOMAIN v = ViewFields /\ v.editing = rows /\ v.body = view.body
  BY DEF ViewFields
<1>2. Render(v) /\ UNCHANGED calls
  BY DEF Click
<1> HIDE DEF v
<1>3. ViewFits(v, n)
  BY <1>1 DEF Fits, ViewFits
<1>4. ViewFits(view', n)
  BY <1>1, <1>2, <1>3, FormRendered, SameFits
<1> QED
  BY <1>2, <1>4 DEF Fits, CallsFit

LEMMA RulesRendered ==
    ASSUME NEW n, Fits(n), CallsFit(n)', NEW v, DOMAIN view = ViewFields,
           SameForm(view, v), v.body = view.body, Render(v)
    PROVE  Fits(n)'
<1>1. SameForm(v, view') /\ view'.body = v.body
  BY FormRendered DEF SameForm
<1>2. ViewFits(v, n)
  BY DEF Fits, ViewFits, SameForm
<1> QED
  BY <1>1, <1>2, SameFits DEF Fits

\* A list arrives.
LEMMA RulesListed ==
    ASSUME Inv, Types, auth, NEW n, Fits(n), NEW s \in Slots, FetchRateLimits(s)
    PROVE  Fits(n)'
<1> DEFINE c == calls[s]
           v == Rows(view, c, "rules")
<1>1. /\ Answered(s) /\ Live(s) /\ c.op = "list" /\ Consume(s)
      /\ \/ c.code = "ok" /\ Render(Awaited(v, c))
         \/ Render([Awaited(view, c) EXCEPT !.excused = TRUE])
  BY DEF FetchRateLimits, ListAnswered
<1>2. CallsFit(n)' /\ OfName(c.body, n)
  BY <1>1, ConsumedFits DEF Fits, LayoutCalls, Inv
<1>3. DOMAIN view = ViewFields /\ SameForm(view, view)
  BY GoodTypes DEF SameForm
<1>4. ASSUME c.code = "ok", Render(Awaited(v, c))
      PROVE  Fits(n)'
  <2>1. c.arg.parts \subseteq DOMAIN c.body
    BY <1>1, <1>4, RowsThere DEF Inv, Types
  <2>2. /\ SameForm(view, v)
        /\ v.body = [p \in Parts |-> IF p \in c.arg.parts THEN c.body[p]
                                     ELSE view.body[p]]
    BY <1>3, FormListed
  <2>3. DOMAIN view.body = Parts
    BY GoodTypes DEF Good, ViewForm
  <2> HIDE DEF c, v
  <2>4. OfName(v.body, n)
    BY <1>2, <2>1, <2>2, <2>3 DEF OfName, Fits, ViewFits, Parts
  <2>5. ViewFits(v, n)
    BY <2>2, <2>4 DEF ViewFits, Fits, SameForm
  <2> DEFINE w == Awaited(v, c)
  <2>6. SameForm(v, w) /\ w.body = v.body /\ Render(w)
    BY <1>4, <2>2, FormAwaited DEF SameForm
  <2> HIDE DEF w
  <2>7. ViewFits(w, n)
    BY <2>5, <2>6 DEF ViewFits, SameForm
  <2>8. /\ SameForm(w, view') /\ view'.body = w.body
    BY <2>6, FormRendered DEF SameForm
  <2>9. ViewFits(view', n)
    BY <2>7, <2>8, SameFits
  <2> QED
    BY <1>2, <2>8, <2>9 DEF Fits
<1>5. ASSUME Render([Awaited(view, c) EXCEPT !.excused = TRUE])
      PROVE  Fits(n)'
  <2> DEFINE w == [Awaited(view, c) EXCEPT !.excused = TRUE]
  <2>1. SameForm(view, w) /\ w.body = view.body /\ Render(w)
    BY <1>3, <1>5, FormAwaited
  <2> HIDE DEF w
  <2> QED
    BY <1>2, <1>3, <2>1, RulesRendered
<1> QED
  BY <1>1, <1>4, <1>5

\* A change is answered.
LEMMA RulesAnswered ==
    ASSUME Inv, Types, auth, NEW n, Fits(n), NEW s \in Slots, RuleOpAnswered(s)
    PROVE  Fits(n)'
<1>1. /\ Live(s) /\ calls[s].op \in {"putRule", "deleteRule"} /\ Consume(s)
      /\ \/ Changed(s, [view EXCEPT !.modal = FALSE])
         \/ Changed(s, view) \/ Caught(s)
  BY DEF RuleOpAnswered, MutationAnswered
<1>2. CallsFit(n)'
  BY <1>1, ConsumedFits DEF Fits, LayoutCalls, Inv
<1>3. DOMAIN view = ViewFields
  BY GoodTypes
<1>4. ASSUME NEW v, DOMAIN v = ViewFields, v.body = view.body,
             v.editing = view.editing, Changed(s, v)
      PROVE  Fits(n)'
  <2>1. SameForm(v, view') /\ view'.body = v.body
    BY <1>4, FormChanged
  <2>2. ViewFits(v, n)
    BY <1>4 DEF Fits, ViewFits
  <2> QED
    BY <1>2, <2>1, <2>2, SameFits DEF Fits
<1>5. CASE Changed(s, view)
  BY <1>3, <1>4, <1>5
<1>6. CASE Changed(s, [view EXCEPT !.modal = FALSE])
  <2> DEFINE v == [view EXCEPT !.modal = FALSE]
  <2>1. /\ DOMAIN v = ViewFields /\ v.body = view.body
        /\ v.editing = view.editing
    BY <1>3 DEF ViewFields
  <2>2. Changed(s, v)
    BY <1>6
  <2> HIDE DEF v
  <2> QED
    BY <1>4, <2>1, <2>2
<1>7. CASE Caught(s)
  BY <1>2, <1>7 DEF Caught, Fits
<1> QED
  BY <1>1, <1>5, <1>6, <1>7

LEMMA RulesFits ==
    ASSUME Inv, Types, RulesPageNext, NEW n, Fits(n)
    PROVE  Fits(n)'
<1>1. auth /\ CallsForm /\ CallsFit(n)
  BY DEF RulesPageNext, On, Inv, Fits
<1>2. DOMAIN view = ViewFields /\ DOMAIN view.body = Parts /\ SameForm(view, view)
  BY <1>1, GoodTypes DEF Good, ViewForm, SameForm
<1>3. ASSUME LoadRulesPage
      PROVE  Fits(n)'
  <2> DEFINE v == [view EXCEPT !.phase = "loading", !.waiting = 2]
             c == Fetch({"rules"}, TRUE)
             d == Fetch({"clients"}, TRUE)
  <2>1. /\ SendBoth(c, d) /\ Render(v) /\ c.body = <<>> /\ d.body = <<>>
    BY <1>3 DEF LoadRulesPage, Fetch, Call
  <2>2. SameForm(view, v) /\ v.body = view.body
    BY <1>2 DEF SameForm, ViewFields
  <2> HIDE DEF c, d, v
  <2> QED
    BY <1>1, <1>2, <2>1, <2>2, BothFit, RulesRendered
<1>4. CASE OpenAddRule
  <2> DEFINE rows == {}
  <2>1. /\ Click([view EXCEPT !.editing = rows, !.modal = TRUE])
        /\ \A e \in rows : e.client = n
    BY <1>4 DEF OpenAddRule
  <2> HIDE DEF rows
  <2> QED
    BY <1>2, <2>1, RulesClicked
<1>5. ASSUME NEW row \in view.body["rules"], OpenEditRule(row)
      PROVE  Fits(n)'
  <2> DEFINE rows == {row}
  <2>1. Click([view EXCEPT !.editing = rows, !.modal = TRUE])
    BY <1>5 DEF OpenEditRule
  <2>2. \A e \in rows : e.client = n
    BY <1>2 DEF Fits, ViewFits, OfName, Parts
  <2> HIDE DEF rows
  <2> QED
    BY <1>2, <2>1, <2>2, RulesClicked
<1>6. CASE CloseRule
  <2> DEFINE v == [view EXCEPT !.modal = FALSE]
  <2>1. UNCHANGED calls /\ Render(v)
    BY <1>6 DEF CloseRule, CloseForm, Click
  <2>2. /\ DOMAIN v = ViewFields /\ v.body = view.body /\ v.editing = view.editing
    BY <1>2 DEF ViewFields
  <2> HIDE DEF v
  <2>3. ViewFits(v, n)
    BY <2>2 DEF Fits, ViewFits
  <2>4. SameForm(v, view') /\ view'.body = v.body
    BY <2>1, <2>2, FormRendered
  <2> QED
    BY <1>1, <2>1, <2>3, <2>4, SameFits DEF Fits, CallsFit
<1>7. ASSUME NEW op, NEW arg, Send(Refreshing(op, arg, {"rules"})), Render(view)
      PROVE  Fits(n)'
  <2> DEFINE c == Refreshing(op, arg, {"rules"})
  <2>1. c.body = <<>>
    BY DEF Refreshing, Call
  <2>2. Send(c)
    BY <1>7
  <2> HIDE DEF c
  <2> QED
    BY <1>1, <1>2, <1>7, <2>1, <2>2, SentFits, RulesRendered
<1>8. ASSUME NEW form, NEW name, NEW route, NEW typed,
             HandleSaveRule(name, route, form, typed)
      PROVE  Fits(n)'
  <2> DEFINE arg == [row |-> [client |-> name, route |-> Trim[route],
                              content |-> Payload(typed)],
                     edited |-> view.editing, untouched |-> typed = form,
                     behind |-> switched \/ overtaken]
  <2>1. Send(Refreshing("putRule", arg, {"rules"})) /\ Render(view)
    BY <1>8 DEF HandleSaveRule
  <2> HIDE DEF arg
  <2> QED
    BY <1>7, <2>1
<1>9. ASSUME NEW row, HandleDeleteRule(row)
      PROVE  Fits(n)'
  <2> DEFINE arg == [row |-> row]
  <2>1. Send(Refreshing("deleteRule", arg, {"rules"})) /\ Render(view)
    BY <1>9 DEF HandleDeleteRule
  <2> HIDE DEF arg
  <2> QED
    BY <1>7, <2>1
<1>10. ASSUME NEW s \in Slots, RuleOpAnswered(s) \/ FetchRateLimits(s)
       PROVE  Fits(n)'
  BY <1>1, <1>10, RulesAnswered, RulesListed
<1> QED
  BY <1>3, <1>4, <1>5, <1>6, <1>8, <1>9, <1>10 DEF RulesPageNext

\* Every rendering reads the role of the stored key.
LEMMA RulesRole ==
    ASSUME DOMAIN view = ViewFields, RulesPageNext
    PROVE  view'.role \in {view.role, IsAdmin(stored)}
<1> DEFINE Goal == view'.role \in {view.role, IsAdmin(stored)}
<1>1. ASSUME NEW v, DOMAIN v = ViewFields, Render(v)
      PROVE  Goal
  BY <1>1, FormRendered
<1>2. ASSUME NEW v, DOMAIN v = ViewFields, Click(v)
      PROVE  Goal
  BY <1>1, <1>2 DEF Click
<1>3. ASSUME NEW s, NEW v, DOMAIN v = ViewFields, Changed(s, v)
      PROVE  Goal
  BY <1>3, FormChanged
<1>4. CASE LoadRulesPage
  BY <1>1, <1>4 DEF LoadRulesPage
<1>5. CASE OpenAddRule \/ CloseRule
  BY <1>2, <1>5 DEF OpenAddRule, CloseRule, CloseForm
<1>6. ASSUME NEW row, OpenEditRule(row) \/ HandleDeleteRule(row)
      PROVE  Goal
  BY <1>1, <1>2, <1>6 DEF OpenEditRule, HandleDeleteRule
<1>7. ASSUME NEW form, NEW name, NEW route, NEW typed,
             HandleSaveRule(name, route, form, typed)
      PROVE  Goal
  BY <1>1, <1>7 DEF HandleSaveRule
<1>8. ASSUME NEW s \in Slots, RuleOpAnswered(s)
      PROVE  Goal
  BY <1>3, <1>8 DEF RuleOpAnswered, Caught
<1>9. ASSUME NEW s \in Slots, FetchRateLimits(s)
      PROVE  Goal
  <2> DEFINE c == calls[s]
             v == Rows(view, c, "rules")
             w == Awaited(v, c)
             x == [Awaited(view, c) EXCEPT !.excused = TRUE]
  <2>1. Render(w) \/ Render(x)
    BY <1>9 DEF FetchRateLimits, ListAnswered
  <2>2. DOMAIN v = ViewFields
    BY FormListed DEF SameForm
  <2>3. DOMAIN w = ViewFields /\ DOMAIN x = ViewFields
    <3> HIDE DEF v
    <3> QED
      BY <2>2, FormAwaited DEF SameForm
  <2> HIDE DEF w, x
  <2> QED
    BY <1>1, <2>1, <2>3
<1> QED
  BY <1>4, <1>5, <1>6, <1>7, <1>8, <1>9 DEF RulesPageNext

-----------------------------------------------------------------------------
(* What the form for a rule asks for. *)

\* A rule is asked for with the client and the trimmed route of the one the form
\* is for, and with its parameters if nothing was typed.
TargetOk(arg) == arg.edited # {} /\ arg.behind = FALSE =>
    \E e \in arg.edited :
        /\ \A f \in arg.edited : f = e
        /\ arg.row.client = e.client /\ arg.row.route = Trim[e.route]
        /\ arg.untouched = TRUE =>
              \E form \in FormOf({e}) : arg.row.content = Payload(form)

Targets == \A s \in Slots : calls[s].op = "putRule" => TargetOk(calls[s].arg)

LEMMA RulesKnownFrame ==
    ASSUME Inv, Types, Types', Frame, OwnersKept, RulesKnown
    PROVE  RulesKnown'
<1>1. CASE auth' = FALSE
  BY <1>1 DEF RulesKnown
<1>2. CASE Anew
  <2>1. OneClient'
    BY <1>2, OneClientAnew DEF Types
  <2>2. view'.role = IsAdmin(stored')
    BY <1>2 DEF Anew, Mounted
  <2> QED
    BY <2>1, <2>2 DEF RulesKnown
<1>3. CASE Serving
  <2> SUFFICES ASSUME auth', path' = "rules", Undisturbed'
               PROVE  /\ view'.role = IsAdmin(stored')
                      /\ ~ IsAdmin(stored') => OneClient'
    BY DEF RulesKnown
  <2>1. /\ auth /\ path = "rules" /\ Undisturbed
        /\ UNCHANGED <<view, stored>>
    BY <1>3 DEF Serving, Types, SessionTyped
  <2>2. view.role = IsAdmin(stored) /\ (~ IsAdmin(stored) => OneClient)
    BY <2>1 DEF RulesKnown
  <2>3. ASSUME ~ IsAdmin(stored)
        PROVE  OneClient'
    <3>1. ASSUME NEW n \in Names, Fits(n), OwnerIs(n) \/ stored \notin issued
          PROVE  Fits(n)'
      BY <1>3, <2>1, <2>3, <3>1, ServedFits
    <3> QED
      BY <2>1, <2>2, <2>3, <3>1, OneClientKept DEF Types
  <2> QED
    BY <2>1, <2>2, <2>3
<1> QED
  BY <1>1, <1>2, <1>3 DEF Frame

LEMMA RulesKnownPage ==
    ASSUME Inv, Types, Types', PageNext, RulesKnown
    PROVE  RulesKnown'
<1>1. auth /\ UNCHANGED <<path, auth, Undisturbed, stored, apiKeys, issued>>
  BY PageKinds DEF PageGood, Quiet, session, tables, Undisturbed
<1>2. CASE path # "rules"
  BY <1>1, <1>2 DEF RulesKnown
<1>3. CASE path = "rules"
  <2> SUFFICES ASSUME Undisturbed
               PROVE  /\ view'.role = IsAdmin(stored)
                      /\ ~ IsAdmin(stored) => OneClient'
    BY <1>1 DEF RulesKnown, IsAdmin
  <2>1. RulesPageNext
    BY <1>3 DEF PageNext, KeysPageNext, ClientsPageNext, OverviewNext, On
  <2>2. view.role = IsAdmin(stored) /\ (~ IsAdmin(stored) => OneClient)
    BY <1>1, <1>3 DEF RulesKnown
  <2>3. ASSUME NEW n, Fits(n)
        PROVE  Fits(n)'
    BY <2>1, <2>3, RulesFits
  <2>4. ASSUME ~ IsAdmin(stored)
        PROVE  OneClient'
    <3>1. OwnersKept
      BY <1>1 DEF OwnersKept
    <3> QED
      BY <1>1, <2>2, <2>3, <2>4, <3>1, OneClientKept DEF Types
  <2>5. view'.role \in {view.role, IsAdmin(stored)}
    BY <1>1, <2>1, GoodTypes, RulesRole
  <2> QED
    BY <2>2, <2>4, <2>5
<1> QED
  BY <1>2, <1>3

LEMMA ArgsElsewhere ==
    ASSUME Inv, Types, PageForms, PageNext, path # "rules"
    PROVE  ArgKept
<1>1. auth /\ IsPage(view) /\ CallsForm /\ ~ RulesPageNext
  BY PageKinds DEF Inv, Shows, RulesPageNext, On
<1>2. PageStep
  BY <1>1, KeysPageSteps, ClientsPageSteps, OverviewSteps DEF PageNext
<1>3. PageForms' /\ auth' /\ path' = path
  BY <1>1, <1>2, FormsPage DEF PageStep, session
<1>4. ASSUME NEW s \in Slots, calls'[s].op = "putRule"
      PROVE  calls'[s] = calls[s]
  <2>1. CASE calls'[s] = NoCall
    BY <1>4, <2>1, NoCallForm
  <2>2. CASE Sent(calls'[s])
    <3>1. PageForm(path, calls'[s])
      BY <1>3, <2>2 DEF PageForms, Sent, PageCall
    <3>2. "putRule" \in OpsOf(path)
      BY <1>4, <3>1 DEF PageForm
    <3> QED
      BY <3>2 DEF OpsOf, KeyOps, ClientOps
  <2> QED
    BY <1>2, <2>1, <2>2 DEF PageStep, CallsStep
<1> QED
  BY <1>4 DEF ArgKept

\* The form for a row sends the client and the trimmed route of the row.
LEMMA SaveTarget ==
    ASSUME Inv, Types, RulesKnown, auth, path = "rules",
           NEW name, NEW route, NEW form, NEW typed, NEW arg,
           HandleSaveRule(name, route, form, typed),
           arg.row.client = name, arg.row.route = Trim[route],
           arg.row.content = Payload(typed), arg.edited = view.editing,
           arg.untouched = (typed = form), arg.behind = (switched \/ overtaken)
    PROVE  TargetOk(arg)
<1> SUFFICES ASSUME view.editing # {}, Undisturbed
             PROVE  \E e \in view.editing :
                       /\ \A f \in view.editing : f = e
                       /\ name = e.client /\ route = e.route
                       /\ arg.untouched = TRUE =>
                             \E x \in FormOf({e}) : Payload(typed) = Payload(x)
  BY DEF TargetOk, Undisturbed
<1>1. PICK e : e \in view.editing /\ \A f \in view.editing : f = e
  BY GoodTypes DEF Good, ViewForm
<1>2. view.editing = {e}
  BY <1>1
<1>3. name \in Scope /\ route \in RoutesOfForm /\ form \in FormOf(view.editing)
  BY DEF HandleSaveRule
<1>4. route = e.route
  BY <1>2, <1>3 DEF RoutesOfForm
<1>5. name = e.client
  <2>1. CASE view.role \/ view.body["clients"] = {}
    BY <1>2, <1>3, <2>1 DEF Scope
  <2>2. CASE ~ view.role /\ view.body["clients"] # {}
    <3>1. name \in view.body["clients"]
      BY <1>3, <2>2 DEF Scope
    <3>2. ~ IsAdmin(stored)
      BY <2>2 DEF RulesKnown
    <3>3. PICK n \in Names : ViewFits(view, n)
      BY <3>2 DEF RulesKnown, OneClient, Fits
    <3>4. "clients" \in DOMAIN view.body
      BY GoodTypes DEF Good, ViewForm, Parts
    <3> QED
      BY <1>1, <3>1, <3>3, <3>4 DEF ViewFits, OfName
  <2> QED
    BY <2>1, <2>2
<1>6. arg.untouched = TRUE => \E x \in FormOf({e}) : Payload(typed) = Payload(x)
  BY <1>2, <1>3
<1> QED
  BY <1>1, <1>4, <1>5, <1>6

LEMMA TargetsKept ==
    ASSUME Targets, ArgKept
    PROVE  Targets'
  BY DEF Targets, ArgKept

LEMMA TargetsPage ==
    ASSUME Inv, Types, RulesKnown, Targets, RulesPageNext
    PROVE  Targets'
<1>1. auth /\ path = "rules" /\ CallsForm
  BY DEF RulesPageNext, On, Inv
<1>2. CASE UNCHANGED calls
  BY <1>2, TargetsKept DEF ArgKept
<1>3. CASE LoadRulesPage
  <2> DEFINE c == Fetch({"rules"}, TRUE)
             d == Fetch({"clients"}, TRUE)
  <2>1. SendBoth(c, d) /\ c.op = "list" /\ d.op = "list"
    BY <1>3 DEF LoadRulesPage, Fetch, Call
  <2> HIDE DEF c, d
  <2>2. PICK s \in Slots, t \in Slots :
           /\ s # t /\ calls'[s] = c /\ calls'[t] = d
           /\ \A r \in Slots \ {s, t} : calls'[r] = calls[r]
    BY <1>1, <2>1, SentTwo
  <2> QED
    BY <2>1, <2>2 DEF Targets
<1>4. ASSUME NEW name, NEW route, NEW form, NEW typed,
             HandleSaveRule(name, route, form, typed)
      PROVE  Targets'
  <2> DEFINE row == [client |-> name, route |-> Trim[route],
                     content |-> Payload(typed)]
             arg == [row |-> row, edited |-> view.editing,
                     untouched |-> typed = form, behind |-> switched \/ overtaken]
             c == Refreshing("putRule", arg, {"rules"})
  <2>1. Send(c)
    BY <1>4 DEF HandleSaveRule
  <2>2. c.arg = arg
    <3> HIDE DEF arg
    <3> QED
      BY DEF Refreshing, Call
  <2>3. /\ arg.row = row /\ arg.edited = view.editing
        /\ arg.behind = (switched \/ overtaken)
    OBVIOUS
  <2>4. arg.untouched = (typed = form)
    OBVIOUS
  <2>5. /\ row.client = name /\ row.route = Trim[route]
        /\ row.content = Payload(typed)
    OBVIOUS
  <2> HIDE DEF row, arg, c
  <2>6. TargetOk(arg)
    BY <1>1, <1>4, <2>3, <2>4, <2>5, SaveTarget
  <2> QED
    BY <1>1, <2>1, <2>2, <2>6, SentOne DEF Targets, OthersStay
<1>5. ASSUME NEW row, HandleDeleteRule(row)
      PROVE  Targets'
  <2> DEFINE arg == [row |-> row]
             c == Refreshing("deleteRule", arg, {"rules"})
  <2>1. Send(c) /\ c.op = "deleteRule"
    BY <1>5 DEF HandleDeleteRule, Refreshing, Call
  <2> HIDE DEF c
  <2> QED
    BY <1>1, <2>1, SendArgs, TargetsKept
<1>6. ASSUME NEW s \in Slots, RuleOpAnswered(s) \/ FetchRateLimits(s)
      PROVE  Targets'
  <2>1. Consume(s) /\ ~ Idle(s)
    BY <1>6
    DEF RuleOpAnswered, MutationAnswered, FetchRateLimits, ListAnswered, Answered
  <2> QED
    BY <1>1, <2>1, ConsumeArgs, TargetsKept
<1>7. ASSUME NEW row, OpenEditRule(row)
      PROVE  Targets'
  BY <1>2, <1>7 DEF OpenEditRule, Click
<1>8. CASE OpenAddRule \/ CloseRule
  BY <1>2, <1>8 DEF OpenAddRule, CloseRule, CloseForm, Click
<1> QED
  BY <1>3, <1>4, <1>5, <1>6, <1>7, <1>8 DEF RulesPageNext

-----------------------------------------------------------------------------
(* Rules that are saved. *)

Saving == Orderly /\ RulesKnown /\ Targets /\ RulesValid

LEMMA SavingInit == Init => Saving
<1> SUFFICES ASSUME Init
             PROVE  Saving
  OBVIOUS
<1>1. RulesKnown
  BY DEF Init, SessionInit, RulesKnown
<1>2. Targets
  BY NoCallForm DEF Init, ApiInit, Targets
<1>3. RulesValid
  <2>1. ASSUME NEW row \in rules
        PROVE  Validated(row.content)
    <3>1. \/ row.content = Window(100, 5)
          \/ row.content = Bucket(100, 1, 10, 60)
      BY DEF Init, ApiInit
    <3> QED
      BY <3>1, FirstValid
  <2> QED
    BY <2>1 DEF RulesValid
<1> QED
  BY <1>1, <1>2, <1>3, OrderlyInit DEF Saving

LEMMA SavingStep == Saving /\ [Next]_vars => Saving'
<1> SUFFICES ASSUME Saving, [Next]_vars
             PROVE  Saving'
  OBVIOUS
<1>1. Orderly' /\ Inv /\ Types /\ Types' /\ PageForms
  BY OrderlyStep DEF Orderly, Saving
<1>2. CASE PageNext
  <2>1. RulesValid'
    BY <1>1, <1>2, PageKinds DEF PageGood, Quiet, tables, Saving, RulesValid
  <2>2. RulesKnown'
    BY <1>1, <1>2, RulesKnownPage DEF Saving
  <2>3. Targets'
    <3>1. CASE path = "rules"
      <4>1. RulesPageNext
        BY <1>2, <3>1 DEF PageNext, KeysPageNext, ClientsPageNext, OverviewNext, On
      <4> QED
        BY <1>1, <4>1, TargetsPage DEF Saving
    <3>2. CASE path # "rules"
      BY <1>1, <1>2, <3>2, ArgsElsewhere, TargetsKept DEF Saving
    <3> QED
      BY <3>1, <3>2
  <2> QED
    BY <1>1, <2>1, <2>2, <2>3 DEF Saving
<1>3. CASE ~ PageNext
  <2>1. Frame /\ ArgKept /\ OwnersKept /\ RulesValid'
    BY <1>1, <1>3, FrameSteps, FrameData DEF Saving
  <2> QED
    BY <1>1, <2>1, RulesKnownFrame, TargetsKept DEF Saving
<1> QED
  BY <1>2, <1>3

\* The form of a row is for that row, with its own parameters (what the rules'
\* page shows, what it asks for, and what the server stores).
LEMMA SavingAlways == Spec => []Saving
  BY SavingInit, SavingStep, PTL DEF Spec

LEMMA SavedServe ==
    ASSUME Saving, [Next]_vars, NEW s \in Slots, Saved(s)
    PROVE  /\ Serve(s) /\ TargetOk(calls[s].arg)
           /\ calls[s].arg.behind \in BOOLEAN /\ calls[s].arg.untouched \in BOOLEAN
           /\ rules' = (rules \ Same(calls[s].arg.row)) \union {calls[s].arg.row}
<1> DEFINE c == calls[s]
<1>1. Inv /\ Types /\ CallsForm /\ ~ Idle(s) /\ c.op = "putRule" /\ c.code = "sent"
      /\ changes' # changes /\ calls'[s].code = "ok"
  BY DEF Saving, Orderly, Inv, Saved
<1>2. ~ PageNext
  BY <1>1, PageKinds DEF PageGood, Quiet, tables
<1>3. ~ SessionNext
  BY <1>1, SessionData DEF tables
<1>4. Server
  BY <1>1, <1>2, <1>3
  DEF Next, PageNext, DeadAnswer, vars, apiVars, tables
<1>5. \E t \in Slots : Serve(t)
  BY <1>1, <1>4
  DEF Server, ServeList, ServeLogin, Reject, Refuse, Fail, Others, tables
<1>6. PICK t \in Slots : Serve(t)
  BY <1>5
<1>7. ASSUME t # s
      PROVE  calls'[s] = calls[s]
  <2>1. Done(t) => calls'[s] = calls[s]
    BY <1>1, <1>7 DEF Done, CallsForm
  <2>2. \A k, owner, old : Insert(t, k, owner, old) => calls'[s] = calls[s]
    BY <1>1, <1>7 DEF Insert, CallsForm
  <2> QED
    BY <1>6, <2>1, <2>2 DEF Serve, ServeKeys, ServeRules, ServeClients, ServeRegister
<1>8. Serve(s)
  BY <1>1, <1>6, <1>7
<1>9. TargetOk(c.arg)
  BY <1>1 DEF Saving, Targets
<1>10. c.arg.behind \in BOOLEAN /\ c.arg.untouched \in BOOLEAN
  BY <1>1, Busy DEF Types, CallTyped, ArgForm
<1>11. rules' = (rules \ Same(c.arg.row)) \union {c.arg.row}
  BY <1>1, <1>8 DEF Serve, ServeKeys, ServeRules, ServeClients, ServeRegister
<1> QED
  BY <1>8, <1>9, <1>10, <1>11

\* The form for a rule changes the rule of its client and its trimmed route and
\* no other, whatever the answers of the lists and the calls before, unless the
\* stored key was changed under the page, by another tab or by a login that was
\* answered late (handleSubmit of rate-limits/page.tsx, SaveRateLimit).  That
\* is the rule the form is for unless its route has blanks around it.
THEOREM EditTarget == Spec => EditKeepsTarget
<1>1. ASSUME Saving, [Next]_vars, NEW s \in Slots, NEW row \in rules \union rules',
             Saved(s), calls[s].arg.edited # {}, ~ calls[s].arg.behind,
             row \in rules <=> row \notin rules'
      PROVE  \E edited \in calls[s].arg.edited :
                row.client = edited.client /\ row.route = Trim[edited.route]
  <2> DEFINE arg == calls[s].arg
  <2>1. /\ TargetOk(arg) /\ arg.behind = FALSE
        /\ rules' = (rules \ Same(arg.row)) \union {arg.row}
    BY <1>1, SavedServe
  <2>2. PICK e \in arg.edited :
           arg.row.client = e.client /\ arg.row.route = Trim[e.route]
    BY <1>1, <2>1 DEF TargetOk
  <2>3. row.client = arg.row.client /\ row.route = arg.row.route
    BY <1>1, <2>1 DEF Same
  <2> QED
    BY <2>2, <2>3
<1> DEFINE A == \A s \in Slots : \A row \in rules \union rules' :
                  /\ Saved(s) /\ calls[s].arg.edited # {} /\ ~calls[s].arg.behind
                  /\ row \in rules <=> row \notin rules'
                  => \E edited \in calls[s].arg.edited :
                        row.client = edited.client /\ row.route = Trim[edited.route]
<1>2. Saving /\ [Next]_vars => A
  BY <1>1
<1>3. Saving /\ [Next]_vars => [A]_<<rules, calls, changes>>
  BY <1>2
<1> QED
  BY <1>3, SavingAlways, PTL DEF Spec, EditKeepsTarget

\* What the form makes of valid parameters, when nothing is typed, is for the
\* limiters what it was.
LEMMA SameEffect ==
    ASSUME NEW e \in RuleRow, Validated(e.content), NEW row,
           row.client = e.client, row.route = e.route,
           \E form \in FormOf({e}) : row.content = Payload(form)
    PROVE  Effective(row) = Effective(e)
<1> DEFINE old == e.content
           refill == Or(old.refill, 1)
           capacity == Or(old.capacity, 10)
           window == Or(old.window, 60)
           form == [old EXCEPT !.refill = refill, !.capacity = capacity,
                               !.window = window]
<1>1. old \in Content
  BY DEF RuleRow
<1>2. row.content = Payload(form)
  BY DEF FormOf
<1>3. /\ old.refill > 0 => refill = old.refill
      /\ old.capacity > 0 => capacity = old.capacity
      /\ old.window > 0 => window = old.window
      /\ refill \in Nat /\ capacity \in Nat /\ window \in Nat
  BY <1>1 DEF Or, Content
<1> HIDE DEF refill, capacity, window
<1>4. /\ form.algorithm = old.algorithm /\ form.limit = old.limit
      /\ form.refill = refill /\ form.capacity = capacity /\ form.window = window
      /\ form \in Content
  BY <1>1, <1>3 DEF Content
<1>5. CASE old.algorithm = "token_bucket"
  <2>1. old.refill > 0 /\ old.capacity > 0
    BY <1>5 DEF Validated
  <2>2. /\ form.algorithm = "token_bucket" /\ form.limit = old.limit
        /\ form.refill = old.refill /\ form.capacity = old.capacity
        /\ form \in Content
    BY <1>5, <1>3, <1>4, <2>1
  <2> HIDE DEF form, old
  <2>3. /\ row.content.algorithm = "token_bucket" /\ row.content.limit = old.limit
        /\ row.content.refill = old.refill /\ row.content.capacity = old.capacity
    BY <1>2, <2>2 DEF Payload, Content
  <2> QED
    BY <1>5, <2>3 DEF Effective, old
<1>6. CASE old.algorithm # "token_bucket"
  <2>1. old.window > 0
    BY <1>1, <1>6 DEF Validated, Content, Algorithms
  <2>2. /\ form.algorithm = old.algorithm /\ form.limit = old.limit
        /\ form.window = old.window /\ form \in Content
    BY <1>3, <1>4, <2>1
  <2> HIDE DEF form, old
  <2>3. /\ row.content.algorithm # "token_bucket" /\ row.content.limit = old.limit
        /\ row.content.window = old.window
    BY <1>2, <1>6, <2>2 DEF Payload, Content
  <2> QED
    BY <1>6, <2>3 DEF Effective, old
<1> QED
  BY <1>5, <1>6

\* Saving the form for a rule as it was opened leaves what the limiters read of
\* it, unless somebody changed the rule since it was listed, the stored key was
\* changed under the page, or the route of the rule has blanks around it
\* (handleOpenEdit and handleSubmit of rate-limits/page.tsx).
THEOREM UntouchedEdit == Spec => UntouchedEditHarmless
<1>1. ASSUME Saving, [Next]_vars, NEW s \in Slots, Saved(s), calls[s].arg.untouched,
             ~ calls[s].arg.behind, calls[s].arg.edited # {},
             calls[s].arg.edited \subseteq rules,
             \A row \in calls[s].arg.edited : Trim[row.route] = row.route
      PROVE  {Effective(row) : row \in rules'} = {Effective(row) : row \in rules}
  <2> DEFINE arg == calls[s].arg
  <2>1. /\ TargetOk(arg) /\ arg.behind = FALSE /\ arg.untouched = TRUE
        /\ rules' = (rules \ Same(arg.row)) \union {arg.row}
    BY <1>1, SavedServe
  <2>2. PICK e \in arg.edited :
           /\ arg.row.client = e.client /\ arg.row.route = e.route
           /\ \E form \in FormOf({e}) : arg.row.content = Payload(form)
    BY <1>1, <2>1 DEF TargetOk
  <2>3. e \in rules /\ e \in RuleRow /\ Validated(e.content)
    BY <1>1, <2>2 DEF Saving, RulesValid, Orderly, Types, TablesTyped
  <2>4. Effective(arg.row) = Effective(e)
    BY <2>2, <2>3, SameEffect
  <2>5. Same(arg.row) = {e}
    <3>1. Same(arg.row) = Same(e) /\ e \in Same(e)
      BY <2>2, <2>3 DEF Same
    <3>2. \A r \in Same(e) : r = e
      BY <1>1, <2>3 DEF Saving, Orderly, Types, TablesTyped, Same
    <3> QED
      BY <3>1, <3>2
  <2>6. rules' = (rules \ {e}) \union {arg.row}
    BY <2>1, <2>5
  <2> HIDE DEF arg
  <2> QED
    BY <2>3, <2>4, <2>6
<1> DEFINE A == \A s \in Slots :
                  /\ Saved(s) /\ calls[s].arg.untouched /\ ~calls[s].arg.behind
                  /\ calls[s].arg.edited # {} /\ calls[s].arg.edited \subseteq rules
                  /\ \A row \in calls[s].arg.edited : Trim[row.route] = row.route
                  => {Effective(row) : row \in rules'} =
                     {Effective(row) : row \in rules}
<1>2. Saving /\ [Next]_vars => A
  BY <1>1
<1>3. Saving /\ [Next]_vars => [A]_<<rules, calls, changes>>
  BY <1>2
<1> QED
  BY <1>3, SavingAlways, PTL DEF Spec, UntouchedEditHarmless
=============================================================================
