----------------------------- MODULE RulesPage -----------------------------
(***************************************************************************)
(* The page of the rules, frontend/src/app/dashboard/rate-limits/page.tsx. *)
(* One form creates and edits rules; the endpoint writes the rule of the   *)
(* client and the route it is given, whatever the form was opened for.     *)
(***************************************************************************)
EXTENDS Page

CONSTANTS
    Trim,      \* what trim() makes of a route: one without blanks around it,
    NoRoute    \* or no route, if there is nothing but blanks

ASSUME TrimAssumption ==
    /\ Trim \in [Routes -> Routes \union {NoRoute}] /\ NoRoute \notin Routes
    /\ Trim[Star] = Star
    /\ \A route \in Routes :
          Trim[route] # NoRoute => Trim[Trim[route]] = Trim[route]

\* The effect: load.
LoadRulesPage ==
    /\ view.phase = "fresh"
    /\ SendBoth(Fetch({"rules"}, TRUE), Fetch({"clients"}, TRUE))
    /\ Render([view EXCEPT !.phase = "loading", !.waiting = 2]) /\ Quiet

OpenAddRule ==
    ~view.modal /\ Click([view EXCEPT !.editing = {}, !.modal = TRUE])

OpenEditRule(row) ==
    /\ RowsShown /\ row \in view.body["rules"]
    /\ Click([view EXCEPT !.editing = {row}, !.modal = TRUE])

CloseRule == CloseForm(view)

\* What the form holds when it is opened: parameters that are 0 in the row are
\* filled with defaults.
Or(n, default) == IF n = 0 THEN default ELSE n

\* Mutant of FormOf: the parameters of the row are not loaded.
FormWithDefaults(rows) ==
    IF rows = {} THEN {Bucket(100, 1, 10, 60)}
    ELSE {[row.content EXCEPT !.refill = 1, !.capacity = 10,
                              !.window = 60] : row \in rows}

FormOf(rows) ==
    IF rows = {} THEN {Bucket(100, 1, 10, 60)}
    ELSE {[row.content EXCEPT !.refill = Or(@, 1), !.capacity = Or(@, 10),
                              !.window = Or(@, 60)] : row \in rows}

\* What the user may make of it: the other algorithm, another limit.
Algorithms == {"token_bucket", "sliding_window"}
Other(algorithm) == CHOOSE a \in Algorithms : a # algorithm
Typed(form) == {form, [form EXCEPT !.algorithm = Other(@)],
                      [form EXCEPT !.limit = 1]}

Payload(form) ==
    IF form.algorithm = "token_bucket"
      THEN [form EXCEPT !.window = 0]
      ELSE [form EXCEPT !.refill = 0, !.capacity = 0]

\* Mutant of Scope: the first client of the list for everybody.
ScopeOfClient ==
    IF view.body["clients"] # {} THEN view.body["clients"]
    ELSE {row.client : row \in view.editing}

\* finalClientId: a form for a row holds its client, another one the client
\* selected, which is the default client while no list is there.  For a
\* client, the list of clients has priority, as of the last rendering.
Scope ==
    IF view.editing # {} /\ (view.role \/ view.body["clients"] = {})
      THEN {row.client : row \in view.editing}
    ELSE IF view.body["clients"] # {} THEN view.body["clients"]
    ELSE {Default}

\* The field of the route is disabled for a row.
RoutesOfForm ==
    IF view.editing = {} THEN Routes ELSE {row.route : row \in view.editing}

\* handleSubmit trims the route, also that of a row, which only this page and
\* not the server does; with nothing left it sends nothing.
HandleSaveRule(name, route, form, typed) ==
    /\ FormShown /\ name \in Scope /\ route \in RoutesOfForm /\ Budget
    /\ Trim[route] # NoRoute
    /\ form \in FormOf(view.editing) /\ typed \in Typed(form)
    /\ Send(Refreshing("putRule",
              [row |-> [client |-> name, route |-> Trim[route],
                        content |-> Payload(typed)],
               edited |-> view.editing, untouched |-> typed = form,
               behind |-> switched \/ overtaken], {"rules"}))
    /\ Render(view) /\ Quiet

HandleDeleteRule(row) ==
    /\ RowsShown /\ row \in view.body["rules"] /\ Budget
    /\ Send(Refreshing("deleteRule", [row |-> row], {"rules"}))
    /\ Render(view) /\ Quiet

\* A saved rule closes the form, even if it is another one by now.
RuleOpAnswered(s) ==
    /\ MutationAnswered(s, {"putRule", "deleteRule"})
    /\ \/ /\ calls[s].op = "putRule"
          /\ Changed(s, [view EXCEPT !.modal = FALSE])
       \/ calls[s].op = "deleteRule" /\ Changed(s, view)
       \/ Caught(s)

FetchRateLimits(s) == ListAnswered(s, "rules")

RulesPageNext ==
    /\ On("rules")
    /\ \/ LoadRulesPage \/ OpenAddRule \/ CloseRule
       \/ \E row \in view.body["rules"] :
            OpenEditRule(row) \/ HandleDeleteRule(row)
       \/ \E form \in FormOf(view.editing) :
          \E name \in Names, route \in Routes, typed \in Typed(form) :
            HandleSaveRule(name, route, form, typed)
       \/ \E s \in Slots : RuleOpAnswered(s) \/ FetchRateLimits(s)

-----------------------------------------------------------------------------

\* What the limiters read of a rule: the parameters of its algorithm.
Effective(row) ==
    IF row.content.algorithm = "token_bucket"
      THEN <<row.client, row.route, row.content.limit, row.content.refill,
             row.content.capacity>>
      ELSE <<row.client, row.route, row.content.limit, row.content.window>>

Saved(s) == /\ ~Idle(s) /\ calls[s].op = "putRule" /\ calls[s].code = "sent"
            /\ changes' # changes /\ calls'[s].code = "ok"

\* The form for a rule changes that rule and no other, unless the stored key
\* was changed under the page.  For a rule whose route has blanks around it,
\* which only a caller of the API can save, that is not so: the form adds or
\* changes the rule of the trimmed route, but still no third one.
EditKeepsTarget ==
    [][\A s \in Slots : \A row \in rules \union rules' :
          /\ Saved(s) /\ calls[s].arg.edited # {} /\ ~calls[s].arg.behind
          /\ row \in rules <=> row \notin rules'
          => \E edited \in calls[s].arg.edited :
                row.client = edited.client /\ row.route = Trim[edited.route]
      ]_<<rules, calls, changes>>

\* Saving the form for a rule as it was opened leaves what the limiters read
\* of it, unless somebody changed the rule since it was listed, the stored key
\* was changed under the page, or the route has blanks around it.
UntouchedEditHarmless ==
    [][\A s \in Slots :
          /\ Saved(s) /\ calls[s].arg.untouched /\ ~calls[s].arg.behind
          /\ calls[s].arg.edited # {} /\ calls[s].arg.edited \subseteq rules
          /\ \A row \in calls[s].arg.edited : Trim[row.route] = row.route
          => {Effective(row) : row \in rules'} =
             {Effective(row) : row \in rules}
      ]_<<rules, calls, changes>>
=============================================================================
