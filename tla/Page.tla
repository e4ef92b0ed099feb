-------------------------------- MODULE Page --------------------------------
(***************************************************************************)
(* What the pages of the dashboard do alike: they list rows, open a form   *)
(* over them, await their calls and fetch the lists again after a change.  *)
(***************************************************************************)
EXTENDS Session

On(p) == path = p /\ auth
Quiet == UNCHANGED <<limits, stored, tables, failures, session>>

\* A page reads the role of the stored key whenever it renders.
Render(v) == view' = [v EXCEPT !.role = IsAdmin(stored)]
Click(v) == Render(v) /\ UNCHANGED calls /\ Quiet

RowsShown == view.phase = "ready" /\ ~view.modal

\* A form can be sent once it is on the screen: React runs the effect of the
\* mount before it renders anew.
FormShown == view.modal /\ view.phase # "fresh"
CloseForm(v) == view.modal /\ Click([v EXCEPT !.modal = FALSE])

Listing(parts) ==
    \E s \in Slots : /\ Live(s) /\ calls[s].op = "list"
                     /\ calls[s].arg.parts \intersect parts # {}
Larger(a, b) == IF a < b THEN b ELSE a

\* Mutant of Awaited: a list that failed is not counted.
AwaitedIfListed(v, c) ==
    IF ~c.load \/ c.code # "ok" THEN v
    ELSE [v EXCEPT !.waiting = @ - 1,
                   !.phase = IF v.waiting = 1 THEN "ready" ELSE @]

\* The spinner is shown until every fetch of the load is answered.
Awaited(v, c) ==
    IF ~c.load THEN v
    ELSE [v EXCEPT !.waiting = @ - 1,
                   !.phase = IF v.waiting = 1 THEN "ready" ELSE @]

\* Mutant of Rows: one state for all lists, set from what a closure saw.
RowsOfClosure(v, c, primary) ==
    [v EXCEPT
       !.body = [p \in Parts |-> IF p \in c.arg.parts THEN c.body[p] ELSE {}],
       !.by = @ \union {c.key},
       !.at = c.at]

\* A list arrives: its rows replace those shown.  at is about the rows of
\* primary, the table the page is there to edit.
Rows(v, c, primary) ==
    [v EXCEPT
       !.body = [p \in Parts |-> IF p \in c.arg.parts THEN c.body[p]
                                 ELSE v.body[p]],
       !.by = @ \union {c.key},
       !.at = IF primary \in c.arg.parts THEN c.at ELSE @]

ListAnswered(s, primary) ==
    LET c == calls[s] IN
    /\ Answered(s) /\ Live(s) /\ c.op = "list" /\ c.then = {}
    /\ \/ c.code = "ok" /\ Render(Awaited(Rows(view, c, primary), c))
       \/ /\ c.code = "failed"
          /\ Render([Awaited(view, c) EXCEPT !.excused = TRUE])
    /\ Consume(s) /\ Quiet

\* An answered mutation makes the page fetch its lists again; v is what its
\* handler makes of the state of the page.
Changed(s, v) ==
    LET c == calls[s] IN
    /\ c.code = "ok"
    /\ Render([v EXCEPT !.must = Larger(@, c.at),
                        !.excused = @ \/ Listing(c.then)])

\* The handlers catch every error; they only show a toast.
Caught(s) == calls[s].code = "failed" /\ UNCHANGED view

MutationAnswered(s, ops) ==
    Answered(s) /\ Live(s) /\ calls[s].op \in ops /\ Consume(s) /\ Quiet
=============================================================================
