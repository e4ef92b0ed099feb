------------------------------ MODULE Overview ------------------------------
(***************************************************************************)
(* The overview, frontend/src/app/dashboard/page.tsx: loadStats fetches in *)
(* two stages, for an administrator the clients first, then the keys, the  *)
(* rules and the statistics; it takes over all numbers together.  The      *)
(* statistics are left out here.                                           *)
(***************************************************************************)
EXTENDS Page

Counted == {"keys", "rules"}

\* The first stage for an administrator; its failure counts no clients.
LoadStats(load) ==
    IF IsAdmin(stored) THEN [Fetch({"clients"}, load) EXCEPT !.then = Counted]
                       ELSE Fetch(Counted, load)

LoadOverview ==
    /\ view.phase = "fresh"
    /\ Send(LoadStats(TRUE))
    /\ Render([view EXCEPT !.phase = "loading", !.waiting = 1]) /\ Quiet

\* The button "Refresh Stats".
Refresh ==
    /\ view.phase = "ready"
    /\ Send(LoadStats(FALSE))
    /\ Render([view EXCEPT !.excused = @ \/ Listing(Parts)]) /\ Quiet

\* The code goes on to the second stage; nothing is shown yet.
FirstStage(s) ==
    /\ Answered(s) /\ Live(s) /\ calls[s].op = "list" /\ calls[s].then # {}
    /\ calls[s].code \in {"ok", "failed"}
    /\ UNCHANGED view
    /\ Consume(s) /\ Quiet

\* All numbers at once; clients that were not asked for count as none.
SecondStage(s) ==
    LET c == calls[s]
        counted == [c EXCEPT !.arg.parts = Parts,
                             !.body = [p \in Parts |-> IF p \in DOMAIN c.body
                                                       THEN c.body[p] ELSE {}]]
    IN  /\ Answered(s) /\ Live(s) /\ c.op = "list" /\ c.then = {}
        /\ \/ c.code = "ok" /\ Render(Awaited(Rows(view, counted, "keys"), c))
           \/ c.code = "failed" /\ Render(Awaited(view, c))
        /\ Consume(s) /\ Quiet

OverviewNext ==
    /\ On("overview")
    /\ \/ LoadOverview \/ Refresh
       \/ \E s \in Slots : FirstStage(s) \/ SecondStage(s)
=============================================================================
