----------------------------- MODULE ClientsPage -----------------------------
(***************************************************************************)
(* The page of the clients, frontend/src/app/dashboard/clients/page.tsx,   *)
(* for administrators.  Whether the user is one is found out anew whenever *)
(* the page renders; the lists are fetched when the role changes.          *)
(***************************************************************************)
EXTENDS Page

Shown == view.role /\ On("clients")

\* The effect on [isAdmin]; a client sees "Access Restricted".
LoadClientsPage ==
    /\ view.phase = "fresh"
    /\ \/ /\ view.role
          /\ Send(Fetch(Parts, TRUE))
          /\ view' = [view EXCEPT !.phase = "loading", !.waiting = 1,
                                  !.excused = @ \/ Listing(Parts)]
       \/ /\ ~view.role
          /\ view' = [view EXCEPT !.phase = "ready", !.waiting = 0]
          /\ UNCHANGED calls
    /\ Quiet

\* The effect runs again after a rendering for another role.
RenderClients(v) ==
    LET admin == IsAdmin(stored) IN
    view' = [v EXCEPT !.role = admin,
                      !.phase = IF admin = v.role THEN @ ELSE "fresh"]
ClickClients(v) == RenderClients(v) /\ UNCHANGED calls /\ Quiet

OpenAddClient ==
    /\ Shown /\ ~view.modal
    /\ ClickClients([view EXCEPT !.editing = {}, !.modal = TRUE])

OpenEditClient(name) ==
    /\ Shown /\ RowsShown /\ name \in view.body["clients"]
    /\ ClickClients([view EXCEPT !.editing = {name}, !.modal = TRUE])

CloseClient ==
    Shown /\ view.modal /\ ClickClients([view EXCEPT !.modal = FALSE])

HandleDeleteClient(name) ==
    /\ Shown /\ RowsShown /\ name \in view.body["clients"] \ {Default} /\ Budget
    /\ Send(Refreshing("deleteClient", [name |-> name], Parts))
    /\ RenderClients(view) /\ Quiet

\* The name typed, normalized: that of the default client cannot be edited,
\* and no other client on the list may have it.
NameOfForm ==
    (IF view.editing = {Default} THEN {Default} ELSE limits.names)
        \ (view.body["clients"] \ view.editing)

HandleSaveClient(name) ==
    /\ Shown /\ view.modal /\ name \in NameOfForm /\ Budget
    /\ Send(Refreshing(
         IF view.editing = {} THEN "createClient" ELSE "updateClient",
         [name |-> name], Parts))
    /\ RenderClients(view) /\ Quiet

ChangedClients(s, v) ==
    LET c == calls[s] IN
    /\ c.code = "ok"
    /\ RenderClients([v EXCEPT !.must = Larger(@, c.at),
                               !.excused = @ \/ Listing(c.then)])

ClientOpAnswered(s) ==
    /\ MutationAnswered(s, {"createClient", "updateClient", "deleteClient"})
    /\ \/ /\ calls[s].op = "deleteClient" /\ ChangedClients(s, view)
       \/ /\ calls[s].op # "deleteClient"
          /\ ChangedClients(s, [view EXCEPT !.modal = FALSE])
       \/ Caught(s)

\* Any load that ends hides the spinner, also that of an earlier role.
Loaded(v, c) == [v EXCEPT !.waiting = IF c.load THEN 0 ELSE @,
                          !.phase = IF c.load THEN "ready" ELSE @]

\* fetchData: three lists, of which either all are taken over or none.
FetchData(s) ==
    LET c == calls[s] IN
    /\ Answered(s) /\ Live(s) /\ c.op = "list"
    /\ \/ c.code = "ok" /\ RenderClients(Loaded(Rows(view, c, "clients"), c))
       \/ /\ c.code = "failed"
          /\ RenderClients([Loaded(view, c) EXCEPT !.excused = TRUE])
    /\ Consume(s) /\ Quiet

ClientsPageNext ==
    /\ On("clients")
    /\ \/ LoadClientsPage \/ OpenAddClient \/ CloseClient
       \/ \E name \in Names :
            \/ OpenEditClient(name) \/ HandleDeleteClient(name)
            \/ HandleSaveClient(name)
       \/ \E s \in Slots : ClientOpAnswered(s) \/ FetchData(s)
=============================================================================
