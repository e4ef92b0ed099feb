------------------------------ MODULE KeysPage ------------------------------
(***************************************************************************)
(* The page of the API keys, frontend/src/app/dashboard/api-keys/page.tsx. *)
(* A new key can be seen once: in the answer of the call that makes it.    *)
(* The page keeps it in generatedKey and displays it in its modal.         *)
(***************************************************************************)
EXTENDS Page

KeyOps == {"createKey", "rotateKey", "revokeKey", "deleteKey"}
Making(ops) == \E s \in Slots : Live(s) /\ calls[s].op \in ops

\* The effect: load.
LoadKeysPage ==
    /\ view.phase = "fresh"
    /\ SendBoth(Fetch({"keys"}, TRUE), Fetch({"clients"}, TRUE))
    /\ Render([view EXCEPT !.phase = "loading", !.waiting = 2]) /\ Quiet

KeyPanel == view.modal /\ view.generated # NoKey
KeyForm == FormShown /\ view.generated = NoKey

\* The button "Create Key".
OpenCreate ==
    /\ ~view.modal
    /\ Click([view EXCEPT !.generated = NoKey, !.modal = TRUE])

\* Cancel, or a click beside the modal: what it displays is seen off.
CloseCreate ==
    CloseForm([view EXCEPT !.owed = @ \ {view.generated},
                              !.hurried = @ \/ Making({"createKey"})])

\* The button "Done".
DoneWithKey ==
    /\ KeyPanel
    /\ Click([view EXCEPT !.generated = NoKey, !.modal = FALSE,
                          !.owed = @ \ {view.generated}])

\* The client of a new key: that of the list for a client, any of the list
\* for an administrator, "admin" for an admin key.
KeyClients ==
    view.body["clients"] \union (IF IsAdmin(stored) THEN {AdminName} ELSE {})

HandleCreateKey(name) ==
    /\ KeyForm /\ name \in KeyClients /\ Budget
    /\ Send(Refreshing("createKey", [client |-> name], {"keys"}))
    /\ Render([view EXCEPT !.hurried = @ \/ Making({"createKey", "rotateKey"})])
    /\ Quiet

\* The buttons of a row send the hash as it is shown, after a confirmation.
RowAction(op, row) ==
    /\ RowsShown /\ row \in view.body["keys"] /\ Budget
    /\ Send(Refreshing(op, [row |-> row], {"keys"}))
    /\ Quiet

HandleDeleteKey(row) == RowAction("deleteKey", row) /\ Render(view)
HandleRevoke(row) == row.active /\ RowAction("revokeKey", row) /\ Render(view)
HandleRotate(row) ==
    /\ RowAction("rotateKey", row)
    /\ Render([view EXCEPT !.hurried = @ \/ Making({"createKey", "rotateKey"})])

\* Mutant of WithKey: the modal is not opened for a rotated key.
WithKeyUnseen(v, c) ==
    [v EXCEPT !.generated = c.made, !.owed = @ \union {c.made}]

\* Only the rotation opens the modal, the creation finds it open.
WithKey(v, c) ==
    [v EXCEPT !.generated = c.made, !.owed = @ \union {c.made},
              !.modal = @ \/ c.op = "rotateKey"]

KeyOpAnswered(s) ==
    /\ MutationAnswered(s, KeyOps)
    /\ \/ calls[s].made = NoKey /\ Changed(s, view)
       \/ calls[s].made # NoKey /\ Changed(s, WithKey(view, calls[s]))
       \/ Caught(s)

FetchAPIKeys(s) == ListAnswered(s, "keys")

KeysPageNext ==
    /\ On("keys")
    /\ \/ LoadKeysPage \/ OpenCreate \/ CloseCreate \/ DoneWithKey
       \/ \E name \in Names \union {AdminName} : HandleCreateKey(name)
       \/ \E row \in view.body["keys"] :
            HandleDeleteKey(row) \/ HandleRevoke(row) \/ HandleRotate(row)
       \/ \E s \in Slots : KeyOpAnswered(s) \/ FetchAPIKeys(s)

-----------------------------------------------------------------------------

\* A key that was made for the user is on the screen until the user has seen
\* it off, unless the user closed the form before the answer or asked for two
\* keys at once.
KeyDisplayed ==
    On("keys") /\ ~view.hurried /\ view.owed # {} =>
        KeyPanel /\ view.owed = {view.generated}
=============================================================================
