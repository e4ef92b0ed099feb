------------------------------ MODULE Console ------------------------------
(***************************************************************************)
(* The dashboard in one tab of a browser, against the server, the other    *)
(* tabs and the other users: the layout (Session), the page that is mounted*)
(* and the calls (Api) that connect them.                                  *)
(***************************************************************************)
EXTENDS KeysPage, RulesPage, ClientsPage, Overview

vars == <<apiVars, session, view>>

Init == ApiInit /\ SessionInit

Next ==
    \/ SessionNext
    \/ KeysPageNext \/ RulesPageNext \/ ClientsPageNext \/ OverviewNext
    \/ (Server \/ \E s \in Slots : DeadAnswer(s)) /\ UNCHANGED <<session, view>>

Spec == Init /\ [][Next]_vars

-----------------------------------------------------------------------------

KeyRow == [key : Keys, owner : Names, active : BOOLEAN]
Content == [algorithm : Algorithms, limit : Nat,
            refill : Nat, capacity : Nat, window : Nat]
RuleRow == [client : Names, route : Routes, content : Content]
ListedRow == [key : Keys, owner : Names, active : BOOLEAN, masked : BOOLEAN]

\* Types of the variables, and that the tables have their keys.
TypeOK ==
    /\ stored \in Keys \union {NoKey}
    /\ \A s \in Slots : ~Idle(s) =>
          /\ calls[s].op \in Mutations \union {"list", "login"}
          /\ calls[s].code \in {"sent", "ok", "failed", "unauthorized"}
          /\ calls[s].key \in Keys \union {NoKey} /\ calls[s].live \in BOOLEAN
    /\ apiKeys \subseteq KeyRow /\ clients \subseteq Names
    /\ rules \subseteq RuleRow
    /\ \A r1, r2 \in apiKeys : r1.key = r2.key => r1 = r2
    /\ \A r1, r2 \in rules : r1 \in Same(r2) => r1 = r2
    /\ {row.key : row \in apiKeys} \subseteq issued /\ issued \subseteq Keys
    /\ {row.owner : row \in apiKeys} \union {row.client : row \in rules}
          \subseteq clients
    /\ changes \in 0..limits.changes /\ failures \in 0..limits.failures
    /\ path \in limits.pages \union {"landing"} /\ auth \in BOOLEAN
    /\ authMode \in {"login", "register", "registered"}
    /\ isVerifying \in BOOLEAN /\ registeredKey \in Keys \union {NoKey}
    /\ switches \in 0..limits.switches
    /\ switched \in BOOLEAN /\ overtaken \in BOOLEAN
    /\ view # Nothing =>
          /\ view.phase \in {"fresh", "loading", "ready"}
          /\ view.body["keys"] \subseteq ListedRow
          /\ view.body["clients"] \subseteq Names
          /\ view.body["rules"] \subseteq RuleRow
          /\ view.generated \in Keys \union {NoKey}

\* The console is shown exactly if there is a stored key, unless another tab has
\* changed it; a page is mounted exactly if the console is shown.
AuthFollowsKey ==
    /\ Here /\ ~switched => auth = (stored # NoKey)
    /\ auth = (view # Nothing)

\* The forms are disabled exactly while one login or registration is awaited.
OneVerification ==
    LET awaited == {s \in Slots : Live(s) /\ calls[s].op \in LayoutCalls}
    IN  Cardinality(awaited) = IF isVerifying THEN 1 ELSE 0

\* Until the user enters the console with the key of a registration or leaves,
\* the layout keeps this key, and no other, for its panel, and the panel is on
\* the screen unless the console is.  Only the answer to a login of a layout
\* that is gone brings the console up in place of the panel; a logout leads
\* back from the console to the panel.
RegisteredKeyKept ==
    [][unclaimed' # {} =>
          /\ authMode' = "registered" /\ unclaimed' = {registeredKey'}
          /\ \/ RegisteredPanel'
             \/ auth
             \/ \E s \in Slots : ~Live(s) /\ LoginAnswered(s)
      ]_vars

\* A page shows only rows that were fetched with the stored key, unless another
\* tab has changed it, or a login that was answered late: both leave the page
\* as it is, with the rows of the key before.
OwnDataOnly ==
    auth /\ ~switched /\ ~overtaken => view.by \subseteq {stored}

\* When no refresh is under way, a page that edits a table shows it as new as
\* its own last change, unless refreshes overlapped or failed.
ListsFresh ==
    auth /\ path # "overview" /\ ~view.excused /\ ~Listing({path})
        => view.at >= view.must

\* The spinner is shown only while an answer can still end it.
LoadingJustified ==
    auth /\ view.phase = "loading" =>
        LET loads == {s \in Slots : Live(s) /\ calls[s].load}
        IN  view.waiting \in 1..Cardinality(loads)

\* Without overlapping refreshes a page never goes back to older rows.
ListsForward ==
    [][auth /\ auth' /\ path' = path /\ ~view'.excused => view'.at >= view.at
      ]_vars
=============================================================================
