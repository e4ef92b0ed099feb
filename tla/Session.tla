------------------------------ MODULE Session ------------------------------
(***************************************************************************)
(* The layout of the dashboard, frontend/src/app/dashboard/layout.tsx: who *)
(* is logged in, the login and the registration form, and which page is    *)
(* mounted.                                                                *)
(*                                                                         *)
(* The stored key is shared with the other tabs of the browser and with the*)
(* code of components that are gone.  The layout learns of a change by the *)
(* event throttl_auth_change, which lib/api.ts dispatches in its own tab   *)
(* only.  When the layout stops showing its children they are unmounted:   *)
(* what they hold is gone, the calls they await are not.                   *)
(***************************************************************************)
EXTENDS Api

VARIABLES
    path,           \* the page of the address, "landing" outside of the layout
    auth,           \* isAuthenticated
    authMode,       \* "login", "register" or "registered"
    isVerifying,
    registeredKey,
    view,           \* the state of the mounted page
    \* History:
    switches,
    switched,       \* another tab has changed the stored key, of which the
                    \* layout does not learn
    overtaken,      \* a login that was answered late has changed the stored
                    \* key under a page that stays mounted
    unclaimed       \* keys of registrations, until the user enters or leaves

session == <<path, auth, authMode, isVerifying, registeredKey, switches,
             switched, overtaken, unclaimed>>

Nothing == [phase |-> "none"]
NoRows == [part \in Parts |-> {}]

\* The state of a page when it is mounted, fields of all pages together:
\* what it lists (body) and how new that is (at), whether its form is open
\* and for which row (editing), the key it displays (generated), the role it
\* was last rendered for.  History: whose key fetched the lists (by), the
\* last change of its own that was answered (must), keys it has received and
\* the user has not seen off (owed); excused: refreshes overlapped or failed;
\* hurried: the user did not wait for an answer that brings a key.
Mounted(key) ==
    [phase |-> "fresh", waiting |-> 0, body |-> NoRows, at |-> 0,
     modal |-> FALSE, editing |-> {}, generated |-> NoKey,
     role |-> IsAdmin(key),
     by |-> {}, must |-> 0, owed |-> {}, excused |-> FALSE, hurried |-> FALSE]

SessionInit ==
    /\ path = "landing" /\ auth = FALSE /\ authMode = "login"
    /\ isVerifying = FALSE /\ registeredKey = NoKey /\ view = Nothing
    /\ switches = 0 /\ switched = FALSE /\ overtaken = FALSE /\ unclaimed = {}

Here == path # "landing"
LoginForm == Here /\ ~auth /\ authMode = "login"
RegisterForm == Here /\ ~auth /\ authMode = "register"
RegisteredPanel == Here /\ ~auth /\ authMode = "registered"
NavItems == limits.pages \ (IF IsAdmin(stored) THEN {} ELSE {"clients"})

\* The calls once the components are gone that await them: a page, or with it
\* the layout, when no call is kept.
LayoutCalls == {"login", "register"}
Unmount(cs, kept) ==
    [s \in Slots |-> IF cs[s].op \in kept THEN cs[s]
                      ELSE Forget(cs[s])]

\* Mutant of CheckAuth: the layout does not listen.
NoListener(key) ==
    /\ switched' = FALSE /\ overtaken' = FALSE
    /\ UNCHANGED <<auth, view>>

\* Mutant of CheckAuth: the page is only hidden, not unmounted.
HidesPage(key) ==
    /\ auth' = (key # NoKey)
    /\ view' = IF key # NoKey /\ view = Nothing THEN Mounted(key) ELSE view
    /\ switched' = (auth /\ key # NoKey /\ switched)
    /\ overtaken' = (auth /\ key # NoKey /\ (overtaken \/ key # stored))

\* checkAuth, on mount and on throttl_auth_change.  A page is mounted when
\* auth becomes true.  If it is true already, the page stays as it is, and may
\* go on with the rows and the answers of another key.
CheckAuth(key) ==
    /\ auth' = (key # NoKey)
    /\ view' = IF key = NoKey THEN Nothing
               ELSE IF auth THEN view ELSE Mounted(key)
    /\ switched' = (auth /\ key # NoKey /\ switched)
    /\ overtaken' = (auth /\ key # NoKey /\ (overtaken \/ key # stored))

\* The event reaches a layout if there is one.
Dispatch(key) ==
    IF Here THEN CheckAuth(key)
            ELSE UNCHANGED <<auth, view, switched, overtaken>>

-----------------------------------------------------------------------------
(* Coming, going, and the links of the sidebar. *)

Open(p) ==
    /\ ~Here /\ p \in limits.pages
    /\ path' = p /\ auth' = (stored # NoKey)
    /\ view' = IF stored # NoKey THEN Mounted(stored) ELSE Nothing
    /\ UNCHANGED <<apiVars, authMode, isVerifying, registeredKey, switches,
                   switched, overtaken, unclaimed>>

Leave ==
    /\ Here
    /\ path' = "landing" /\ auth' = FALSE /\ authMode' = "login"
    /\ isVerifying' = FALSE /\ registeredKey' = NoKey /\ view' = Nothing
    /\ switched' = FALSE /\ overtaken' = FALSE /\ unclaimed' = {}
    /\ calls' = Unmount(calls, {})
    /\ UNCHANGED <<limits, stored, tables, failures, switches>>

Visit(p) ==
    /\ Here /\ auth /\ p \in NavItems \ {path}
    /\ path' = p /\ view' = Mounted(stored)
    /\ calls' = Unmount(calls, LayoutCalls)
    /\ switched' = (stored = NoKey) /\ overtaken' = FALSE
    /\ UNCHANGED <<limits, stored, tables, failures, auth, authMode,
                   isVerifying, registeredKey, switches, unclaimed>>

-----------------------------------------------------------------------------
(* The forms. *)

\* Mutant of ShowForm: the links are there in every mode.
ShowFormAnyTime(mode) ==
    /\ Here /\ ~auth
    /\ authMode' = mode /\ mode \in {"login", "register"} \ {authMode}
    /\ UNCHANGED <<apiVars, path, auth, isVerifying, registeredKey, view,
                   switches, switched, overtaken, unclaimed>>

ShowForm(mode) ==
    /\ LoginForm \/ RegisterForm
    /\ authMode' = mode /\ mode \in {"login", "register"} \ {authMode}
    /\ UNCHANGED <<apiVars, path, auth, isVerifying, registeredKey, view,
                   switches, switched, overtaken, unclaimed>>

Verifying(c) ==
    /\ Send(c)
    /\ isVerifying' = TRUE
    /\ UNCHANGED <<limits, stored, tables, failures, path, auth, authMode,
                   registeredKey, view, switches, switched, overtaken,
                   unclaimed>>

\* The typed key is sent, not the stored one.
HandleLogin(k) ==
    /\ LoginForm /\ ~isVerifying
    /\ Verifying([Call("login", <<>>) EXCEPT !.key = k])

HandleRegister(name) ==
    /\ RegisterForm /\ ~isVerifying /\ Budget
    /\ Verifying(Call("register", [name |-> name]))

\* Mutant of LoginAnswered: the code has no finally.
LoginStaysBusy(s) ==
    /\ Answered(s) /\ calls[s].op = "login"
    /\ stored' = IF calls[s].code = "ok" THEN calls[s].key ELSE stored
    /\ IF calls[s].code = "ok"
         THEN Dispatch(calls[s].key)
         ELSE UNCHANGED <<auth, view, switched, overtaken>>
    /\ isVerifying' = (isVerifying /\ ~(Live(s) /\ calls[s].code = "ok"))
    /\ Consume(s)
    /\ UNCHANGED <<limits, tables, failures, path, authMode, registeredKey,
                   switches, unclaimed>>

\* Code that is unmounted meanwhile stores the key all the same.
LoginAnswered(s) ==
    /\ Answered(s) /\ calls[s].op = "login"
    /\ stored' = IF calls[s].code = "ok" THEN calls[s].key ELSE stored
    /\ IF calls[s].code = "ok"
         THEN Dispatch(calls[s].key)
         ELSE UNCHANGED <<auth, view, switched, overtaken>>
    /\ isVerifying' = (isVerifying /\ ~Live(s))
    /\ Consume(s)
    /\ UNCHANGED <<limits, tables, failures, path, authMode, registeredKey,
                   switches, unclaimed>>

RegisterAnswered(s) ==
    /\ Answered(s) /\ Live(s) /\ calls[s].op = "register"
    /\ IF calls[s].code = "ok"
         THEN /\ registeredKey' = calls[s].made /\ authMode' = "registered"
              /\ unclaimed' = unclaimed \union {calls[s].made}
         ELSE UNCHANGED <<registeredKey, authMode, unclaimed>>
    /\ isVerifying' = FALSE
    /\ Consume(s)
    /\ UNCHANGED <<limits, stored, tables, failures, path, auth, view,
                   switches, switched, overtaken>>

Enter ==
    /\ RegisteredPanel
    /\ stored' = registeredKey /\ CheckAuth(registeredKey)
    /\ unclaimed' = {}
    /\ UNCHANGED <<limits, calls, tables, failures, path, authMode, isVerifying,
                   registeredKey, switches>>

HandleLogout ==
    /\ Here /\ auth
    /\ stored' = NoKey /\ CheckAuth(NoKey)
    /\ calls' = Unmount(calls, LayoutCalls)
    /\ UNCHANGED <<limits, tables, failures, path, authMode, isVerifying,
                   registeredKey, switches, unclaimed>>

-----------------------------------------------------------------------------
(* Other hands on the stored key. *)

\* fetchApi: a 401 removes the stored key, whichever key was refused.
Unauthorized(s) ==
    /\ Answered(s) /\ calls[s].op # "login"
    /\ calls[s].code = "unauthorized"
    /\ stored' = NoKey /\ Dispatch(NoKey)
    /\ calls' = Unmount([calls EXCEPT ![s] = FollowUp(s, NoKey)], LayoutCalls)
    /\ UNCHANGED <<limits, tables, failures, path, authMode, isVerifying,
                   registeredKey, switches, unclaimed>>

\* Another tab logs in, out, or in as somebody else.
Elsewhere(k) ==
    /\ switches < limits.switches /\ switches' = switches + 1
    /\ k # stored
    /\ k = NoKey \/ Valid(k)
    /\ stored' = k
    /\ switched' = Here
    /\ UNCHANGED <<limits, calls, tables, failures, path, auth, authMode,
                   isVerifying, registeredKey, view, overtaken, unclaimed>>

SessionNext ==
    \/ \E p \in limits.pages : Open(p) \/ Visit(p)
    \/ Leave \/ Enter \/ HandleLogout
    \/ \E mode \in {"login", "register"} : ShowForm(mode)
    \/ \E k \in Keys : HandleLogin(k)
    \/ \E name \in limits.names : HandleRegister(name)
    \/ \E s \in Slots :
         LoginAnswered(s) \/ RegisterAnswered(s) \/ Unauthorized(s)
    \/ \E k \in Keys \union {NoKey} : Elsewhere(k)
=============================================================================
