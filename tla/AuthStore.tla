------------------------------ MODULE AuthStore ------------------------------
(***************************************************************************)
(* The browser-side auth store (src/web/src/lib/stores/auth.ts) and the    *)
(* identity behind the browser's cookies on the server side.               *)
(*                                                                         *)
(* Each method of the store is an async call: it may update the store      *)
(* synchronously, then awaits a fetch of an /api/auth endpoint, then       *)
(* updates the store from the answer.  Several calls can be outstanding    *)
(* (a component's init() while the user submits login or logout).  A call  *)
(* is Sent, then Served (the answer, with its Set-Cookie, reaches the      *)
(* browser), then Applied; its fetch can reject with no answer, or its     *)
(* res.json() can throw once the answer has arrived (Throw).               *)
(***************************************************************************)
EXTENDS Naturals, Sequences

CONSTANTS
    Calls,      \* outstanding-call slots
    Users,      \* accounts (model values)
    Null        \* model value: no user

Methods == {"init", "login", "register", "logout", "refresh"}
UserOrNull == Users \cup {Null}
Answer == [ok : BOOLEAN, user : UserOrNull]

VARIABLES
    store,        \* [user, loading, initialized] of the writable store
    serverUser,   \* who the browser's cookies log in as (Null: no session)
    method,       \* method of the call in slot c
    phase,        \* "idle", "sent" (fetch outstanding), "served"
    cred,         \* credentials of a login/register call
    answer,       \* the answer the server gave a served call
    \* history (not program state)
    servedOrder   \* served calls whose answer is not yet applied, in order

vars == <<store, serverUser, method, phase, cred, answer, servedOrder>>

NoAnswer == [ok |-> FALSE, user |-> Null]

TypeOK ==
    /\ store \in [user : UserOrNull, loading : BOOLEAN, initialized : BOOLEAN]
    /\ serverUser \in UserOrNull
    /\ method \in [Calls -> Methods \cup {"none"}]
    /\ phase \in [Calls -> {"idle", "sent", "served"}]
    /\ cred \in [Calls -> UserOrNull]
    /\ answer \in [Calls -> Answer]
    /\ servedOrder \in Seq(Calls)

\* auth.ts lines 16-20: the store's initial value
Init ==
    /\ store = [user |-> Null, loading |-> TRUE, initialized |-> FALSE]
    /\ serverUser \in UserOrNull
    /\ method = [c \in Calls |-> "none"]
    /\ phase = [c \in Calls |-> "idle"]
    /\ cred = [c \in Calls |-> Null]
    /\ answer = [c \in Calls |-> NoAnswer]
    /\ servedOrder = <<>>

Drop(c, s) == SelectSeq(s, LAMBDA x : x # c)

-----------------------------------------------------------------------------
(* Calls: the synchronous part before the first await *)

\* init lines 25-28: update loading to true, then fetch /api/auth/me
CallInit(c) ==
    /\ phase[c] = "idle"
    /\ store' = [store EXCEPT !.loading = TRUE]
    /\ method' = [method EXCEPT ![c] = "init"]
    /\ phase' = [phase EXCEPT ![c] = "sent"]
    /\ cred' = [cred EXCEPT ![c] = Null]
    /\ UNCHANGED <<serverUser, answer, servedOrder>>

\* login lines 36-41, register lines 53-58: POST the credentials of u
CallLogin(c, m, u) ==
    /\ phase[c] = "idle"
    /\ m \in {"login", "register"}
    /\ method' = [method EXCEPT ![c] = m]
    /\ phase' = [phase EXCEPT ![c] = "sent"]
    /\ cred' = [cred EXCEPT ![c] = u]
    /\ UNCHANGED <<store, serverUser, answer, servedOrder>>

\* logout line 71, refresh line 77: POST without a body
CallPost(c, m) ==
    /\ phase[c] = "idle"
    /\ m \in {"logout", "refresh"}
    /\ method' = [method EXCEPT ![c] = m]
    /\ phase' = [phase EXCEPT ![c] = "sent"]
    /\ cred' = [cred EXCEPT ![c] = Null]
    /\ UNCHANGED <<store, serverUser, answer, servedOrder>>

-----------------------------------------------------------------------------
(* The server handles the request (routes/api/auth/*, see Session.tla) *)

Reply(c, a, u) ==
    /\ answer' = [answer EXCEPT ![c] = a]
    /\ serverUser' = u
    /\ phase' = [phase EXCEPT ![c] = "served"]
    /\ servedOrder' = Append(servedOrder, c)
    /\ UNCHANGED <<store, method, cred>>

\* api/auth/me: always 200; {user: null} without a session, or when the
\* origin's /v1/me fails
ServeMe(c) ==
    /\ phase[c] = "sent" /\ method[c] = "init"
    /\ \E u \in {serverUser, Null} : Reply(c, [ok |-> TRUE, user |-> u], serverUser)

\* api/auth/register (login: spec 4.4): 2xx sets the cookies of the new
\* account; an origin error leaves the cookies alone
ServeLogin(c) ==
    /\ phase[c] = "sent" /\ method[c] \in {"login", "register"}
    /\ \/ Reply(c, [ok |-> TRUE, user |-> cred[c]], cred[c])
       \/ Reply(c, NoAnswer, serverUser)

\* api/auth/logout: always deletes the cookies and answers 200
ServeLogout(c) ==
    /\ phase[c] = "sent" /\ method[c] = "logout"
    /\ Reply(c, [ok |-> TRUE, user |-> Null], Null)

\* api/auth/refresh: 2xx keeps the session with rotated cookies; 401
\* without a refresh cookie or on rejection (cookies deleted); 500 when
\* the origin call threw (cookies kept)
ServeRefresh(c) ==
    /\ phase[c] = "sent" /\ method[c] = "refresh"
    /\ \/ serverUser # Null /\ Reply(c, [ok |-> TRUE, user |-> serverUser], serverUser)
       \/ Reply(c, NoAnswer, Null)
       \/ Reply(c, NoAnswer, serverUser)

-----------------------------------------------------------------------------
(* The call resumes after its await *)

Finish(c) ==
    /\ phase' = [phase EXCEPT ![c] = "idle"]
    /\ method' = [method EXCEPT ![c] = "none"]
    /\ cred' = [cred EXCEPT ![c] = Null]
    /\ answer' = [answer EXCEPT ![c] = NoAnswer]
    /\ servedOrder' = Drop(c, servedOrder)
    /\ UNCHANGED serverUser

\* mutant of ApplyInit: stores the whole body instead of data.user
ApplyInitWholeBody(c) ==
    /\ phase[c] = "served" /\ method[c] = "init"
    /\ store' = [user |-> answer[c], loading |-> FALSE, initialized |-> TRUE]
    /\ Finish(c)

\* init line 30: set({user: data.user, loading: false, initialized: true})
ApplyInit(c) ==
    /\ phase[c] = "served" /\ method[c] = "init"
    /\ store' = [user |-> answer[c].user, loading |-> FALSE, initialized |-> TRUE]
    /\ Finish(c)

\* login lines 43-50, register lines 60-67: !res.ok throws; else user
ApplyLogin(c) ==
    /\ phase[c] = "served" /\ method[c] \in {"login", "register"}
    /\ store' = IF answer[c].ok THEN [store EXCEPT !.user = answer[c].user]
                                ELSE store
    /\ Finish(c)

\* logout line 72
ApplyLogout(c) ==
    /\ phase[c] = "served" /\ method[c] = "logout"
    /\ store' = [store EXCEPT !.user = Null]
    /\ Finish(c)

\* refresh lines 78-87: ok: user from the answer; otherwise null
ApplyRefresh(c) ==
    /\ phase[c] = "served" /\ method[c] = "refresh"
    /\ store' = [store EXCEPT !.user = IF answer[c].ok THEN answer[c].user
                                                      ELSE Null]
    /\ Finish(c)

\* Where a call can throw: its fetch rejects with no response (the cookies
\* are as before), or a response arrived, with its Set-Cookie, and the
\* res.json() that follows throws; logout (line 71) reads no body
ThrowPoint(c) ==
    \/ phase[c] = "sent"
    \/ phase[c] = "served" /\ method[c] # "logout"

\* mutant of Throw: init's catch leaves loading as it was
ThrowKeepsLoading(c) ==
    /\ ThrowPoint(c)
    /\ store' = CASE method[c] = "init"
                        -> [store EXCEPT !.user = Null, !.initialized = TRUE]
                  [] method[c] = "refresh"
                        -> [store EXCEPT !.user = Null]
                  [] OTHER -> store
    /\ Finish(c)

\* The fetch rejects, or res.json() throws after the answer arrived:
\* init's catch (line 32), login/register/logout rethrow with the store
\* untouched, refresh's catch falls through to user null (line 86)
Throw(c) ==
    /\ ThrowPoint(c)
    /\ store' = CASE method[c] = "init"
                        -> [user |-> Null, loading |-> FALSE, initialized |-> TRUE]
                  [] method[c] = "refresh"
                        -> [store EXCEPT !.user = Null]
                  [] OTHER -> store
    /\ Finish(c)

-----------------------------------------------------------------------------

Next ==
    \E c \in Calls :
        \/ CallInit(c)
        \/ \E m \in Methods, u \in Users : CallLogin(c, m, u)
        \/ \E m \in Methods : CallPost(c, m)
        \/ ServeMe(c) \/ ServeLogin(c) \/ ServeLogout(c) \/ ServeRefresh(c)
        \/ ApplyInit(c) \/ ApplyLogin(c) \/ ApplyLogout(c) \/ ApplyRefresh(c)
        \/ Throw(c)

Spec == Init /\ [][Next]_vars

-----------------------------------------------------------------------------
(* Properties *)

\* Once initialized, the store shows the loading state only while an init()
\* fetch is outstanding: every way init() resumes, answer (line 30) or
\* failure (line 32), clears loading, whatever other calls interleave.
LoadingMeansInitPending ==
    (store.loading /\ store.initialized) => \E c \in Calls : method[c] = "init"

\* When no call is outstanding, the store shows no user, or the user the
\* browser's cookies are logged in as: it never shows a user after the
\* server has logged the browser out or in as someone else, whether a
\* login's or register's res.json() threw after its Set-Cookie arrived
\* (lines 44, 48, 61, 65) or an older answer (init line 30) was applied
\* after a newer one.
StoreNotStale ==
    (\A c \in Calls : phase[c] = "idle") => store.user \in {serverUser, Null}

=============================================================================
