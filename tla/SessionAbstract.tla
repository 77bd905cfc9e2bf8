--------------------------- MODULE SessionAbstract ---------------------------
(***************************************************************************)
(* What the gateway promises about the browser's session (spec 3, 4.1,     *)
(* 4.2).  The origin issues token pairs one after another and keeps a      *)
(* ledger of the refresh tokens it accepts and those it has rejected.  The *)
(* browser holds no session or one issued pair.                            *)
(*   - Login, registration and refresh replace the session by a pair newer *)
(*     than the one held: the browser never goes back to an older pair.    *)
(*   - Logout ends the session, and no session exists until the next one   *)
(*     is adopted.                                                         *)
(*   - Otherwise a session ends only when it is over: its refresh token is *)
(*     no longer accepted, or the origin answered a refresh of it non-2xx. *)
(***************************************************************************)
EXTENDS Naturals

VARIABLES
    issued,     \* number of pairs the origin has issued
    live,       \* refresh tokens the origin accepts
    rejected,   \* refresh tokens the origin answered a refresh of non-2xx
    session,    \* the pair the browser holds, 0 for none
    loggedOut   \* the browser's last login/logout was a logout

vars == <<issued, live, rejected, session, loggedOut>>

browserVars == <<session, loggedOut>>

Init ==
    /\ issued = 0 /\ live = {} /\ rejected = {}
    /\ session = 0 /\ loggedOut = FALSE

\* the origin issues a new pair, consuming at most one refresh token
Mint ==
    /\ issued' = issued + 1
    /\ \E consumed \in SUBSET live :
          /\ \A a, b \in consumed : a = b
          /\ live' = (live \ consumed) \cup {issued + 1}
    /\ UNCHANGED <<rejected, browserVars>>

\* the origin stops accepting a refresh token
Revoke ==
    /\ \E t \in live : live' = live \ {t}
    /\ UNCHANGED <<issued, rejected, browserVars>>

\* the origin answers a refresh of a token with non-2xx
Reject ==
    /\ \E t \in 1..issued : rejected' = rejected \cup {t}
    /\ UNCHANGED <<issued, live, browserVars>>

\* the browser takes a newer pair
Adopt ==
    /\ session' \in (session + 1)..issued
    /\ loggedOut' = FALSE
    /\ UNCHANGED <<issued, live, rejected>>

\* the browser logs out
Logout ==
    /\ session' = 0
    /\ loggedOut' = TRUE
    /\ UNCHANGED <<issued, live, rejected>>

\* a session that is over is removed
End ==
    /\ session # 0
    /\ session \notin live \/ session \in rejected
    /\ session' = 0
    /\ UNCHANGED <<issued, live, rejected, loggedOut>>

Next == Mint \/ Revoke \/ Reject \/ Adopt \/ Logout \/ End

Spec == Init /\ [][Next]_vars

=============================================================================
