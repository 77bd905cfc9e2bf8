----------------------------- MODULE AccessGate -----------------------------
(***************************************************************************)
(* The access gate of hooks.server.ts (lines 6-7, 62-73) as operators on   *)
(* paths, and a browser that follows the gate's redirects.                 *)
(*                                                                         *)
(* A path is a sequence of atoms: "/" and the words of the route tables;   *)
(* "x" stands for any other run of characters.  A path string is the       *)
(* concatenation of its atoms, so String.startsWith on a route "/w" is     *)
(* IsPrefix on atom sequences: "/watchlist" is << "/", "watch", "x" >>.    *)
(***************************************************************************)
EXTENDS Naturals, Sequences, SequencesExt

CONSTANTS
    MaxLen      \* longest path the browser requests

Words == {"watch", "profile", "settings", "login", "register", "api", "x"}
Atoms == {"/"} \cup Words

\* mutant of protectedRoutes: the home page listed as protected
protectedRoutesWithRoot ==
    << <<"/">>, <<"/", "watch">>, <<"/", "profile">>, <<"/", "settings">> >>

\* hooks.server.ts lines 6-7
protectedRoutes == << <<"/", "watch">>, <<"/", "profile">>, <<"/", "settings">> >>
authRoutes      == << <<"/", "login">>, <<"/", "register">> >>

\* routes.some((r) => path.startsWith(r))
SomePrefix(routes, path) == \E i \in DOMAIN routes : IsPrefix(routes[i], path)

\* encodeURIComponent: "/" becomes "%2F"; the route words and the other
\* characters of a pathname (already percent-encoded by the URL parser,
\* which the "%" of "%2F" would turn into "%25") are left as atoms
RECURSIVE EncodeURIComponent(_)
EncodeURIComponent(s) ==
    IF s = <<>> THEN <<>>
    ELSE <<IF Head(s) = "/" THEN "%2F" ELSE Head(s)>>
            \o EncodeURIComponent(Tail(s))

Home  == <<"/">>
Login == <<"/", "login">>

\* mutant of Decide: the template loses "?return=" and the encoded path
\* is glued onto the pathname
DecideNoQuery(path, user) ==
    CASE user /\ SomePrefix(authRoutes, path)
            -> [to |-> Home, return |-> <<>>]
      [] ~user /\ SomePrefix(protectedRoutes, path)
            -> [to |-> Login \o EncodeURIComponent(path), return |-> <<>>]
      [] OTHER
            -> [to |-> <<>>, return |-> <<>>]

\* lines 64-75: Allow, or the redirect's pathname and return parameter
Decide(path, user) ==
    CASE user /\ SomePrefix(authRoutes, path)
            -> [to |-> Home, return |-> <<>>]
      [] ~user /\ SomePrefix(protectedRoutes, path)
            -> [to |-> Login, return |-> EncodeURIComponent(path)]
      [] OTHER
            -> [to |-> <<>>, return |-> <<>>]   \* resolve(event)

Allowed(path, user) == Decide(path, user).to = <<>>

\* every path of at most MaxLen atoms that starts with "/"
Paths == {<<"/">> \o s : s \in BoundedSeq(Atoms, MaxLen - 1)}

VARIABLES
    user,       \* identity the hook resolves (fixed while navigating)
    requested,  \* the path the browser first asked for
    path,       \* the path it is requesting now
    hops,       \* redirects followed so far
    returnTo    \* return parameter of the last redirect to /login

vars == <<user, requested, path, hops, returnTo>>

MaxHops == 3

TypeOK ==
    /\ user \in BOOLEAN
    /\ requested \in Paths /\ path \in Seq(Atoms)
    /\ hops \in 0..MaxHops
    /\ returnTo \in Seq(Atoms \cup {"%2F"})

Init ==
    /\ user \in BOOLEAN
    /\ requested \in Paths
    /\ path = requested
    /\ hops = 0
    /\ returnTo = <<>>

\* The browser follows a 302 from the gate
FollowRedirect ==
    /\ ~Allowed(path, user)
    /\ hops < MaxHops
    /\ path' = Decide(path, user).to
    /\ returnTo' = IF Decide(path, user).to = Login
                      THEN Decide(path, user).return ELSE returnTo
    /\ hops' = hops + 1
    /\ UNCHANGED <<user, requested>>

Done ==
    /\ Allowed(path, user)
    /\ UNCHANGED vars

Next == FollowRedirect \/ Done

Spec == Init /\ [][Next]_vars

-----------------------------------------------------------------------------
(* Properties *)

\* Whatever the path and identity, the gate's redirect lands on a page the
\* gate allows: a null user sent to /login, or a user sent to "/", is never
\* redirected again (hooks.server.ts lines 64-73 with the tables of 6-7).
NoRedirectChain ==
    hops <= 1

=============================================================================
