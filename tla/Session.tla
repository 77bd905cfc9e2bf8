------------------------------ MODULE Session ------------------------------
(***************************************************************************)
(* Session/token lifecycle of the SvelteKit gateway (src/web/src).         *)
(*                                                                         *)
(* One browser, its cookie jar (access_token, refresh_token), the origin   *)
(* service's token state, and a set of concurrent browser requests.  Every *)
(* request first runs the server hook `handle` (hooks.server.ts): read the *)
(* two cookies, GET /v1/me, on 401 POST /v1/auth/refresh, then the access  *)
(* gate, then the page load or the +server.ts endpoint.  Each `await` on   *)
(* an origin call is a step boundary, so other requests interleave there.  *)
(* Cookies written with cookies.set/delete during a request are seen by    *)
(* later cookies.get of the same request and reach the browser's jar only  *)
(* when the response is delivered (Set-Cookie headers).                    *)
(*                                                                         *)
(* Tokens are abstracted to the index of the pair the origin issued: pair  *)
(* n is access token n and refresh token n.                                *)
(***************************************************************************)
EXTENDS Integers, FiniteSets

CONSTANTS
    Requests,   \* concurrent in-flight requests of one browser
    MaxIssued   \* bound on token pairs the origin issues (register/refresh)

ASSUME MaxIssued \in Nat /\ MaxIssued >= 1

Token     == 1..MaxIssued
NoToken   == 0             \* cookie absent / deleted
Untouched == -1            \* no cookies.set/delete of this cookie yet
CookieVal == Token \cup {NoToken}

\* Pages with a +page.server.ts load ("/", /search, /anime/[id], /profile,
\* /watch/[episodeId]) and the /login page
PageKinds     == {"home", "search", "anime", "profile", "watch", "loginPage"}
\* hooks.server.ts lines 6-7: protectedRoutes and authRoutes, by prefix
ProtectedPages == {"profile", "watch"}
AuthPages      == {"loginPage"}
\* +server.ts endpoints under /api (no prefix of the two route lists)
EndpointKinds == {"refresh", "logout", "register", "login", "me",
                  "progress", "rating"}
Kinds         == PageKinds \cup EndpointKinds

VARIABLES
    \* origin service
    issued,        \* number of token pairs issued so far
    accessLive,    \* access tokens the origin accepts on GET /v1/me
    refreshLive,   \* refresh tokens the origin accepts on /v1/auth/refresh
    rejected,      \* refresh tokens the origin answered non-2xx for
    \* browser cookie jar
    jarAT, jarRT,
    \* per request
    kind, pc,
    accessToken,   \* const accessToken = event.cookies.get('access_token')
    refreshToken,  \* const refreshToken = event.cookies.get('refresh_token')
    setAT, setRT,  \* pending cookies.set/delete of this request
    user,          \* let user (TRUE: a user object, FALSE: null)
    sentAT,        \* bearer token sent on the origin call after the hook
    \* history (not program state)
    loggedOut      \* the last login/register/logout response seen was a logout

originVars  == <<issued, accessLive, refreshLive, rejected>>
\* the browser: its cookie jar and the history variable
jarVars     == <<jarAT, jarRT, loggedOut>>
requestVars == <<kind, pc, accessToken, refreshToken, setAT, setRT, user,
                sentAT>>
\* what a step after Start never changes
readVars    == <<kind, accessToken, refreshToken>>
vars        == <<originVars, jarVars, requestVars>>

PCs == {"idle", "me", "refresh", "gate", "load", "endpoint", "respond"}

TypeOK ==
    /\ issued \in 0..MaxIssued
    /\ accessLive \subseteq 1..issued
    /\ refreshLive \subseteq 1..issued
    /\ rejected \subseteq Token
    /\ jarAT \in CookieVal /\ jarRT \in CookieVal
    /\ kind \in [Requests -> Kinds \cup {"none"}]
    /\ pc \in [Requests -> PCs]
    /\ accessToken \in [Requests -> CookieVal]
    /\ refreshToken \in [Requests -> CookieVal]
    /\ setAT \in [Requests -> CookieVal \cup {Untouched}]
    /\ setRT \in [Requests -> CookieVal \cup {Untouched}]
    /\ user \in [Requests -> BOOLEAN]
    /\ sentAT \in [Requests -> CookieVal]
    /\ loggedOut \in BOOLEAN

\* cookies.get within request r: a value set earlier in r wins
CookieAT(r) == IF setAT[r] = Untouched THEN accessToken[r] ELSE setAT[r]
CookieRT(r) == IF setRT[r] = Untouched THEN refreshToken[r] ELSE setRT[r]

\* cookies.set('access_token', ...); cookies.set('refresh_token', ...)
SetTokens(r, t) ==
    /\ setAT' = [setAT EXCEPT ![r] = t]
    /\ setRT' = [setRT EXCEPT ![r] = t]

\* cookies.delete('access_token'); cookies.delete('refresh_token')
DeleteTokens(r) ==
    /\ setAT' = [setAT EXCEPT ![r] = NoToken]
    /\ setRT' = [setRT EXCEPT ![r] = NoToken]

-----------------------------------------------------------------------------
(* Origin service (external): POST /v1/auth/refresh and /v1/auth/register *)

\* 2xx: the refresh token is consumed and a new pair issued (rotation)
OriginRotate(rt) ==
    /\ rt \in refreshLive
    /\ issued < MaxIssued
    /\ issued' = issued + 1
    /\ accessLive' = accessLive \cup {issued + 1}
    /\ refreshLive' = (refreshLive \ {rt}) \cup {issued + 1}
    /\ UNCHANGED rejected

\* non-2xx: 401 for a token that is not live, or a 5xx for any token
OriginReject(rt) ==
    /\ rejected' = rejected \cup {rt}
    /\ UNCHANGED <<issued, accessLive, refreshLive>>

\* fetch throws: either the call never reached the origin, or the origin
\* rotated the token and the answer was lost on the way back
OriginUnavailable(rt) ==
    \/ UNCHANGED originVars
    \/ OriginRotate(rt)

\* POST /v1/auth/register 2xx: a new account with a fresh pair
OriginRegister ==
    /\ issued < MaxIssued
    /\ issued' = issued + 1
    /\ accessLive' = accessLive \cup {issued + 1}
    /\ refreshLive' = refreshLive \cup {issued + 1}
    /\ UNCHANGED rejected

-----------------------------------------------------------------------------
(* The server hook `handle` (hooks.server.ts) *)

Goto(r, p) == pc' = [pc EXCEPT ![r] = p]

\* lines 9-15: read both cookies; call /v1/me only if an access token exists
Start(r, k) ==
    /\ pc[r] = "idle"
    /\ kind' = [kind EXCEPT ![r] = k]
    /\ accessToken' = [accessToken EXCEPT ![r] = jarAT]
    /\ refreshToken' = [refreshToken EXCEPT ![r] = jarRT]
    /\ Goto(r, IF jarAT # NoToken THEN "me" ELSE "gate")
    /\ UNCHANGED <<originVars, jarVars, setAT, setRT, user, sentAT>>

\* lines 16-21: /v1/me answered 200
WhoamiOk(r) ==
    /\ pc[r] = "me"
    /\ accessToken[r] \in accessLive
    /\ user' = [user EXCEPT ![r] = TRUE]
    /\ Goto(r, "gate")
    /\ UNCHANGED <<originVars, jarVars, readVars, setAT, setRT, sentAT>>

\* line 22: /v1/me answered 401 and a refresh token was read
WhoamiExpired(r) ==
    /\ pc[r] = "me"
    /\ accessToken[r] \notin accessLive
    /\ refreshToken[r] # NoToken
    /\ Goto(r, "refresh")
    /\ UNCHANGED <<originVars, jarVars, readVars, setAT, setRT, user, sentAT>>

\* lines 22, 53-55: 401 without a refresh token, another status, or a
\* thrown fetch: user stays null and the cookies are left alone (a network
\* error or a 5xx can happen whatever the token, so there is no guard)
WhoamiNoUser(r) ==
    /\ pc[r] = "me"
    /\ Goto(r, "gate")
    /\ UNCHANGED <<originVars, jarVars, readVars, setAT, setRT, user, sentAT>>

\* lines 24-46: refresh with the refresh token read at line 11; on 2xx
\* store the new pair and take the user from the refresh response
HookRefreshOk(r) ==
    /\ pc[r] = "refresh"
    /\ OriginRotate(refreshToken[r])
    /\ SetTokens(r, issued + 1)
    /\ user' = [user EXCEPT ![r] = TRUE]
    /\ Goto(r, "gate")
    /\ UNCHANGED <<jarVars, readVars, sentAT>>

\* lines 47-51: refresh answered non-2xx: delete both cookies
HookRefreshRejected(r) ==
    /\ pc[r] = "refresh"
    /\ OriginReject(refreshToken[r])
    /\ DeleteTokens(r)
    /\ Goto(r, "gate")
    /\ UNCHANGED <<jarVars, readVars, user, sentAT>>

\* mutant of HookRefreshUnavailable: the catch also deletes both cookies
HookRefreshUnavailableClears(r) ==
    /\ pc[r] = "refresh"
    /\ OriginUnavailable(refreshToken[r])
    /\ DeleteTokens(r)
    /\ Goto(r, "gate")
    /\ UNCHANGED <<jarVars, readVars, user, sentAT>>

\* lines 53-55: the refresh fetch (or its .json()) threw
HookRefreshUnavailable(r) ==
    /\ pc[r] = "refresh"
    /\ OriginUnavailable(refreshToken[r])
    /\ Goto(r, "gate")
    /\ UNCHANGED <<jarVars, readVars, setAT, setRT, user, sentAT>>

\* lines 62-73: the requests the gate redirects
Redirected(r) ==
    \/ user[r] /\ kind[r] \in AuthPages
    \/ ~user[r] /\ kind[r] \in ProtectedPages

\* lines 64-73: throw redirect(302, ...); the response still carries the
\* cookies set above
GateRedirect(r) ==
    /\ pc[r] = "gate"
    /\ Redirected(r)
    /\ Goto(r, "respond")
    /\ UNCHANGED <<originVars, jarVars, readVars, setAT, setRT, user, sentAT>>

\* lines 58-60, 75: locals.user = user; locals.accessToken = accessToken;
\* resolve(event) runs the page's load, if it has one, or the endpoint
GateResolve(r) ==
    /\ pc[r] = "gate"
    /\ ~Redirected(r)
    /\ Goto(r, CASE kind[r] \in EndpointKinds -> "endpoint"
                 [] kind[r] \in AuthPages     -> "respond"
                 [] OTHER                     -> "load")
    /\ UNCHANGED <<originVars, jarVars, readVars, setAT, setRT, user, sentAT>>

-----------------------------------------------------------------------------
(* Page loads (+page.server.ts).  Their origin calls only read; what they *)
(* change is which access token they send as the bearer.                  *)

\* the step of a load or endpoint that sends bearer token t (NoToken: none)
Send(r, t) ==
    /\ sentAT' = [sentAT EXCEPT ![r] = t]
    /\ Goto(r, "respond")
    /\ UNCHANGED <<originVars, jarVars, readVars, setAT, setRT, user>>

\* +page.server.ts lines 19-85: continue-watching with locals.accessToken
LoadHome(r) ==
    /\ pc[r] = "load" /\ kind[r] = "home"
    /\ Send(r, accessToken[r])

\* watch/[episodeId]/+page.server.ts lines 5-24: locals.accessToken
LoadWatch(r) ==
    /\ pc[r] = "load" /\ kind[r] = "watch"
    /\ Send(r, accessToken[r])

\* profile/+page.server.ts lines 6-29: cookies.get('access_token'); the
\* redirect at line 7 never fires, the hook has redirected a null user
LoadProfile(r) ==
    /\ pc[r] = "load" /\ kind[r] = "profile"
    /\ user[r]
    /\ Send(r, CookieAT(r))

\* anime/[id]/+page.server.ts lines 35-46: cookies.get('access_token')
LoadAnime(r) ==
    /\ pc[r] = "load" /\ kind[r] = "anime"
    /\ Send(r, CookieAT(r))

\* search/+page.server.ts lines 14-67: anonymous search
LoadSearch(r) ==
    /\ pc[r] = "load" /\ kind[r] = "search"
    /\ Send(r, NoToken)

-----------------------------------------------------------------------------
(* +server.ts endpoints, run after the hook with the hook's cookies *)

\* api/auth/refresh lines 6-10: no refresh cookie: 401
ApiRefreshNoToken(r) ==
    /\ pc[r] = "endpoint" /\ kind[r] = "refresh"
    /\ CookieRT(r) = NoToken
    /\ Goto(r, "respond")
    /\ UNCHANGED <<originVars, jarVars, readVars, setAT, setRT, user, sentAT>>

\* api/auth/refresh lines 12-45: 2xx: set both cookies
ApiRefreshOk(r) ==
    /\ pc[r] = "endpoint" /\ kind[r] = "refresh"
    /\ CookieRT(r) # NoToken
    /\ OriginRotate(CookieRT(r))
    /\ SetTokens(r, issued + 1)
    /\ Goto(r, "respond")
    /\ UNCHANGED <<jarVars, readVars, user, sentAT>>

\* api/auth/refresh lines 19-26: non-2xx: delete both cookies
ApiRefreshRejected(r) ==
    /\ pc[r] = "endpoint" /\ kind[r] = "refresh"
    /\ CookieRT(r) # NoToken
    /\ OriginReject(CookieRT(r))
    /\ DeleteTokens(r)
    /\ Goto(r, "respond")
    /\ UNCHANGED <<jarVars, readVars, user, sentAT>>

\* api/auth/refresh lines 46-49: fetch or .json() threw: 500, no cookies
ApiRefreshUnavailable(r) ==
    /\ pc[r] = "endpoint" /\ kind[r] = "refresh"
    /\ CookieRT(r) # NoToken
    /\ OriginUnavailable(CookieRT(r))
    /\ Goto(r, "respond")
    /\ UNCHANGED <<jarVars, readVars, setAT, setRT, user, sentAT>>

\* api/auth/refresh lines 19, 46-49: a non-2xx answer whose body is not
\* JSON (a proxy's error page): res.json() throws before res.ok is read,
\* and the catch answers 500 without touching the cookies
ApiRefreshRejectedUnreadable(r) ==
    /\ pc[r] = "endpoint" /\ kind[r] = "refresh"
    /\ CookieRT(r) # NoToken
    /\ OriginReject(CookieRT(r))
    /\ Goto(r, "respond")
    /\ UNCHANGED <<jarVars, readVars, setAT, setRT, user, sentAT>>

\* api/auth/logout lines 5-23: best-effort POST /v1/auth/logout with the
\* refresh cookie (revoked if the call got through), then delete both
ApiLogout(r) ==
    /\ pc[r] = "endpoint" /\ kind[r] = "logout"
    /\ \/ CookieRT(r) # NoToken
          /\ refreshLive' = refreshLive \ {CookieRT(r)}
       \/ UNCHANGED refreshLive  \* no cookie, or the fetch threw first
    /\ DeleteTokens(r)
    /\ Goto(r, "respond")
    /\ UNCHANGED <<issued, accessLive, rejected, jarVars, readVars, user,
                   sentAT>>

\* api/auth/register lines 5-39: 2xx: set both cookies of the new pair
ApiRegisterOk(r) ==
    /\ pc[r] = "endpoint" /\ kind[r] = "register"
    /\ OriginRegister
    /\ SetTokens(r, issued + 1)
    /\ Goto(r, "respond")
    /\ UNCHANGED <<jarVars, readVars, user, sentAT>>

\* api/auth/register lines 17-18, 40-43: origin error or throw: no cookies
ApiRegisterFailed(r) ==
    /\ pc[r] = "endpoint" /\ kind[r] = "register"
    /\ Goto(r, "respond")
    /\ UNCHANGED <<originVars, jarVars, readVars, setAT, setRT, user, sentAT>>

\* POST /api/auth/login (spec 4.4; called by the auth store, no handler
\* under src/): as register, with POST /v1/auth/login
ApiLoginOk(r) ==
    /\ pc[r] = "endpoint" /\ kind[r] = "login"
    /\ OriginRegister
    /\ SetTokens(r, issued + 1)
    /\ Goto(r, "respond")
    /\ UNCHANGED <<jarVars, readVars, user, sentAT>>

ApiLoginFailed(r) ==
    /\ pc[r] = "endpoint" /\ kind[r] = "login"
    /\ Goto(r, "respond")
    /\ UNCHANGED <<originVars, jarVars, readVars, setAT, setRT, user, sentAT>>

\* api/auth/me lines 5-27: GET /v1/me with the access cookie, if any
ApiMe(r) ==
    /\ pc[r] = "endpoint" /\ kind[r] = "me"
    /\ Send(r, CookieAT(r))

\* api/activity/progress lines 5-29: 401 without an access cookie, else
\* forward with it
ApiProgress(r) ==
    /\ pc[r] = "endpoint" /\ kind[r] = "progress"
    /\ Send(r, CookieAT(r))

\* api/ratings/[animeId] lines 6-64: 401 without an access cookie; a POST
\* with a rating outside 1..10 is answered 400 before any origin call
ApiRating(r) ==
    /\ pc[r] = "endpoint" /\ kind[r] = "rating"
    /\ \/ Send(r, CookieAT(r))
       \/ CookieAT(r) # NoToken /\ Send(r, NoToken)

\* mutant of Respond: a cookie the request never wrote is applied as well
RespondAll(r) ==
    /\ pc[r] = "respond"
    /\ jarAT' = setAT[r]
    /\ jarRT' = setRT[r]
    /\ Goto(r, "idle")
    /\ kind' = [kind EXCEPT ![r] = "none"]
    /\ accessToken' = [accessToken EXCEPT ![r] = NoToken]
    /\ refreshToken' = [refreshToken EXCEPT ![r] = NoToken]
    /\ setAT' = [setAT EXCEPT ![r] = Untouched]
    /\ setRT' = [setRT EXCEPT ![r] = Untouched]
    /\ user' = [user EXCEPT ![r] = FALSE]
    /\ sentAT' = [sentAT EXCEPT ![r] = NoToken]
    /\ UNCHANGED <<originVars, loggedOut>>

\* The response reaches the browser: its Set-Cookie headers update the jar
\* (a cookie the request never wrote keeps the jar's value); the request's
\* own state is dropped
Respond(r) ==
    /\ pc[r] = "respond"
    /\ jarAT' = IF setAT[r] = Untouched THEN jarAT ELSE setAT[r]
    /\ jarRT' = IF setRT[r] = Untouched THEN jarRT ELSE setRT[r]
    /\ Goto(r, "idle")
    /\ kind' = [kind EXCEPT ![r] = "none"]
    /\ accessToken' = [accessToken EXCEPT ![r] = NoToken]
    /\ refreshToken' = [refreshToken EXCEPT ![r] = NoToken]
    /\ setAT' = [setAT EXCEPT ![r] = Untouched]
    /\ setRT' = [setRT EXCEPT ![r] = Untouched]
    /\ user' = [user EXCEPT ![r] = FALSE]
    /\ sentAT' = [sentAT EXCEPT ![r] = NoToken]
    /\ loggedOut' = CASE kind[r] = "logout"                -> TRUE
                       [] kind[r] \in {"login", "register"}
                            /\ setRT[r] # Untouched         -> FALSE
                       [] OTHER                             -> loggedOut
    /\ UNCHANGED originVars

-----------------------------------------------------------------------------
(* Time *)

\* the origin stops accepting an access token (expires_in elapsed)
ExpireAccess(t) ==
    /\ t \in accessLive
    /\ accessLive' = accessLive \ {t}
    /\ UNCHANGED <<issued, refreshLive, rejected, jarVars, requestVars>>

\* the access cookie's maxAge (expires_in || 3600) elapses; it was set
\* together with the token, so it goes no earlier than the token
ExpireAccessCookie ==
    /\ jarAT # NoToken
    /\ jarAT \notin accessLive
    /\ jarAT' = NoToken
    /\ UNCHANGED <<originVars, jarRT, loggedOut, requestVars>>

\* the origin stops accepting a refresh token (expiry or revocation)
ExpireRefresh(t) ==
    /\ t \in refreshLive
    /\ refreshLive' = refreshLive \ {t}
    /\ UNCHANGED <<issued, accessLive, rejected, jarVars, requestVars>>

-----------------------------------------------------------------------------

Handle(r) ==
    \/ \E k \in Kinds : Start(r, k)
    \/ WhoamiOk(r) \/ WhoamiExpired(r) \/ WhoamiNoUser(r)
    \/ HookRefreshOk(r) \/ HookRefreshRejected(r) \/ HookRefreshUnavailable(r)
    \/ GateRedirect(r) \/ GateResolve(r)
    \/ LoadHome(r) \/ LoadWatch(r) \/ LoadProfile(r) \/ LoadAnime(r)
    \/ LoadSearch(r)
    \/ ApiRefreshNoToken(r) \/ ApiRefreshOk(r) \/ ApiRefreshRejected(r)
    \/ ApiRefreshUnavailable(r) \/ ApiRefreshRejectedUnreadable(r)
    \/ ApiLogout(r)
    \/ ApiRegisterOk(r) \/ ApiRegisterFailed(r)
    \/ ApiLoginOk(r) \/ ApiLoginFailed(r)
    \/ ApiMe(r) \/ ApiProgress(r) \/ ApiRating(r)
    \/ Respond(r)

Time ==
    \/ \E t \in Token : ExpireAccess(t) \/ ExpireRefresh(t)
    \/ ExpireAccessCookie

Init ==
    /\ issued = 0
    /\ accessLive = {} /\ refreshLive = {} /\ rejected = {}
    /\ jarAT = NoToken /\ jarRT = NoToken
    /\ kind = [r \in Requests |-> "none"]
    /\ pc = [r \in Requests |-> "idle"]
    /\ accessToken = [r \in Requests |-> NoToken]
    /\ refreshToken = [r \in Requests |-> NoToken]
    /\ setAT = [r \in Requests |-> Untouched]
    /\ setRT = [r \in Requests |-> Untouched]
    /\ user = [r \in Requests |-> FALSE]
    /\ sentAT = [r \in Requests |-> NoToken]
    /\ loggedOut = FALSE

Next == (\E r \in Requests : Handle(r)) \/ Time

Spec == Init /\ [][Next]_vars

\* The steps that need no origin answer: the gate, the refresh endpoint's
\* early 401, and delivering the response
GatewayStep(r) ==
    \/ GateRedirect(r) \/ GateResolve(r)
    \/ ApiRefreshNoToken(r)
    \/ Respond(r)

\* Only the gateway's own steps are fair: SvelteKit runs a started handler
\* on, but an origin call that never answers is never abandoned, since no
\* fetch of the gateway has a timeout (the browser is never obliged to send
\* a request, so Start is unfair too)
GatewayFairSpec == Spec /\ \A r \in Requests : WF_vars(GatewayStep(r))

\* The abstract session the cookie jar holds (SessionAbstract.tla)
Abstract == INSTANCE SessionAbstract
                WITH live <- refreshLive, session <- jarRT

AbstractSpec == Abstract!Spec

-----------------------------------------------------------------------------
(* Properties *)

\* A delivered response deletes the browser's refresh cookie only when the
\* session it holds is over: the request was a logout, or the token in the
\* jar is no longer accepted by the origin, or the origin answered a refresh
\* of that very token with non-2xx (hook lines 47-50, refresh endpoint
\* lines 21-26).  A transient failure never ends a live session (spec 4.1).
LiveSessionNotDestroyed ==
    [][\A r \in Requests :
         (Respond(r) /\ jarRT # NoToken /\ jarRT' = NoToken)
            => \/ kind[r] = "logout"
               \/ jarRT \notin refreshLive
               \/ jarRT \in rejected]_vars

\* A refresh the origin answers non-2xx shows that the refresh token is
\* invalid or consumed, and the session must be cleared (spec 4.2, 4.4; spec
\* 9: the choice rests on whether an HTTP response came back, not on its
\* body).  So once every response has been delivered, the browser holds no
\* refresh token the origin has rejected, whichever of the hook (lines
\* 47-50) or the refresh endpoint (lines 19-26) saw the rejection.
NoRejectedTokenKept ==
    (\A r \in Requests : pc[r] = "idle") => jarRT \notin rejected

\* Every origin call a page load or endpoint makes for a resolved user
\* carries the access token the hook validated or obtained, the one the
\* request's cookies now hold (spec 4.1 step 3), whether the load reads it
\* from locals.accessToken (hook line 60) or from cookies.get.
SendsResolvedToken ==
    \A r \in Requests :
        (user[r] /\ sentAT[r] # NoToken) => sentAT[r] = CookieAT(r)


\* Logout ends the session (spec 3, 4.4): once the browser has received the
\* logout response, and until it logs in or registers again, its jar holds
\* no refresh token, whatever responses of requests started before the
\* logout arrive afterwards (hook lines 32-45 and api/auth/logout lines
\* 20-21 write the same cookies).
LogoutIsFinal ==
    loggedOut => jarRT = NoToken

\* A request whose browser holds a refresh token the origin still accepts
\* reaches the gate with a user (spec 8: an expired access token with a
\* valid refresh token makes a refresh call), also once the access cookie
\* has lapsed with its token (maxAge = expires_in, hook line 37) and the
\* hook (line 15) sees no access token at all.
LiveRefreshUsed ==
    \A r \in Requests :
        (pc[r] = "gate" /\ accessToken[r] = NoToken
           /\ refreshToken[r] \in refreshLive)
            => user[r]

=============================================================================
