------------------------------ MODULE PageLoads ------------------------------
(***************************************************************************)
(* Failure handling of the page loads (routes/**/+page.server.ts).         *)
(*                                                                         *)
(* A load starts its origin fetches together (Promise.all, or one fetch),  *)
(* each fetch settles with an outcome, and the code after the await turns  *)
(* the outcomes into the page's data, an error page, or an exception that  *)
(* SvelteKit renders as a 500.  Which bearer each fetch carries is the     *)
(* business of Session.tla; here only the outcomes matter.                 *)
(***************************************************************************)
EXTENDS FiniteSets

CONSTANT Pages     \* the loads considered: a subset of PageNames

PageNames == {"home", "search", "anime", "profile", "watch"}

\* How a fetch settles: 2xx with a JSON body, 2xx with a JSON body whose
\* first hits carry a null genre, 2xx whose res.json() throws, a non-2xx
\* response, or a rejected fetch (no response)
Outcome == {"ok", "nullGenre", "badBody", "notOk", "throw"}

FetchNames == {"trending", "topRated", "newEpisodes", "continue", "search",
               "anime", "episodes", "ratings", "sources"}

\* The fetches whose hits carry a genres list (SearchHit, AnimeResponse)
GenreFetches == {"trending", "topRated", "newEpisodes", "search", "anime"}

Results == {"none", "full", "degraded", "errorPage", "redirect", "error500"}

VARIABLES
    page,      \* the load that runs
    hasToken,  \* an access token is at hand (locals or cookies)
    hasUser,   \* locals.user is set
    outcome,   \* fetch -> "unused", "pending" or its Outcome
    result     \* what the browser gets

vars == <<page, hasToken, hasUser, outcome, result>>

TypeOK ==
    /\ page \in PageNames
    /\ hasToken \in BOOLEAN /\ hasUser \in BOOLEAN
    /\ outcome \in [FetchNames -> Outcome \cup {"unused", "pending"}]
    /\ result \in Results

\* The fetches a load starts
Fetches(p, tok) ==
    CASE p = "home"    -> {"trending", "topRated", "newEpisodes"}
                          \cup (IF tok THEN {"continue"} ELSE {})
      [] p = "search"  -> {"search"}
      [] p = "anime"   -> {"anime", "episodes", "ratings"}
      [] p = "profile" -> {"continue"}
      [] p = "watch"   -> IF tok THEN {"sources"} ELSE {}

\* Begin: profile lines 7-9 redirect without a user before any fetch;
\* otherwise every fetch of the load is in flight at once
Init ==
    /\ page \in Pages
    /\ hasToken \in BOOLEAN
    /\ hasUser \in BOOLEAN
    /\ IF page = "profile" /\ ~hasUser
          THEN /\ outcome = [f \in FetchNames |-> "unused"]
               /\ result = "redirect"
          ELSE /\ outcome = [f \in FetchNames |->
                               IF f \in Fetches(page, hasToken)
                                  THEN "pending" ELSE "unused"]
               /\ result = "none"

\* One fetch settles
Resolve(f, o) ==
    /\ result = "none"
    /\ outcome[f] = "pending"
    /\ o = "nullGenre" => f \in GenreFetches
    /\ outcome' = [outcome EXCEPT ![f] = o]
    /\ UNCHANGED <<page, hasToken, hasUser, result>>

\* anime lines 40-46: Promise.all rejects as soon as the anime or episodes
\* fetch rejects (the ratings fetch has its own .catch); nothing catches it
PromiseAllRejects ==
    /\ result = "none"
    /\ page = "anime"
    /\ \E f \in {"anime", "episodes"} : outcome[f] = "throw"
    /\ result' = "error500"
    /\ UNCHANGED <<page, hasToken, hasUser, outcome>>

\* A fetch answered 2xx with a body the code reads (genres are copied, not
\* read, by every load but the home page's hero)
Usable(o) == o \in {"ok", "nullGenre"}

\* anime lines 48-100: a non-2xx anime answer returns an error page before
\* any .json(); animeRes.json(), episodesRes.json() (if ok) and
\* ratingsRes.json() (if ok) run outside any try
AnimeResult ==
    CASE outcome["anime"] = "notOk" -> "errorPage"
      [] \E f \in {"anime", "episodes", "ratings"} : outcome[f] = "badBody"
                                    -> "error500"
      [] \A f \in {"anime", "episodes", "ratings"} : Usable(outcome[f])
                                    -> "full"
      [] OTHER                      -> "degraded"

\* home lines 87-95: the hero is mapped from the first trending hits after
\* the Promise.all, outside any try; line 93 reads (g).name of a genre that
\* is not a string, which throws on null
FeaturedThrows == outcome["trending"] = "nullGenre"

\* mutant of LoadResult: fetchAnimeList's .json() outside its try
LoadResultListUnguarded ==
    CASE page = "anime" -> AnimeResult
      [] page = "home" /\ FeaturedThrows -> "error500"
      [] page = "home" /\ \E f \in {"trending", "topRated", "newEpisodes"} :
                             outcome[f] = "badBody" -> "error500"
      [] OTHER -> IF \A f \in Fetches(page, hasToken) : Usable(outcome[f])
                     THEN "full" ELSE "degraded"

\* home lines 23-45, 48-77 (every fetch and .json() inside try/catch,
\* falling back to []), search lines 24-66 (fallback to empty results),
\* profile lines 16-29, watch lines 12-24: any failure degrades the data;
\* then the home page maps its hero (lines 87-95)
LoadResult ==
    CASE page = "anime" -> AnimeResult
      [] page = "home" /\ FeaturedThrows -> "error500"
      [] OTHER -> IF \A f \in Fetches(page, hasToken) : Usable(outcome[f])
                     THEN "full" ELSE "degraded"

\* The awaits have all settled without a rejection escaping: the code
\* after them runs to its return or throw
Finish ==
    /\ result = "none"
    /\ \A f \in Fetches(page, hasToken) : outcome[f] \in Outcome
    /\ ~(page = "anime" /\ \E f \in {"anime", "episodes"} : outcome[f] = "throw")
    /\ result' = LoadResult
    /\ UNCHANGED <<page, hasToken, hasUser, outcome>>

Next ==
    \/ \E f \in FetchNames, o \in Outcome : Resolve(f, o)
    \/ PromiseAllRejects
    \/ Finish

Spec == Init /\ [][Next]_vars

-----------------------------------------------------------------------------
(* Properties *)

\* Spec 7: every failure of an origin call is caught at the load; the worst
\* a page gets is empty or default data sections (or its own error page),
\* never an unhandled exception that SvelteKit turns into a 500, whatever
\* each of the load's fetches and .json() calls does.
NoUnhandledFault == result # "error500"

\* The loads catch every fetch that throws, answers non-2xx or returns a
\* body that is not JSON, except the anime load (lines 40-62): home's
\* fetchAnimeList and fetchContinueWatching catch everything, and search,
\* profile and watch wrap their fetch and .json() in try/catch.  Elsewhere
\* only a 2xx answer whose body the code then mishandles (a null genre in
\* the home hero, lines 87-95) can still end in an unhandled exception.
FailedFetchesCaught ==
    (result = "error500" /\ page # "anime")
        => \E f \in Fetches(page, hasToken) : outcome[f] = "nullGenre"

=============================================================================
