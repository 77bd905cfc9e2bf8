----------------------------- MODULE MC_Session -----------------------------
(* Model-checking instance of Session: requests are model values. *)
EXTENDS Session, TLC

CONSTANTS r1, r2

\* one request at a time: the browser waits for each response
OneRequest == {r1}

\* a page navigation racing a fetch, or two tabs
TwoRequests == {r1, r2}

RequestSymmetry == Permutations(TwoRequests)

=============================================================================
