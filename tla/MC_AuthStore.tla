---------------------------- MODULE MC_AuthStore ----------------------------
(* Model-checking instance of AuthStore. *)
EXTENDS AuthStore, TLC

CONSTANTS c1, c2, c3, u1, u2

TwoCalls == {c1, c2}
ThreeCalls == {c1, c2, c3}
TwoUsers == {u1, u2}

Symmetry == Permutations(ThreeCalls) \cup Permutations(TwoUsers)

=============================================================================
