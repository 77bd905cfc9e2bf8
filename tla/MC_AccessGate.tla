---------------------------- MODULE MC_AccessGate ----------------------------
(* Model-checking instance of AccessGate. *)
EXTENDS AccessGate

\* paths of up to four atoms: "/watch/x", "/watchx/x", "/x/login", ...
MCMaxLen == 4

=============================================================================
