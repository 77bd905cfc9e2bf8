----------------------------- MODULE MC_PageLoads -----------------------------
(* Model-checking instance of PageLoads. *)
EXTENDS PageLoads

\* every load
AllPages     == PageNames
\* the two loads with code that can throw after their awaits
HomeAndAnime == {"home", "anime"}
HomePage     == {"home"}

=============================================================================
