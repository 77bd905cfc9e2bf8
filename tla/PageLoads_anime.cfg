\* The anime and home loads: a rejected anime or episodes fetch escapes
\* Promise.all, a malformed body escapes .json(), and a null genre in the
\* trending hits escapes the home hero's mapping.
CONSTANT Pages <- HomeAndAnime
SPECIFICATION Spec
INVARIANT NoUnhandledFault
CHECK_DEADLOCK FALSE
