\* Two concurrent requests both refresh with the same token: the loser's
\* 401 deletes the winner's freshly rotated, live session.
CONSTANTS
    r1 = r1
    r2 = r2
    Requests <- TwoRequests
    MaxIssued = 2
SPECIFICATION Spec
SYMMETRY RequestSymmetry
PROPERTY LiveSessionNotDestroyed
