\* A refresh in flight when the user logs out re-installs a live session.
CONSTANTS
    r1 = r1
    r2 = r2
    Requests <- TwoRequests
    MaxIssued = 2
SPECIFICATION Spec
SYMMETRY RequestSymmetry
INVARIANT LogoutIsFinal
