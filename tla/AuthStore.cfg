\* Three outstanding calls, two accounts.
CONSTANTS
    c1 = c1
    c2 = c2
    c3 = c3
    u1 = u1
    u2 = u2
    Null = Null
    Calls <- ThreeCalls
    Users <- TwoUsers
SPECIFICATION Spec
INVARIANT TypeOK
INVARIANT LoadingMeansInitPending
