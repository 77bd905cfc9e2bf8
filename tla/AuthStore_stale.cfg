\* Two outstanding calls: a lost answer, or an answer applied late, leaves a stale user.
CONSTANTS
    c1 = c1
    c2 = c2
    c3 = c3
    u1 = u1
    u2 = u2
    Null = Null
    Calls <- TwoCalls
    Users <- TwoUsers
SPECIFICATION Spec
INVARIANT StoreNotStale
