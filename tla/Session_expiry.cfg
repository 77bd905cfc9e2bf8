\* One request at a time: the access cookie lapses beside a live refresh cookie.
CONSTANTS
    r1 = r1
    r2 = r2
    Requests <- OneRequest
    MaxIssued = 2
SPECIFICATION Spec
INVARIANT LiveRefreshUsed
