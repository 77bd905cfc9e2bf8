\* One request at a time: the origin rejects a refresh with a non-JSON body.
CONSTANTS
    r1 = r1
    r2 = r2
    Requests <- OneRequest
    MaxIssued = 2
SPECIFICATION Spec
INVARIANT NoRejectedTokenKept
