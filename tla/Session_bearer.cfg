\* After the hook refreshes, the page load still gets the expired token.
CONSTANTS
    r1 = r1
    r2 = r2
    Requests <- OneRequest
    MaxIssued = 2
SPECIFICATION Spec
INVARIANT SendsResolvedToken
