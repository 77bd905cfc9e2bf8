\* One request at a time: the jar implements the abstract session.
CONSTANTS
    r1 = r1
    r2 = r2
    Requests <- OneRequest
    MaxIssued = 3
SPECIFICATION Spec
INVARIANT TypeOK
PROPERTY AbstractSpec
