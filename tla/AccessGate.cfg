\* Every path of up to four atoms, with and without a user.
CONSTANTS
    MaxLen <- MCMaxLen
SPECIFICATION Spec
INVARIANT TypeOK
INVARIANT NoRedirectChain
