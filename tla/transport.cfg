SPECIFICATION Spec
CONSTANTS
    Plans <- MCPlans
    Targets <- MCTargets
    Lookups <- MCLookups
    AllowPrivate = {TRUE, FALSE}
    Proxied = {TRUE, FALSE}
    MaxRedirects = 3
INVARIANTS
    GoesWhereVetted
    PolicyIsTheListedOne
    CredentialsAreProtected
