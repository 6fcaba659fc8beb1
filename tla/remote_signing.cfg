SPECIFICATION Spec
CONSTANTS
    a = a
    b = b
    Run <- MCRun
    Setups <- MCSetups
    Stores <- MCStores
    FirstGrant = 2
    Lifetimes = {2}
    Margin = 1
    Timeout = 1
    Renewals = {"rotated", "repeated", "unmentioned"}
    MaxClock = 2
    MaxGrants = 3
    MaxStrangers = 1
    MaxFaults = 1
INVARIANTS
    PairsAreWhole
    RotationIsRecorded
    FreshTokensAreTaken
    WrittenIsAuthorised
PROPERTIES
    RunsEnd
