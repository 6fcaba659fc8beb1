SPECIFICATION Spec
CONSTANTS
    r1 = r1  r2 = r2
    Runs = {r1, r2}
    Other = other
    Path <- MCPath
    Keys <- MCKeys
    Dirs = {1, 2, 3, 4, 5, 6, 7}
    Cwd = 1
    Elsewhere = 2
    Contents <- MCContents
    Foreign <- MCForeign
    Faulty = TRUE
    Swaps = FALSE
    MaxMeddling = 1
    Items <- MCItems
    Subdir <- MCSubdir
    Scenarios <- MCScenarios
    MaxFiles = 2
    MaxStore = 2
INVARIANTS
    CachedOrNoted
PROPERTIES
    NothingReplaced
    StoreOfEvidence
