SPECIFICATION Spec
CONSTANTS
    r1 = r1  r2 = r2
    Runs = {r1, r2}
    Other = other
    Path <- MCPath
    Keys <- MCKeys
    Dirs = {1, 2, 3, 4, 5, 6}
    Cwd = 1
    Elsewhere = 2
    Contents <- MCContents
    Foreign <- MCForeign
    Faulty = TRUE
    Swaps = TRUE
    Contested <- MCContested
    MaxMeddling = 1
    Scenarios <- MCScenarios
    Content <- MCContent
    Unsafe <- MCUnsafe
    MaxTotal = 5
    MaxAttempts = 2
    Renamed <- MCRenamed
    Subdirectory <- MCSubdirectory
    TooLong <- MCTooLong
    NameKey <- MCNameKey
    FileKey <- MCFileKey
INVARIANTS
    StaysInside
    NothingLeftBehind
    DocumentsArriveOnce
PROPERTIES
    KeepsOthersFiles
    EveryRunEnds
