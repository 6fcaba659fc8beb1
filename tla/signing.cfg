\* The runs end when MaxRuns have been made.
SPECIFICATION Spec
CHECK_DEADLOCK FALSE
CONSTANTS
    Dossiers <- MCDossiers
    Requests <- MCRequests
    Unusable <- MCUnusable
    Answers <- MCAnswers
    MaxShared = 3
    MaxRuns = 2
INVARIANTS
    EarlierKept
    WrittenVerifies
