SPECIFICATION Spec
CONSTANTS
    leaf = leaf  ca = ca  root = root  delegate = delegate  clerk = clerk
    lister = lister  central = central  reissued = reissued
    centralKey = centralKey  nobody = nobody
    Certs <- MCCerts
    Name <- MCName
    IssuerName <- MCIssuer
    Key <- MCKey
    SignedWith <- MCIssuer
    OcspSigning <- MCOcspSigning
    CrlSigning <- MCCrlSigning
    Valid <- MCValid
    Anchored <- MCAnchored
    Candidates <- MCCandidates
    None = None
    Artefacts <- MCArtefacts
    Evidence <- MCEvidence
    Paths <- MCPaths
    Times <- MCTimes
    MaxItems = 2
    MaxOffered = 2
INVARIANTS
    AnswerIsTheWeightiest
    NothingPassesUnanswered
    ReportIsFaithful
