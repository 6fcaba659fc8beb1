SPECIFICATION Spec
CONSTANTS
    signer = signer  tsa = tsa  tsb = tsb  stray = stray  root = root
    u = u  v = v  w = w
    s1 = s1  s2 = s2  k1 = k1  k2 = k2  k3 = k3
    dossier = dossier
    Container = dossier
    Horizon = 4
    EmbedIn = s2
    Timestamped = TRUE
    Certs <- MCCerts
    SelfSigned <- MCSelfSigned
    HasIssuer <- MCHasIssuer
    Order <- MCOrder
    Urls <- MCUrls
    OcspUrls <- MCOcspUrls
    CrlUrls <- MCCrlUrls
    CertId <- MCCertId
    Replies <- MCReplies
    Times <- MCTimes
    Store <- MCStore
    Sigs <- MCSigs
    Embedded <- MCEmbedded
    SigPath <- MCSigPath
    Stamps <- MCStamps
    StampOf <- MCStampOf
    GenTime <- MCGenTime
    TsaPath <- MCTsaPath
    Requested = FALSE
    MaxRounds = 3
    MaxCertificates = 3
    MaxUrls = 2
INVARIANTS
    TrafficBounded
    NothingIsAskedTwice
    GatedByAValidatedPath
    UnansweredIsAccounted
PROPERTIES
    FillsGaps
    Terminates
