SPECIFICATION MCSpec
CONSTANTS
    Certs <- MCCerts
    Subject <- MCSubject
    Issuer <- MCIssuer
    Key <- MCKey
    SignedWith <- MCSignedWith
    EidasDate = 2
    NotBefore <- MCNotBefore
    NotAfter <- MCNotAfter
    Unimplemented = {}
    EndUses <- MCUses
    CaUses <- MCUses
    Authorities <- MCCerts
    CertSigning <- MCCerts
    Signing <- MCCerts
    PathLen <- MCPathLen
    Excludes <- MCExcludes
    Requests <- MCRequests
    MaxCertificates = 4
    MaxChain = 4
    MaxPaths = 4
    MaxExpansions = 9
    Ski <- MCSki
    Statements <- MCStatements
    PostEidas = {"late"}
    OperatorLike = {"tlso", "renewed"}
    Garbage = "garbage"
    Name <- MCName
    Place <- MCPlace
    Entry <- MCEntry
    Commands <- MCCommands
    Trees <- MCTrees
    SignerFiles <- MCSignerFiles
    Lists <- MCLists
    Paths <- MCPaths
    Times <- MCTimes
    MaxFileBytes = 2
    MaxFiles = 2
    MaxStoreBytes = 4
    MaxAnchors = 3
    MaxPointers = 2
    MaxChanges = 1
INVARIANTS
    TrustIsSigned
    StoreIsWhole
    QualifiedIsEarned
    AcceptedRestsOnTrust
CHECK_DEADLOCK FALSE
