SPECIFICATION Spec
CONSTANTS
    leaf = leaf  sub = sub  cross = cross  bridge = bridge  narrow = narrow  decoy = decoy  forged = forged
    root = root  old = old
    leafName = leafName  caName = caName  rootName = rootName  oldName = oldName
    caKey = caKey  rootKey = rootKey  otherKey = otherKey
    Certs <- MCCerts
    Subject <- MCSubject
    Issuer <- MCIssuer
    Key <- MCKey
    SignedWith <- MCSignedWith
    NotBefore <- MCNotBefore
    NotAfter <- MCNotAfter
    Unimplemented = {}
    EndUses <- MCEndUses
    CaUses <- MCCaUses
    Authorities <- MCAuthorities
    CertSigning <- MCCerts
    Signing <- MCCerts
    PathLen <- MCPathLen
    Excludes <- MCExcludes
    Requests <- MCRequests
    EidasDate = 2
    MaxCertificates = 4
    MaxChain = 4
    MaxPaths = 4
    MaxExpansions = 9
INVARIANTS
    SearchIsComplete
    TrustBoundary
    AnswerIsTheVerdict
    NearestIsPreferred
