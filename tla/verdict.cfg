SPECIFICATION Spec
CHECK_DEADLOCK FALSE
CONSTANTS
    Root = Root  Nowhere = Nowhere  External = External  Unreadable = Unreadable  Nobody = Nobody
    Node <- MCNode
    EsDossier <- MCEsDossier
    EsDossierProfile <- MCEsDossierProfile
    EsDocuments <- MCEsDocuments
    EsDocument <- MCEsDocument
    EsDocumentProfile <- MCEsDocumentProfile
    EsSignatureProfile <- MCEsSignatureProfile
    DsObject <- MCDsObject
    DsSignature <- MCDsSignature
    DsSignatureValue <- MCDsSignatureValue
    QualifyingProperties <- MCQualifyingProperties
    SignedProperties <- MCSignedProperties
    UnsignedProperties <- MCUnsignedProperties
    CounterSignature <- MCCounterSignature
    ObjRef <- MCObjRef
    Cert <- MCCert
    Key <- MCKey
    Authorities = {"ca"}
    Names <- MCNames
    Claimed <- MCClaimed
    Declares <- MCDeclares
    Authority <- MCAuthority
    AuthorityPath <- MCAuthorityPath
    AuthorityRevoked <- MCAuthorityRevoked
    PathOutcome <- MCPathOutcome
    RevocationOutcome <- MCRevocationOutcome
    Now = 4
    AtFlags <- MCAtFlags
    AllowLegacy = TRUE
    TrustChecks <- MCTrustChecks
    MaxSignatures = 2
    MaxTimestamps = 2
    Empty <- MCEmpty
    Plans <- MCPlans
    Stamps <- MCStamps
    Touchable <- MCTouchable
    Moves <- MCMoves
    Droppable <- MCDroppable
    Insertions <- MCInsertions
    Redigestable <- MCRedigestable
    KeyInfos <- MCKeyInfos
    Grafts <- MCGrafts
    MaxStamps = 2
    MaxEdits = 1
INVARIANTS
    ValidMeansSigned
    SignerAndTimeAreProven
    OpenContentDecidesNothing
