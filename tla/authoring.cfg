SPECIFICATION Spec
CONSTANTS
    MaxInputBytes = 67108864
    MaxDocuments = 256
    MaxBase64Chars = 100663296
    MaxDecodedBytes = 67108864
    MaxZipMembers = 16
    MaxExpandedBytes = 67108864
    MaxRatio = 100
    MaxTotalBytes = 268435456
    MaxRecipientCertBytes = 1048576
    Namespaces <- MCNamespaces
    Ciphers <- CipherTable
    Disk <- MCDisk
    Output = "out"
    Changes <- MCChanges
    MaxChanges = 1
    Requests <- MCRequests
    Materials <- MCMaterials
    Registered <- MCRegistered
    ZipOverhead = 130
    CmsOverhead = 120
    InfoBytes = 400
    FrameBytes = 600
    DocumentBytes = 700
    ESzignoNamespace = "es"
CHECK_DEADLOCK FALSE
INVARIANTS
    ComesBackAsGiven
    WithinBounds
