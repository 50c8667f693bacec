CONSTANTS
    read = read
    file = file
    post = post
    Capabilities <- MCCapabilities
    SideEffect <- MCSideEffect
    VerificationRequired <- MCVerificationRequired
    RollbackSupported <- MCRollbackSupported
    Resumable <- MCResumable
    RequiredScopes <- MCRequiredScopes
    Grants <- MCGrants
    Graphs <- OneFile
    MaxId = 2
    MaxAttempts = 2
    NoCheckpoint = NoCheckpoint
SPECIFICATION Spec
INVARIANTS
    AllKnownEffectsRolledBack
