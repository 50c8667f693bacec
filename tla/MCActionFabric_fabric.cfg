CONSTANTS
    read = read
    file = file
    post = post
    Capabilities <- MCCapabilities
    SideEffect <- MCSideEffect
    VerificationRequired <- MCVerificationRequired
    RollbackSupported <- MCRollbackSupported
    Resumable <- MCResumable
    RequiredScopes <- MCRequiredScopes
    Grants <- MCGrants
    Graphs <- AllGraphs
    MaxId = 3
    MaxAttempts = 2
    NoCheckpoint = NoCheckpoint
SPECIFICATION Spec
INVARIANTS
    TypeOK
    JournalRestorable
    RolledBackIsUndone
    CompletedHasEvidence
PROPERTIES
    UndoInReverse
    FinishedStaysFinished
