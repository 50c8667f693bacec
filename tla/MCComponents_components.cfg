CONSTANTS
    urlA = urlA
    urlB = urlB
    StepBudgets = {2}
    Topics = {x}
    WorldKeys = {k}
    MaxGoals = 1
    MaxTasks = 2
    MaxDeltas = 1
    MaxMemory = 2
    MaxRevision = 1
    Messages = {m1, m2}
    PlanLengths = {2}
    MaxNewTokens = 2
    MAX_TURNS = 2
    MaxChatTasks = 2
    MaxApprovals = 3
    Urls = {urlA, urlB}
    Origin <- MCOrigin
    MaxBrowserCalls = 2
    MaxNavigations = 1
    Hosts = {h1, h2}
    Credentials = {k}
    ResultUrls = {1, 2, 3}
    Pages <- MCPages
    Limits = {2}
    MAX_REDIRECTS = 2
    MaxJobs = 1
    Paths = {"p"}
    Contents = {"x", "y"}
    FilePlans <- MCFilePlans
    MaxFileTasks = 2
    MaxFileDeaths = 1
    Payloads = {p1, p2}
    PairedPeers = {"x", "y"}
    MAX_ACTIONS = 2
    MAX_SEQUENCE = 5
    Requests <- MCRequests
    Reads = {"read"}
    NotInstalled = {"missing"}
    OtherVersion = {"newer"}
    Chunks = 2
    MaxSessions = 1
    MaxFrames = 6
    None = None
    Aliases = {"d", "e"}
    MaxSeeds = 2
    AssetIds = {"m"}
    Bodies = {"b"}
    MaxVersion = 2
    Capsules = {"c", "d"}
    MaxBackups = 2
    TensorOps = {"MatMul"}
    TensorInputs = {1, 2}
    PhoneModels <- MCDevices
    Policies <- MCPolicies
    Snapshots <- MCSnapshots
    Accelerators <- MCAccelerators
    Latencies = {5}
    TensorSizes = {0, 1, 4, 5}
    U64_MAX = 9
    NANOS_PER_MS = 2
    MaxProviders = 2
    VocabSize = 2
    Prompts <- MCPrompts
    ContextLimits = {0, 2}
    NewTokenLimits = {0, 3}
    EosTokens = {{}, {1}}
    TopKs = {0, 1}
    Outputs <- MCOutputs
    Layers = {1, 2}
    RowCounts = {1, 2}
    Widths = {1, 2}
    KeepLimits = {0, 1}
    MaxGenerations = 1
    MaxAppends = 2
SPECIFICATION MCSpec
INVARIANTS
    ResultForItsRequest
    AtMostOncePerSession
    CleanSessionInStep
    CognitionRestorable
    GoalReflectsTask
    Checkpointable
    TurnsMatchTasks
    AnswerIsGrounded
    EvidenceOrigin
    CredentialStaysHome
    ResultsExact
    UploadIdempotent
    UndoneLeavesNoTrace
    ApprovedPlanRuns
    WritesWereShown
    SurfacesMatchMemory
    PairedUntilRevoked
    ReceiptFindsItsPackage
    OpenModelServesSigned
    ComputeIsSound
    GenerationIsSound
PROPERTIES
    FinishedTaskStays
    ImplementsDialogue
    BrowserFreed
    DurableMovesForward
    RestoresAllOrNothing
CHECK_DEADLOCK FALSE
