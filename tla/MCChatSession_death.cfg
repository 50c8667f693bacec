CONSTANTS
    w1 = w1
    w2 = w2
    Workers <- MCWorkers
    First = w1
    Kinds = {"direct", "local", "external"}
    MaxTasks = 2
    MaxTokens = 2
    MaxRecreations = 0
    MaxDeaths = 1
    DiskMayFail = FALSE
    None = None
SPECIFICATION Spec
INVARIANTS
    SessionMatchesTurn
    SessionIsServed
    StopIsNotLost
