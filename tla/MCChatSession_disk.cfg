CONSTANTS
    w1 = w1
    w2 = w2
    Workers <- MCWorkers
    First = w1
    Kinds = {"local", "external"}
    MaxTasks = 1
    MaxTokens = 1
    MaxRecreations = 0
    MaxDeaths = 2
    DiskMayFail = TRUE
    None = None
SPECIFICATION Spec
INVARIANTS
    NoAutomaticReplay
CHECK_DEADLOCK FALSE
