CONSTANTS
    w1 = w1
    w2 = w2
    Workers <- MCWorkers
    First = w1
    Kinds = {"external"}
    MaxTasks = 1
    MaxTokens = 1
    MaxRecreations = 0
    MaxDeaths = 0
    DiskMayFail = FALSE
    None = None
SPECIFICATION Spec
INVARIANTS
    DurableBeforeWrite
