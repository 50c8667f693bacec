CONSTANTS
    Requests <- OneWrite
    Reads = {"read"}
    NotInstalled = {"missing"}
    OtherVersion = {"newer"}
    Chunks = 1
    MaxSessions = 2
    MaxFrames = 3
    None = None
SPECIFICATION Spec
INVARIANTS
    NotReplayed
CHECK_DEADLOCK FALSE
