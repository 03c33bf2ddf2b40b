CONSTANTS
    r1 = r1
    r2 = r2
    Requests = {r1, r2}
    Abortable = {r1}
    Malformed = {r2}
    Work <- OneTwo
    Calls = {"sleep", "wake_up"}
    MaxNumRunningReqs = 1
    BatchQueueSize = 2
    ShutdownTimeout = 0
    MaxSignals = 1
SPECIFICATION Spec
INVARIANTS
    NoRequestVanishes
    AbortsDoNotLeak
    ResetsAreSafe
    PausedIsIdle
    ExitLeavesNothing
PROPERTIES
    ShutdownCompletes
    CallsAreAnswered
CHECK_DEADLOCK FALSE
