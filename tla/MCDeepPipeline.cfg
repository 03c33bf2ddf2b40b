CONSTANTS
    r1 = r1
    r2 = r2
    r3 = r3
    Request <- Three
    PromptTokens <- MixedPrompts
    MaxTokens <- TwoTokens
    CachedTokens <- NoCache
    Grammar = {}
    MayStopEarly = {}
    Abortable = {}
    NumBlocks = 3
    BlockSize = 2
    WatermarkBlocks = 0
    MaxNumScheduledTokens = 4
    MaxNumRunningReqs = 2
    LongPrefillTokenThreshold = 0
    ReserveFullIsl = FALSE
    PolicyMode = "batch-budget"
    CacheAware = FALSE
    ReserveTokens = 0
    MaxRequestsPerStep = 2
    MaxPrefillTokens = 3
    SlotSwapEnabled = FALSE
    MaxPreemptionsPerRequest = 1
    BatchQueueSize = 3
    AsyncScheduling = FALSE
    DeferBlockFree = FALSE
SPECIFICATION Spec
INVARIANTS
    QueuesMatchStatus
\* Every request may be finished, and then the engine waits for the next one.
CHECK_DEADLOCK FALSE
