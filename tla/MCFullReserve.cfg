CONSTANTS
    r1 = r1
    r2 = r2
    r3 = r3
    Request <- Two
    PromptTokens <- MixedPrompts
    MaxTokens <- TwoTokens
    CachedTokens <- NoCache
    Grammar = {}
    MayStopEarly = {}
    Abortable = {}
    NumBlocks = 6
    BlockSize = 2
    WatermarkBlocks = 0
    MaxNumScheduledTokens = 3
    MaxNumRunningReqs = 1
    LongPrefillTokenThreshold = 0
    ReserveFullIsl = TRUE
    PolicyMode = "deadline"
    CacheAware = FALSE
    ReserveTokens = 3
    MaxRequestsPerStep = 1
    MaxPrefillTokens = 3
    SlotSwapEnabled = FALSE
    MaxPreemptionsPerRequest = 1
    BatchQueueSize = 1
    AsyncScheduling = FALSE
    DeferBlockFree = FALSE
SPECIFICATION FairSpec
PROPERTIES
    EveryRequestFinishes
\* Every request may be finished, and then the engine waits for the next one.
CHECK_DEADLOCK FALSE
