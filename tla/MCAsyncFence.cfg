CONSTANTS
    r1 = r1
    r2 = r2
    r3 = r3
    Request <- Three
    PromptTokens <- ShortPrompts
    MaxTokens <- ThreeTokens
    CachedTokens <- NoCache
    Grammar = {}
    MayStopEarly = {r1}
    Abortable = {r1, r2}
    NumBlocks = 4
    BlockSize = 1
    WatermarkBlocks = 1
    MaxNumScheduledTokens = 3
    MaxNumRunningReqs = 2
    LongPrefillTokenThreshold = 0
    ReserveFullIsl = FALSE
    PolicyMode = "off"
    CacheAware = FALSE
    ReserveTokens = 0
    MaxRequestsPerStep = 1
    MaxPrefillTokens = 3
    SlotSwapEnabled = FALSE
    MaxPreemptionsPerRequest = 1
    BatchQueueSize = 2
    AsyncScheduling = TRUE
    DeferBlockFree = TRUE
SPECIFICATION FairSpec
INVARIANTS
    QueuesMatchStatus
    BlocksPartition
    InflightBlocksHeld
    CountsMatch
PROPERTIES
    ImplementsService
    EveryRequestFinishes
\* Every request may be finished, and then the engine waits for the next one.
CHECK_DEADLOCK FALSE
