\* Four blocks, one of them below the watermark, and two slots: swaps under KV
\* pressure, with and without blocks for the candidate.
CONSTANTS
    r1 = r1
    r2 = r2
    r3 = r3
    Request <- Three
    PromptTokens <- MixedPrompts
    MaxTokens <- ThreeTokens
    CachedTokens <- CachedFirst
    Grammar = {r3}
    MayStopEarly = {}
    Abortable = {r2}
    NumBlocks = 4
    BlockSize = 2
    WatermarkBlocks = 1
    MaxNumScheduledTokens = 4
    MaxNumRunningReqs = 2
    LongPrefillTokenThreshold = 0
    ReserveFullIsl = TRUE
    PolicyMode = "legacy"
    CacheAware = TRUE
    ReserveTokens = 2
    MaxRequestsPerStep = 1
    MaxPrefillTokens = 3
    SlotSwapEnabled = TRUE
    MaxPreemptionsPerRequest = 2
    BatchQueueSize = 1
    AsyncScheduling = FALSE
    DeferBlockFree = FALSE
SPECIFICATION Spec
INVARIANTS
    SwapServesCandidate
    BudgetConserved
    QueuesMatchStatus
\* Every request may be finished, and then the engine waits for the next one.
CHECK_DEADLOCK FALSE
