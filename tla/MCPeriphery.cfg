CONSTANTS
    Rate = 3
    Burst = 2
    IdleDecodes = 0
    FillRun = 2
    FillRate = 1
    MaxRun = 2
    MaxWire = 2
    MaxTime = 8
    Proc = {"api", "engine", "child"}
    Api = "api"
    GcFreeze = TRUE
    HealthGate = TRUE
    RustFrontend = FALSE
    Stages <- TwoStages
    StartupTimeout = 2
    GateTimeout = 1
    FreezeTimeout = 3
    MaxBoots = 1
    NumServers = 2
    WarmupEnabled = TRUE
    MaxSignals = 2
    Workers <- ThreeWorkers
    LongWorkers = {"l1"}
    Query = {"a", "b", "c"}
    Estimate <- Lengths
    Actual <- TrueLengths
    Output <- NoOutput
    Prefix <- PrefixOf
    Preference <- Preferences
    Split = 4
    ShortMax = 3
    AmbiguousMax = 6
    Bonus = 2
    OutputWeight = 1
    History = 1
    PrefixLocality = TRUE
    Prompt = {"p0", "p1"}
    NoPrompt = "none"
    Torn = "torn"
    FirstPrompt = "p0"
    Full = 2
    Threshold = 2
    CoverageMin = 1
    MaxIterations = 2
    Interactive = TRUE
SPECIFICATION PeripherySpec
INVARIANTS
    WindowBound
    NoBurstAfterFill
    MarkerTells
    NoServerLeft
    LoadsAreExact
    StopsOnItsOwnImage
PROPERTIES
    GateOpens
    SignalStopsUnlessLocked
    ImplementsSearch
\* The pacing, the launcher and the requests come to an end, and so does the tuning.
CHECK_DEADLOCK FALSE
