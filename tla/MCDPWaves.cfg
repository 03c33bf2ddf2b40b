CONSTANTS
    Rank = {"r0", "r1"}
    First = "r0"
    SyncEvery = 2
    Interval = 2
    Modes = {"keep", "wait", "abort"}
    MaxSent = 2
    MaxAborts = 1
    EarlyAborts = FALSE
SPECIFICATION WavesSpec
INVARIANTS
    CollectivesMatch
    PauseHolds
PROPERTIES
    PauseCompletes
    RequestsFinish
\* Every request may be finished, and then the engines wait for the next one.
CHECK_DEADLOCK FALSE
