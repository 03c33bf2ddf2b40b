\* One stream of requests; three observations tell all the thresholds apart.
CONSTANTS
    Request = {r1}
    Window = 1
    ControlInterval = 1
    Cooldown = 2
    MinSamples = 2
    MaxSamples = 3
    MaxLevelStep = 1
    TtftBadHigh = 50
    TbtBadHigh = 50
    TbtEmergency = 80
    BaseReserve = 20
    MinReserve = 0
    MaxReserve = 48
    SlotSwapEnabled = TRUE
SPECIFICATION FairSpec
PROPERTIES
    FailSafeHolds
    ObservationsAreCurrent
    SwapOffWhenDecodesSuffer
    LevelRecovers
