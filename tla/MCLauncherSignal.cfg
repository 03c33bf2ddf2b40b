\* The launcher is signalled inside a poll() or a wait() of a server.
CONSTANTS
    NumServers = 2
    WarmupEnabled = TRUE
    MaxSignals = 1
SPECIFICATION DeploySpec
PROPERTIES
    SignalStops
\* The launcher ends.
CHECK_DEADLOCK FALSE
