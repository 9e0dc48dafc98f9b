SPECIFICATION TunnelSpec

CONSTANTS
    e1 = e1
    e2 = e2
    Exposures = {e1}
    Routes = {"r"}
    HostOf <- SharedHost
    Origins = {"a", "b"}
    NoOrigin = "none"
    TunnelIds = {1, 2}
    Legacy = TRUE
    Crashes = TRUE
    Drift = TRUE
    Loss = TRUE
    MaxFaults = 2

INVARIANTS
    ReadyRunsTracked
    StoppedBeforeDeleted

PROPERTIES
    KeepsLife

CHECK_DEADLOCK FALSE
