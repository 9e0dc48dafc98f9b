SPECIFICATION Spec

CONSTANTS
    e1 = e1
    e2 = e2
    Exposures = {e1, e2}
    Routes = {}
    HostOf <- SharedHost
    Origins = {"a"}
    TunnelIds = {1}
    Legacy = FALSE
    Drift = FALSE
    Loss = FALSE
    MaxFaults = 0
    RecordIds = {1, 2}
    Manage = {TRUE, FALSE}
    Access = {TRUE}
    MaxEdits = 1
    AnyOrder = TRUE
    Crashes = FALSE
    DnsDrift = FALSE
    NoOrigin = "none"
    Foreign = "foreign"

INVARIANTS
    NoLeftovers
    StatusIsRemote

CHECK_DEADLOCK FALSE

SYMMETRY Symmetry
