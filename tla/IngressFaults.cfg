SPECIFICATION FairSpec

CONSTANTS
    e1 = e1
    e2 = e2
    Exposures = {e1}
    Routes = {}
    HostOf <- OneHost
    Origins = {"a"}
    TunnelIds = {1}
    Legacy = FALSE
    Drift = FALSE
    Loss = FALSE
    MaxFaults = 1
    RecordIds = {1, 2}
    Manage = {TRUE}
    Access = {TRUE, FALSE}
    MaxEdits = 1
    AnyOrder = FALSE
    Crashes = TRUE
    DnsDrift = TRUE
    NoOrigin = "none"
    Foreign = "foreign"

PROPERTIES
    AccessBeforeDns
    ForeignKept
    TunnelSpec
    SurfaceConverges
    TeardownCompletes

CHECK_DEADLOCK FALSE
