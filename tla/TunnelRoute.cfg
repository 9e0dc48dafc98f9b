SPECIFICATION FairSpec

CONSTANTS
    r1 = r1
    r2 = r2
    Routes = {r1}
    TunnelIds = {1}
    Crashes = TRUE
    Drift = TRUE
    MaxFaults = 1
    Specs <- SomeSpecs
    Canonical <- Networks
    Invalid = "invalid"
    Unset = "unset"
    DefaultVnet = "default"
    Foreign = "foreign"
    Strangers <- Stranger
    RouteIds = {1, 2, 3, 4}
    MaxEdits = 1

INVARIANTS
    OneRouteInAPlace
    TunnelOutlivesRoutes

PROPERTIES
    RoutesAreOwned
    OthersKept
    RoutesConverge
    RouteDeletionCompletes

CHECK_DEADLOCK FALSE
