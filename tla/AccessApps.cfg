SPECIFICATION FairSpec

CONSTANTS
    Names = {1, 2}
    OtherName = 0
    Domains = {"h", "h*", "p", "x"}
    Canonical <- Coverage
    Invalid = "invalid"
    Bodies = {"b", "c"}
    Specs <- AllSpecs
    Strangers = {{"p"}}
    AppIds = {1, 2, 3, 4, 5, 6, 7}
    MaxEdits = 2
    MaxFaults = 1

INVARIANTS
    NothingLeft

PROPERTIES
    OthersAppsKept
    SettledStays
    AppsConverge

CHECK_DEADLOCK FALSE
