SPECIFICATION Spec

CONSTANTS
    e1 = e1
    Exposures = {e1}
    Specs = {"allow", "deny", "other"}
    RulesHash <- DecisionUnhashed
    Unsupported = "unsupported"
    PolicyIds = {1, 2, 3, 4}
    MaxEdits = 2
    MaxFaults = 2

INVARIANTS
    OneOwnPolicy
    ReadyMeansApplied

PROPERTIES
    PolicyIsOwned
    ApplicationsFollow
    UnnamedUnbound
    PolicyDeletionCompletes

CHECK_DEADLOCK FALSE
