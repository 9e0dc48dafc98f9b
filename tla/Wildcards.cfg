SPECIFICATION FairSpec

CONSTANTS
    Exposures = {1, 3, 4}
    Labels = {"a", "b", "c", "d", "x"}
    Host <- HostOf
    Alpha <- AlphaOf
    Requests <- Asked
    Protected = {1, 4}
    Deletable = {1}
    MaxEdits = 1

INVARIANTS
    MostSpecificWins
    OneAccessPerRequest

PROPERTIES
    DocumentSettles
    ReadyUnlessContested

CHECK_DEADLOCK FALSE
