SPECIFICATION Spec
CONSTANTS
    LeaseSeconds = 2
    Unit = 1
    Sites = {1, 2, 3}
    Ids = {1, 2, 3, 4, 5, 6}
    Tokens = {1}
    NoToken = NoToken
    Manual = FALSE
    Refused = {3}
    Deletable = {1, 2, 3}
    Rivals = {}
    Alive = {1, 2}
    CreateRetries = FALSE
    ForeignRecords = FALSE
    MaxClock = 1
    MaxFaults = 1
    MaxEdits = 0
    Skew <- NoSkew
INVARIANTS
    NoOrphans
CHECK_DEADLOCK FALSE
