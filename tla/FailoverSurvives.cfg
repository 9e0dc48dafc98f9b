SPECIFICATION FairSpec
CONSTANTS
    LeaseSeconds = 1
    Unit = 1
    Sites = {1, 2}
    Ids = {1, 2, 3, 4, 5, 6}
    Tokens = {1}
    NoToken = NoToken
    Manual = FALSE
    Refused = {}
    Deletable = {1}
    Rivals = {}
    Alive = {1, 2}
    CreateRetries = TRUE
    ForeignRecords = FALSE
    MaxClock = 1
    MaxFaults = 1
    MaxEdits = 0
    Skew <- NoSkew
INVARIANTS
    OneLeasePerSite
    GoneHoldsNoLease
PROPERTIES
    Converges
    DeletionCompletes
    ServingStays
