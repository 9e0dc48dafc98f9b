SPECIFICATION FairSpec
CONSTANTS
    LeaseSeconds = 1
    Unit = 1
    Sites = {1, 2}
    Ids = {1, 2, 3, 4, 5, 6}
    Tokens = {1}
    NoToken = NoToken
    Manual = FALSE
    Refused = {}
    Deletable = {}
    Rivals = {2}
    Alive = {2}
    CreateRetries = TRUE
    ForeignRecords = TRUE
    MaxClock = 2
    MaxFaults = 1
    MaxEdits = 0
    Skew <- Skewed
PROPERTIES
    FailsClosed
    TakesOver
