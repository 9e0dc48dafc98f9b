SPECIFICATION FairSpec
CONSTANTS
    LeaseSeconds = 1
    Unit = 1
    Sites = {1, 2}
    Ids = {1, 2, 3, 4, 5, 6}
    Tokens = {1}
    NoToken = NoToken
    Manual = TRUE
    Refused = {}
    Deletable = {}
    Rivals = {}
    Alive = {2}
    CreateRetries = FALSE
    ForeignRecords = FALSE
    MaxClock = 1
    MaxFaults = 1
    MaxEdits = 2
    Skew <- NoSkew
INVARIANTS
    PromotedOnlyByOperator
PROPERTIES
    AwaitingPromotionAlerts
    ForcedPromotionTakes
