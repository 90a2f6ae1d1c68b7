SPECIFICATION FairSpec
CONSTANTS
    HasSecret = TRUE
    Timeout = 1
    LinkCap = 2
    MaxConns = 2
    MaxRequests = 3
INVARIANTS TypeOK OwnAnswer SessionAgrees
PROPERTY DeadlineHonoured
