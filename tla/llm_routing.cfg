SPECIFICATION FairSpec
CONSTANTS
    p1 = p1
    p2 = p2
    Provider <- MCProvider
    Chain <- MCChain
    Call = {c1, c2}
    FailureThreshold = 2
    SuccessThreshold = 2
    MinRequests = 3
    ErrorRate = 60
    Attempts = 2
    MaxReloads = 1
INVARIANTS
    TypeOK
    ClosedBelowThreshold
PROPERTIES
    OpenIsNotAsked
    StreamHasOneSource
    EveryCallEnds
CHECK_DEADLOCK FALSE
