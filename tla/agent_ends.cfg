SPECIFICATION FairSpec
CONSTANTS
    Turn = {t1, t2}
    Tool = {"ask_user", "gated", "safe"}
    AskUser = "ask_user"
    Gated = {"gated"}
    Safe = {"safe"}
    Batches <- GatedBatches
    MaxCalls = 2
    MaxTurns = 2
    MaxRecoveries = 1
    MaxTroubles = 1
    MaxSteers = 0
    Reviewer = "user"
    MayOverlap = TRUE
    NoTurn = NoTurn
CHECK_DEADLOCK FALSE
PROPERTY TurnEnds
