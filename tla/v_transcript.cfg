SPECIFICATION Spec
CONSTANTS
    Turn = {t1, t2}
    Tool = {"ask_user", "gated", "safe"}
    AskUser = "ask_user"
    Gated = {"gated"}
    Safe = {"safe"}
    Batches <- MCBatches
    MaxCalls = 2
    MaxTurns = 2
    MaxRecoveries = 1
    MaxTroubles = 2
    MaxSteers = 0
    Reviewer = "auto_review"
    MayOverlap = TRUE
    NoTurn = NoTurn
CHECK_DEADLOCK FALSE
INVARIANT TranscriptKept
