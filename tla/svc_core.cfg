SPECIFICATION FairSpec
CONSTANTS
    Execution = {e1}
    Task = {t1, t2, t3}
    Request = {r1}
    NoTask = NoTask
    Entries = {"enqueue", "run", "start"}
    MayRestart = TRUE
    MayOverlap = FALSE
INVARIANTS
    TypeOK
    LiveRowDriven
    WaitingIsDurable
PROPERTIES
    
    ResumedRunHearsCancel
    QueuedIsSettled
CHECK_DEADLOCK FALSE
