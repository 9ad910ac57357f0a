SPECIFICATION FairSpec
CONSTANTS
    Task = {t1}
    Durable = {t1}
    Run = {r1, r2}
    NoTask = NoTask
    NoRun = NoRun
    Request = {q1, q2}
    SlowCommit = FALSE
    EarlyTraffic = FALSE
    MayRestart = TRUE
INVARIANTS
    TypeOK
    RunningIsAttended
PROPERTIES
    KillStopsRun
    
    RunningEnds
CHECK_DEADLOCK FALSE
