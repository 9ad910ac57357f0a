SPECIFICATION FairSpec
CONSTANTS
    Node <- MCNode
    NoNode = NoNode
    Unrouted = Unrouted
    Docs <- MCDocs
    MaxParallelism = 2
    MaxIterations = 1
    CacheMode = "classic"
    MaxRuns = 1
    MaxResumes = 1
INVARIANTS
    TypeOK
    NeverAwaitsRelease
    ForwardDepsFinished
    ForwardOutputsFinished
PROPERTIES
    NothingStagedAfterCancel
    
    ForwardRunsOnce
    
    DeadlineEndsRun
    EveryRunEnds
