SPECIFICATION FairSpec
CONSTANTS
    Handler = {h1, h2, h3}
    Client = {c1, c2}
    NoClient = NoClient
    MaxLists = 1
    InOrder = TRUE
INVARIANT AnswersKeepStep
PROPERTY EveryHandlerEnds
CHECK_DEADLOCK FALSE
