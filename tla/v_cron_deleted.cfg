SPECIFICATION Spec
CONSTANTS
    Job = {j1}
    Run = {r1, r2}
    NoJob = NoJob
    MaxRetries = 1
    Slots = 1
    MaxEdits = 2
    MaxLives = 2
PROPERTIES
    DeletedStaysDeleted
CHECK_DEADLOCK FALSE
