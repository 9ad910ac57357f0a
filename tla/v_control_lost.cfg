SPECIFICATION Spec
CONSTANTS
    Execution = {e1}
    Task = {t1}
    Request = {r1}
    NoTask = NoTask
    Entries = {"enqueue"}
    MayRestart = FALSE
    MayOverlap = TRUE
PROPERTIES
    ControlSticks
CHECK_DEADLOCK FALSE
