CONSTANTS
    HashParam = FALSE
    CleanSegments = FALSE
    Faults = TRUE
    Openings = {"HttpConnect", "HttpRequest"}
    MaxUp = 3
    MaxDown = 2
SPECIFICATION Spec
INVARIANTS InStep
PROPERTIES UpIsFifo DownUntilMisread
CHECK_DEADLOCK FALSE
