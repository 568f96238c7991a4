CONSTANTS
    CloseOnError = TRUE
    MaxUp = 3
    MaxDown = 2
SPECIFICATION FairSpec
INVARIANTS TypeOK TargetStream RespondedFirst TargetNeedsAddress KeptUntilAddress
PROPERTIES ClosedIsQuiet Drained
CHECK_DEADLOCK FALSE
