CONSTANTS
    CloseOnError = TRUE
    Obfs = TRUE
    HashParam = FALSE
    MaxUp = 3
    MaxDown = 2
SPECIFICATION FairSpec
INVARIANTS TypeOK WireInv HeldUntilAnswered FirstIsAddress LocalStream InboundReady
PROPERTIES ClosedIsQuiet Drained
CHECK_DEADLOCK FALSE
