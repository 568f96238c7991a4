CONSTANTS
    CloseOnError = FALSE
    Obfs = TRUE
    HashParam = TRUE
    MaxUp = 3
    MaxDown = 2
SPECIFICATION Spec
INVARIANTS WireInv 
CHECK_DEADLOCK FALSE
