CONSTANTS
    HashParam = FALSE
    CleanSegments = FALSE
    Faults = FALSE
    Openings = {"Socks5", "HttpConnect", "HttpRequest"}
    MaxUp = 2
    MaxDown = 2
SPECIFICATION Spec
PROPERTIES DownIsFifo
CHECK_DEADLOCK FALSE
