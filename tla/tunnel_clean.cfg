CONSTANTS
    HashParam = FALSE
    CleanSegments = TRUE
    Faults = FALSE
    Openings = {"Socks5", "HttpConnect", "HttpRequest"}
    MaxUp = 4
    MaxDown = 3
SPECIFICATION FairSpec
PROPERTIES UpArrives DownArrives
CHECK_DEADLOCK FALSE
