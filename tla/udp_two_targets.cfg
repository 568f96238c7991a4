CONSTANTS
    p1 = p1
    p2 = p2
    t1 = t1
    t2 = t2
    None = None
    Peers = {p1}
    Targets = {t1, t2}
    MaxDatagrams = 2
    MaxReplies = 0
SPECIFICATION Spec
INVARIANTS DestinationKept
CHECK_DEADLOCK FALSE
