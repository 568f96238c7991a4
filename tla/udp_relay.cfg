CONSTANTS
    p1 = p1
    p2 = p2
    t1 = t1
    t2 = t2
    None = None
    Peers = {p1, p2}
    Targets = {t1, t2}
    MaxDatagrams = 3
    MaxReplies = 1
SPECIFICATION FairSpec
INVARIANTS TypeOK ForwardedOnce EndpointsAskedFor
PROPERTIES Drained
CHECK_DEADLOCK FALSE
