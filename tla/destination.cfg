CONSTANTS
    c1 = c1
    c2 = c2
    ip1 = ip1
    ip2 = ip2
    ip6 = ip6
    Connections = {c1, c2}
    Base = 10
    Encoding <- MCEncoding
    Answers <- MCAnswers
    Ipv6 = {ip6}
    Overhead = 0
    Least = 5
    Requests <- MCRequests
SPECIFICATION FairSpec
INVARIANTS TypeOK ConnectedToAsked
PROPERTIES CacheSettles Settled
CHECK_DEADLOCK FALSE
