\* two callers, sockets recycled, a ring that overflows, maps of one entry
CONSTANTS
    Callers = {"p", "q"}
    Hosts = {"a", "b"}
    Ips = {"ip1", "ip2"}
    Resolves <- OwnAddresses
    Cookies = {1, 2}
    TxnIds = {1}
    DNS_MAP_CAP = 1
    RingCap = 1
    MaxTs = 6
    None = None
SPECIFICATION Spec
INVARIANTS
    LabelsAreTrue
PROPERTIES
    HitIffNotAsked
CHECK_DEADLOCK FALSE
