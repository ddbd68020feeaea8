\* fds and pointers are recycled, fds are observed or not, the critical ring overflows
CONSTANTS
    Cookies = {1, 2}
    Tgids = {1, 2}
    Fds = {0, 3, 4}
    Snis = {}
    Versions = {}
    MaxOpen = 4
    MaxTs = 7
    MaxOps = 3
    MaxBody = 1
    None = None
    Threads = {1}
    MaxConns = 2
    Observed = {TRUE, FALSE}
    EventsCap = 2
    TlsCap = 8
SPECIFICATION CaptureSpec
INVARIANTS
    AmbiguityIsMutual
    JoinsOneLife
PROPERTIES
    ResponsesStayHome
    CloseSparesLive
CHECK_DEADLOCK FALSE
CONSTRAINTS
    FirstNames
    CookieMatters
