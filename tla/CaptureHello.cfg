\* no request is captured; TLS hellos share the overflowing critical ring
CONSTANTS
    Cookies = {1}
    Tgids = {1}
    Fds = {3}
    Snis = {"s3"}
    Versions = {"tls13", None}
    MaxOpen = 4
    MaxTs = 11
    MaxOps = 0
    MaxBody = 0
    None = None
    Threads = {1}
    MaxConns = 2
    Observed = {TRUE}
    EventsCap = 3
    TlsCap = 8
SPECIFICATION CaptureSpec
INVARIANTS
    TlsFactsNotInherited
PROPERTIES
    ClosedIsForgotten
CHECK_DEADLOCK FALSE
