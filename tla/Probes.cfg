\* one thread, one socket address used by two sockets, TLS inside TLS
CONSTANTS
    Threads = {1}
    Ptrs = {p1}
    Ssls = {s1, s2}
    Lives = 2
    Nesting = 2
    Filters = {TRUE, FALSE}
    None = None
    p1 = p1
    p2 = p2
    s1 = s1
    s2 = s2
SPECIFICATION Spec
INVARIANTS
    EventsAreOwn
    ConnIdTrue
    PlaintextIsOwn
SYMMETRY Interchangeable
CHECK_DEADLOCK FALSE
