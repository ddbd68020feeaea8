\* one thread, two sockets, TLS over a BIO
CONSTANTS
    Threads = {1}
    Ptrs = {p1, p2}
    Ssls = {s1}
    Lives = 2
    Nesting = 1
    Filters = {FALSE}
    None = None
    p1 = p1
    p2 = p2
    s1 = s1
    s2 = s2
SPECIFICATION Spec
INVARIANT UnknownLeftPartial
SYMMETRY Interchangeable
CHECK_DEADLOCK FALSE
