\* fds are observed; two processes; every map holds one entry.
CONSTANTS
    Cookies = {1, 2}
    Tgids = {1, 2}
    Fds = {3}
    Snis = {}
    Versions = {}
    MaxOpen = 1
    MaxTs = 1
    MaxOps = 2
    MaxBody = 2
    None = None
SPECIFICATION Spec
INVARIANTS
    LinksInverse
    Bounded
    OpConserved
PROPERTIES
    HeadIsFinal
    FreshOpSurvives
    LedgerSpec
CHECK_DEADLOCK FALSE
