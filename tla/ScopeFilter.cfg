\* --pid 1 --app: pids are reused, the map and the ring are small
CONSTANTS
    Pids = {1, 2, 3}
    SpecPids = {1}
    NameScope = TRUE
    Boxes = {TRUE, FALSE}
    MapCap = 2
    RingCap = 1
    RESCAN_EVERY = 2
    MaxChurn = 3
    None = None
SPECIFICATION Spec
PROPERTIES
    MatchingIsSeated
    DeadIsUnseated
    ExecAwayRevokes
