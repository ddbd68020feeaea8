\* both loops: rings of two events, batches of two, chunks of one or two lines
CONSTANTS
    Conns = {1}
    Modes = {"run", "selftest"}
    MaxSamples = 1
    RingCap = 2
    DRAIN_BATCH = 2
    RECORD_CHUNK = 3
    OUTPUT_QUEUE = 1
    WriteErrors = {"pipe"}
    NameOnly = TRUE
SPECIFICATION Spec
INVARIANTS
    ServedNotAborted
    NothingLeftBehind
    WakeupKept
PROPERTIES
    StreamSpec
    ArmsServed
CHECK_DEADLOCK FALSE
