\* the disk behind stdout may be full
CONSTANTS
    Conns = {1}
    Modes = {"run"}
    MaxSamples = 1
    RingCap = 2
    DRAIN_BATCH = 2
    RECORD_CHUNK = 3
    OUTPUT_QUEUE = 1
    WriteErrors = {"pipe", "full"}
    NameOnly = TRUE
SPECIFICATION Spec
INVARIANT WriteErrorReported
CHECK_DEADLOCK FALSE
