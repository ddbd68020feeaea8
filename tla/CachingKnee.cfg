SPECIFICATION Spec
CONSTANTS
    None = None
    MAX_PLAUSIBLE_RTT = 100000
    MIN_DIRECTIONAL_BYTES = 8
    MIN_TS_INTERVALS = 2
    AGG_BUCKET = 2
    AGG_MIN_COVER = 1
    AGG_MAX_SPAN = 8
    MIN_TAIL_SAMPLE = 2
    MIN_P99_SAMPLE = 3
    MIN_REUSE_SAMPLE = 2
    MIN_JUDGE_SAMPLE = 2
    MIN_RATE_SEGMENTS = 2
    TCP_MSS_BYTES = 4
    SC_MIN_TAIL = 2
    SC_MIN_P99 = 3
    MIN_OPS = 2
    MIN_ERRORS = 1
    ADV_MIN_OPS = 3
    WASTED_FLOOR = 40
    AGG_MIN_PIDS = 2
    AGG_MIN_FRESH = 2
    BUSY_FLOOR = 2
    RUN_REPEAT_FLOOR = 2
    WASTED_BYTES_FLOOR = 16
    REDUNDANT_COUNT_FLOOR = 3
    PAIR_WINDOW = 1
    MIN_PAIRS = 1
    MIN_TINY_GETS = 3
    TINY_MEDIAN_CEIL = 8
    OVERHEAD_FLOOR = 800
    MIN_503S = 1
    RECOVERY_WINDOW = 1
    MIN_CONNS = 2
    RTT_REPORT_FLOOR = 30
    NameOrder <- MCNameOrder
    Hides <- MCHides
    SAMPLED_OPS = 9
    MIN_GETS = 3
    NOGO_MIN_GETS = 4
    GO_FLOOR = 30
    STRUCTURE_FLOOR = 30
    RANGED_FRAC_MAX = 25
    SIZE_COVERAGE_FLOOR = 80
    KNEE_EPS_FRAC = 5
    BYTE_FLOOR = 16
    MIN_RUNGS = 5
    MIN_BYTE_RUNGS = 3
    ANCHOR_CAP = 4
    MAX_CAP = 8
    DOUBLINGS = 5
    K_DIVISOR = 2
    K_MAX = 2
    MAX_CONTEXTS = 8
    MAX_SUCCESSORS = 4
    Inputs <- MCInputs
    BATCH = 2
    MAX_EVENTS = 1
INVARIANT
    NoKneeWithoutReuse
CHECK_DEADLOCK FALSE
