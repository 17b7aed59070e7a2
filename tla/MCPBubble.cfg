SPECIFICATION Spec
CONSTANTS
    a1 = a1
    a2 = a2
    b1 = b1
    b2 = b2
    wrap = wrap
    ghost = ghost
    Flows = {a1, b1, wrap, ghost}
    NoFlow = NoFlow
    Hash <- MCHash
    HASH_SPACE = 48
    FP_UNIT = 3
    TAG_UNIT = 2
    MAX_BUCKETS = 3
    MAX_ENTRY = 2
    COUNT_MAX = 7
    K = 3
    THRESHOLD_INIT = 1
    MaxPackets = 10
    CLOCK_SPACE = 10
    STALE_PACKETS = 4
    RECLAIM_COUNT_FACTOR = 1
    RECLAIM_PERIOD = 2
    LOSSY_HIGH = 150
    LOSSY_LOW = 150
    LOW_DIV = 1
    MEDIUM_DIV = 2
    KICKOUT_MULTIPLIER = 2
    ADMISSION_START = 6
    ADMISSION_FULL = 7
    ADMISSION_RANGE = 8
    ADMIT_START = 6
    ADMIT_FULL = 3
INVARIANTS TypeOK HeadIsLargest NoOvercount
PROPERTIES HotNeverFalls FreshIsKept
CHECK_DEADLOCK FALSE
