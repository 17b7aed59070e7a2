SPECIFICATION Spec
CONSTANTS
    a1 = a1
    a2 = a2
    b1 = b1
    b2 = b2
    wrap = wrap
    ghost = ghost
    Flows = {a1, a2, b1, b2, wrap, ghost}
    NoFlow = NoFlow
    Hash <- MCHash
    HASH_SPACE = 48
    FP_UNIT = 3
    TAG_UNIT = 2
    MAX_BUCKETS = 3
    MAX_ENTRY = 2
    COUNT_MAX = 15
    K = 2
    THRESHOLD_INIT = 1
    MaxPackets = 7
INVARIANTS TotalIsBacked ReportIsBacked ThresholdIsBacked
PROPERTIES ImplementsCounting Retention
CHECK_DEADLOCK FALSE
