SPECIFICATION Spec
CONSTANTS
    a1 = a1
    a2 = a2
    b1 = b1
    b2 = b2
    wrap = wrap
    ghost = ghost
    Flows = {a1, a2, b1, b2, wrap, ghost}
    NoFlow = NoFlow
    Hash <- MCHash
    HASH_SPACE = 48
    FP_UNIT = 3
    TAG_UNIT = 2
    MAX_BUCKETS = 3
    MAX_ENTRY = 3
    COUNT_MAX = 4
    K = 3
    THRESHOLD_INIT = 1
    MaxPackets = 8
INVARIANTS TypeOK Sorted Identity NoOvercount
PROPERTIES HotNeverFalls
CHECK_DEADLOCK FALSE
