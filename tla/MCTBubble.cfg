SPECIFICATION Spec
CONSTANTS
    a1 = a1
    a2 = a2
    b1 = b1
    wrap = wrap
    ghost = ghost
    cpu1 = cpu1
    cpu2 = cpu2
    Flows = {a1, a2, b1, wrap, ghost}
    CPUs = {cpu1}
    NoFlow = NoFlow
    Hash <- MCHash
    HASH_SPACE = 48
    FP_UNIT = 3
    TAG_UNIT = 2
    MAX_BUCKETS = 3
    MAX_ENTRY = 2
    COUNT_MAX = 15
    K = 2
    THRESHOLD_INIT = 1
    MaxPackets = 6
PROPERTIES ImplementsInsert EvictionsAreCounted CounterIsCaughtUp
CHECK_DEADLOCK FALSE
