SPECIFICATION Spec
CONSTANTS
    a1 = a1
    a2 = a2
    b1 = b1
    b2 = b2
    wrap = wrap
    ghost = ghost
    c = c
    Flows = {a1, c, ghost}
    NoFlow = NoFlow
    Hash <- MCHash
    HASH_SPACE = 48
    FP_UNIT = 3
    TAG_UNIT = 2
    MAX_BUCKETS = 3
    MAX_ENTRY = 2
    COUNT_MAX = 8
    K = 3
    THRESHOLD_INIT = 1
    Elephants = {ghost}
    Background = 4
PROPERTIES ElephantIsListed
