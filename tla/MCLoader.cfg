SPECIFICATION Spec
CONSTANTS
    p = p
    q = q
    r = r
    t = t
    u = u
    v = v
    Flows = {p, q, r, t, u, v}
    NoFlow = NoFlow
    Hash <- MCHash
    HASH_SPACE = 64
    FP_UNIT = 2
    TAG_UNIT = 2
    MAX_BUCKETS = 1
    MAX_ENTRY = 2
    COUNT_MAX = 4
    K = 3
    THRESHOLD_INIT = 1
    SHARD_COUNT = 2
    SHARD_UNIT = 32
    Loaders = {"s", "t", "m"}
    Traffic <- MCTraffic
    MaxLate = 2
INVARIANTS TypeOK ReadyBeforeTraffic DumpIsBetween RowIsBacked NoHeadIsMissed
    EvictionsReported ExitLeavesNothing
PROPERTIES ShardsImplementSketches SignalEndsIt
CHECK_DEADLOCK FALSE
