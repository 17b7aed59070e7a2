SPECIFICATION Spec
CONSTANTS
    fa = fa
    fb = fb
    fc1 = fc1
    fc2 = fc2
    fd = fd
    fw = fw
    sa = sa
    sb = sb
    sc = sc
    sd = sd
    sw = sw
    Flows = {fa, fb, fc1, fc2, fd, fw}
    CString <- MCString
    NoFlow = NoFlow
    NoPacket = NoPacket
    bucket_num = 3
    Hash <- MCHash
    HASH_SPACE = 128
    FP_UNIT = 2
    TAG_UNIT = 4
    MAX_ENTRY = 3
    COUNT_MAX = 9
    K = 1
    THRESHOLD_INIT = 0
    MaxPackets <- MCMaxPackets
    MaxUnparsed = 1
    MaxTotal = 6
    MaxSeconds = 2
    Durations = {2}
INVARIANTS TypeOK Sorted TotalIsBacked HomeButForTheWrap EveryPacketIsAccounted
    DisplayIsBacked SignalFindsOpenHandle
PROPERTIES StopEndsIt
CHECK_DEADLOCK FALSE
