SPECIFICATION Spec
CONSTANTS
    N = 3
    Counts = {0, 1, 2, 3, 5, 7, 8, 9, 13}
    BASE = 2
    WIDTH = 16
INVARIANTS FinishedInPlace
CHECK_DEADLOCK FALSE
