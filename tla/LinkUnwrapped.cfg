SPECIFICATION Spec
CONSTANTS
    SeqModulo = 16
    WrapTolerance = 8
    MaxPlausibleGap = 3
    ResyncAfter = 3
    None = None
    Wraps = FALSE
    MaxSeq = 17
    MaxLost = 6
    MaxBurst = 5
    MaxReboots = 0
    Reconnects = TRUE
INVARIANTS NothingRefused
