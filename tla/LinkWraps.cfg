SPECIFICATION Spec
CONSTANTS
    SeqModulo = 16
    WrapTolerance = 8
    MaxPlausibleGap = 3
    ResyncAfter = 3
    None = None
    Wraps = TRUE
    MaxSeq = 0
    MaxLost = 8
    MaxBurst = 3
    MaxReboots = 0
    Reconnects = FALSE
INVARIANTS ExactAccounting
