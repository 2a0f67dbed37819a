SPECIFICATION Spec
CONSTANTS
    HbTimeout = 6
    HbEmitPeriod = 2
    TxPeriod = 3
    EnabledChannels = 2
    None = None
    MaxLoop = 2
    MaxClock = 13
INVARIANTS TypeOK WriteNeedsHeartbeat HeartbeatAllowsWrite
