SPECIFICATION Spec
CONSTANTS
    Channel = {0}
    U32Max = 2147483647
    RateScale = 60
    HbTimeout = 3000
    HbEmitPeriod = 1000
    None = None
    UnknownKey = UnknownKey
    Key <- MCKey
    Text <- MCText
    Attempts <- MCAttempts
    MaxIdle = 1500
    ClockStep = 1500
    MaxClock = 6000
INVARIANTS TypeOK WriteNeedsHeartbeat HeartbeatAllowsWrite HeartbeatOpensConfig
    HostPictureTrue ValidatorsAgree
