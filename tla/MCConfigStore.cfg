SPECIFICATION Spec
CONSTANTS
    Channel = {0, 1}
    U32Max = 2147483647
    RateScale = 60
    NoFile = NoFile
    Torn = Torn
    UnknownKey = UnknownKey
    Combination = Combination
    HasPath = TRUE
    Key <- MCKey
    Text <- MCText
    Default <- MCDefault
    Interlocked <- MCInterlocked
    ReadOnly <- MCReadOnly
    FileContents <- MCFileContents
    Accepts <- ItemAccepts
    ValueOf <- ItemValue
    ToRaw <- RawText
    RequiredSps <- RequiredRate
    AvailableSps <- AvailableRate
INVARIANTS TypeOK Feasible InterlockHeld CleanMeansDurable
PROPERTIES RestoresOrFlags RefusedLeavesNoTrace
VIEW MCView
