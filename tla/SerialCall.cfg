SPECIFICATION Spec
CONSTANTS
    Timeout = 3
    MaxPump = 2
    MaxSleep = 1
    MaxWall = 7
    None = None
    Arguments <- MCArguments
    Damages <- MCDamages
    Bursts <- MCBursts
INVARIANTS WaitBounded AnsweredInTime AcceptedWasSent ReadsWhatWasSent OneCallOneLine
    DamagedCommandRefused
PROPERTIES ImplementsSendLoop EveryCallEnds
CHECK_DEADLOCK FALSE
