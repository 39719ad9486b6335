SPECIFICATION Spec
CONSTANTS
    Models <- MCModels
    MpMax = 3
    BufMax = 2
    LogCap = 3
    MaxStarts = 2
    MaxSends = 3
    MaxLogs = 4
CHECK_DEADLOCK FALSE
INVARIANTS StreamsInStep OkMeansReceived
PROPERTIES CallsEnd LogIsServed
