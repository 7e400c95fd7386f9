SPECIFICATION FairSpec
CONSTANTS
    s1 = s1
    s2 = s2
    Stream = {s1}
    ForceFlag = {TRUE, FALSE}
    Rival = TRUE
    InitialDelay = 1
    MaxDelay = 3
    Multiplier = 2
    MaxAttempts = 0
INVARIANT TypeOK
INVARIANT OneSession
PROPERTY DrainsBeforeReturn
PROPERTY ShutdownStopsRunner
PROPERTY Recovers
CHECK_DEADLOCK FALSE
