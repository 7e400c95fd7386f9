SPECIFICATION UIFairSpec
CONSTANTS
    Forced = FALSE
    InitialDelay = 2
    MaxDelay = 3
    Multiplier = 2
    MaxAttempts = 2
    Tunnel = {web, api}
    BufferSize = 3
INVARIANT OneSession
INVARIANT UITypeOK
INVARIANT ScreenFollows
PROPERTY EstablishedIsShown
PROPERTY QuitEnds
CHECK_DEADLOCK FALSE
