SPECIFICATION FairSpec
CONSTANTS
    s1 = s1
    s2 = s2
    Stream = {s1, s2}
INVARIANT NothingLeaks
PROPERTY StreamsEnd
CHECK_DEADLOCK FALSE
