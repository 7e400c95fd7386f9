SPECIFICATION FairSpec
CONSTANTS
    Process = {p1, p2}
    Build = {v2}
    Damaged = Damaged
    Torn = Torn
    Attempts = 2
INVARIANT LockProtects
INVARIANT OnlyVerifiedInstalled
INVARIANT ReplacedAtOnce
PROPERTY UpdateEnds
