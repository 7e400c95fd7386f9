SPECIFICATION Spec
CONSTANTS
    Caller = {c1, c2, c3}
    User = {u1}
    Size = {0, 1, 2, 4}
    DailyLimit = 3
    LastDay = 1
    Failing = {}
INVARIANT UsedWithinLimit
INVARIANT DenialIsJustified
PROPERTY ImplementsQuota
SYMMETRY Symmetry
