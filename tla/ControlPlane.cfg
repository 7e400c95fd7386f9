SPECIFICATION FairSpec
CONSTANTS
    Session = {s1,s2}
    User = {u1,u2}
    Domain = {d1, d2}
    Owner <- OwnerTwo
    Request <- RequestTwo
    ForceFlag = {TRUE, FALSE}
    MaxConnections = 2
    NoSession = NoSession
    NoUser = NoUser
    u1 = u1
    u2 = u2
    d1 = d1
    d2 = d2
INVARIANT TypeOK
INVARIANT NoDanglingRoute
INVARIANT NoDanglingUser
INVARIANT GaugeSettles
PROPERTY TenantIsolation
PROPERTY RefinesDirectory
PROPERTY ClosedIsForgotten
CHECK_DEADLOCK FALSE
