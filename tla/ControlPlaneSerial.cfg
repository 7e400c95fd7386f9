SPECIFICATION FairSpec
CONSTANTS
    Session = {s1,s2}
    User = {u1}
    Domain = {d1, d2}
    Owner <- OwnerOne
    Request <- RequestSub
    ForceFlag = {FALSE}
    MaxConnections = 1
    NoSession = NoSession
    NoUser = NoUser
    u1 = u1
    u2 = u2
    d1 = d1
    d2 = d2
INVARIANT EstablishedIsRouted
INVARIANT OneActiveSession
PROPERTY AcceptedIsServed
PROPERTY ShutdownCompletes
CHECK_DEADLOCK FALSE
