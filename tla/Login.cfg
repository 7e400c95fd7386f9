SPECIFICATION MCSpec
CONSTANTS
    b1 = b1
    b2 = b2
    r1 = r1
    r2 = r2
    u1 = u1
    u2 = u2
    s1 = s1
    s2 = s2
    t1 = t1
    h1 = h1
    None = None
    User = {u1,u2}
    Telegram = {t1}
    Yandex = {y1, blank}
    Blank = blank
    blank = blank
    y1 = y1
    Browser = {b1,b2}
    Request = {r1,r2}
    Secret = {s1, s2}
    Hash = {h1}
    DomainsPerUser = 1
    Form <- TermsForm
    MaxUpdates = 3
    MaxRestarts = 1
INVARIANT HandedOnce
INVARIANT NoUpdateLost
PROPERTY EntriesExpire
PROPERTY UpdatesAreHandled
