SPECIFICATION Spec
CONSTANTS
    b1 = b1
    b2 = b2
    r1 = r1
    r2 = r2
    u1 = u1
    u2 = u2
    s1 = s1
    s2 = s2
    None = None
    User = {u1, u2}
    Telegram = {t1}
    Yandex = {y1, blank}
    Blank = blank
    blank = blank
    t1 = t1
    y1 = y1
    Browser = {b1, b2}
    Request = {r1, r2}
    Secret = {s1, s2}
    DomainsPerUser = 2
    Form <- TermsForms
PROPERTY AcceptedTermsStay
