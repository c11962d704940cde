SPECIFICATION MCSpec
CONSTANTS
    Parts = {"login", "staff", "creator", "distributor"}
    None = None
    Calls = {q1, q2}
    Phones = {p1}
    Digits = {d1, d2}
    MaxCodes = 2
    Accts = {a1, a2}
    SMSMaxVerifyAttempts = 2
    Admins = {a0, b1}
    First = a0
    n1 = n1
    n2 = n2
    i1 = i1
    i2 = i2
    c1 = c1
    c2 = c2
    o1 = o1
    People = {n1, n2}
    Ids = {i1, i2}
    Cards = {c1, c2}
    Orgs = {o1}
    RealPeople <- MCRealPeople
    RealOrgs = {o1}
    Profiles <- MCProfiles
    Firms = {n1, n2}
    LegalCards = {i1, i2}
    Accounts = {c1}
    RealFirms <- MCRealFirms
SYMMETRY Symmetry
CHECK_DEADLOCK FALSE
INVARIANTS GuessesBounded LoginSound AManagerRemainsUnlessCrossed VerifiedIsEarned FirmSound
PROPERTY ImplementsAdmission
