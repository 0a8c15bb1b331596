SPECIFICATION Spec
CONSTANTS
    a1 = a1
    a2 = a2
    t1 = t1
    t2 = t2
    x1 = x1
    x2 = x2
    h1 = h1
    h2 = h2
    h3 = h3
    k1 = k1
    k2 = k2
    r1 = r1
    r2 = r2
    None = None
    User = {a1, a2}
    Admin = {a1, a2}
    Token = {t1, t2}
    UserSession = {x1, x2}
    Challenge = {h1, h2}
    Credential = {k1, k2}
    Counterless = {k2}
    MaxSignCount = 1
    Request = {r1, r2}
CONSTRAINT Scope
SYMMETRY Symmetry
INVARIANTS
    TypeOK
    OneSessionPerLink
    ChallengeExclusive
    ChallengeSpent
    SecondFactorEarned
    KeyRevokedWithSecondFactor
PROPERTIES
    RevokedStaysPowerless
CHECK_DEADLOCK FALSE
