SPECIFICATION FairSpec
CONSTANTS
    g1 = g1
    g2 = g2
    s1 = s1
    s2 = s2
    a = a
    b = b
    er = er
    hn = hn
    None = None
    Unknown = Unknown
    Ingestion = {g1, g2}
    Search = {s1, s2}
    Content = {a, b}
    Country = {er, hn}
    RefsOf <- MCRefsOf
    TopK = {2}
    Multiplier = 2
    MaxCandidates = 2
    MaxRetries = 1
CONSTRAINT Scope
INVARIANTS
    TypeOK
    AnswersSound
    CallsRecorded
PROPERTIES
    RunsEnd
CHECK_DEADLOCK FALSE
