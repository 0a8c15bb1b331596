SPECIFICATION Spec
CONSTANTS
    g1 = g1
    g2 = g2
    s1 = s1
    s2 = s2
    a = a
    b = b
    er = er
    hn = hn
    None = None
    Unknown = Unknown
    Ingestion = {g1}
    Search = {s1}
    Content = {a}
    Country = {er}
    RefsOf <- MCRefsOf
    TopK = {2}
    Multiplier = 2
    MaxCandidates = 2
    MaxRetries = 1
PROPERTY
    EveryCallRecorded
CHECK_DEADLOCK FALSE
