SPECIFICATION FairSpec
CONSTANTS
    c1 = c1
    s1 = s1
    s2 = s2
    m1 = m1
    m2 = m2
    p1 = p1
    p2 = p2
    None = None
    Case = {c1}
    Memo = {m1, m2}
    Session = {s1, s2}
    AdminSession = {s1}
    Passage = {p1, p2}
    SortKey <- MCSortKey
    Sections = 2
    Library <- MCLibrary
    MaxCites = 2
    ProcessMayDie = TRUE
CONSTRAINT Scope
INVARIANTS
    TypeOK
    CitationsGrounded
    BibliographyExact
    SuperscriptsResolve
    MemosAudited
PROPERTIES
    MemosSettle
    NoMemoOnDeletedCase
    VersionHistory
CHECK_DEADLOCK FALSE
