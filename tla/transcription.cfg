SPECIFICATION FairSpec
CONSTANTS
    c1 = c1
    i1 = i1
    i2 = i2
    t1 = t1
    r1 = r1
    None = None
    Case = {c1}
    Interview = {i1, i2}
    Document = {t1}
    Reader = {r1}
    ProcessMayDie = TRUE
INVARIANTS
    TypeOK
    AudioStored
    OutcomesAudited
    DraftableEarned
    RevocationHolds
PROPERTIES
    NothingOnDeletedCase
    UploadsSettle
CHECK_DEADLOCK FALSE
