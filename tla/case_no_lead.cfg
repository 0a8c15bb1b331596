SPECIFICATION Spec
CONSTANTS
    a1 = a1
    t1 = t1
    t2 = t2
    z1 = z1
    c1 = c1
    r1 = r1
    r2 = r2
    None = None
    User = {a1, t1, t2, z1}
    OrgRole <- MCOrgRole
    Inactive = {z1}
    Assignee = {t1, t2, z1}
    Case = {c1}
    Assignable = {"lead_attorney", "paralegal"}
    MaxChange = 1
    Request = {r1, r2}
SYMMETRY Symmetry
INVARIANT
    CaseHasLead
CHECK_DEADLOCK FALSE
