SPECIFICATION Spec
CONSTANTS
    c1 = c1
    c2 = c2
    s1 = s1
    s2 = s2
    s3 = s3
    d1 = d1
    d2 = d2
    d3 = d3
    p1 = p1
    gap1 = gap1
    f1 = f1
    f2 = f2
    f3 = f3
    None = None
    Case = {c1}
    Draft = {d1}
    Session = {s1, s2}
    AdminSession = {}
    Flag = {f1}
    TypeOf <- MCOneTypeOf
    ParagraphOf <- MCOneParagraphOf
    SpanOf <- MCOneSpanOf
    Paragraph = {p1}
    Decision = {"resolved", "deferred"}
    MaxDecisions = 2
    ProcessMayDie = FALSE
PROPERTIES
    ApplyWritesText
CHECK_DEADLOCK FALSE
