CONSTANTS
    p1 = p1
    p2 = p2
    op = op
    d1 = d1
    d2 = d2
    NoDraft = NoDraft
    Poster <- MCPoster
    Operator <- MCOperator
    Draft <- MCDraft
    NumSegments = 2
    MaxAttempts = 2
    MaxDecisions = 2
SPECIFICATION Spec
SYMMETRY Symmetry
CHECK_DEADLOCK FALSE
INVARIANTS
    TypeOK
    ApprovedTextOnly
    SentOnceInOrder
    RepostNeedsWithdrawal
    RecordedIsAccountedFor
    CrashLosesAtMostOneSegment
    FinalThreadIsWhole
PROPERTIES
    ImplementsThreadGrants
