CONSTANTS
    p1 = p1
    p2 = p2
    op = op
    d1 = d1
    d2 = d2
    NoDraft = NoDraft
    Poster <- MCPoster
    Operator <- MCOperator
    Draft <- MCDraft
    NumSegments = 1
    MaxAttempts = 3
    MaxDecisions = 1
SPECIFICATION HonestSpec
SYMMETRY Symmetry
CHECK_DEADLOCK FALSE
INVARIANTS
    RepostOnlyAfterReconciling
