CONSTANTS
    b1 = b1
    b2 = b2
    c1 = c1
    c2 = c2
    c3 = c3
    a1 = a1
    a2 = a2
    d2 = d2
    e1 = e1
    m1 = m1
    m2 = m2
    s1 = s1
    s2 = s2
    l1 = l1
    n1 = n1
    Builder = {b1, b2}
    Citation <- MCCitation
    AlertSeq <- MCAlertSeq
    EvidenceSeq <- MCEvidenceSeq
    MatterSeq <- MCMatterSeq
    LineCites <- MCLineCites
    EvidenceOf <- MCEvidenceOf
    PageCites <- MCPageCites
    MatterCites <- MCMatterCites
    DiffPage <- MCDiffPage
    Private = {m2}
    Statement = {s1, s2}
    StatementsOf <- MCStatementsOf
    Label = {l1}
    StatementCites <- MCStatementCites
    Notice = {n1}
    MaxDecisions = 2
    MaxBuilds = 2
SPECIFICATION Spec
SYMMETRY Symmetry
CHECK_DEADLOCK FALSE
INVARIANTS
    OnlyApprovedQuoted
    SiteIsOneBuild
    SettledSiteIsExact
