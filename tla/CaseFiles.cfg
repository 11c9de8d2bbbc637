CONSTANTS
    w1 = w1
    w2 = w2
    Worker = {w1, w2}
    Page = {"mirror", "awards", "later"}
    SourceOf <- MCSourceOf
    RowsOf <- MCRowsOf
    Norm <- MCNorm
    None = "none"
    Near <- MCNear
    Mirror = "mirror"
    Awards = "awards"
    AwardsLater = "later"
    Transit = "R-2"
    Control = "B 1"
    MaxCommands = 3
SPECIFICATION Spec
CHECK_DEADLOCK FALSE
INVARIANTS
    EventsCiteTheirRow
    LinksRunForward
    IngestedIsReachable
    RelationshipsResolve
    CaseFilesStayTrue
