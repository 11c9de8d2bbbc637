CONSTANTS
    p1 = p1
    p2 = p2
    A = A
    B = B
    C = C
    X = X
    None = None
    NoRows = NoRows
    Process = {p1, p2}
    Content = {A, B, C, X}
    Key = {1, 2}
    Value = {1, 2}
    Parsed <- MCParsed
    Tagged = {B}
    MaxRuns = 3
    MaxCorruptions = 1
SPECIFICATION Spec
SYMMETRY Symmetry
CHECK_DEADLOCK FALSE
INVARIANTS
    AlertsAreTrue
    DiffsAreExact
    HistoryIsAcyclic
    ChangesAreReported
PROPERTIES
    NothingRewritten
