CONSTANTS
    p1 = p1
    p2 = p2
    p3 = p3
    g1 = g1
    o1 = o1
    Process = {p1, p2, p3}
    Gaps = {g1}
    Origin = {o1}
    Bytes = {1}
    None = None
    Date = {1}
    Offline = 0
    MaxEvents = 4
SPECIFICATION Spec
SYMMETRY Symmetry
INVARIANTS
    TypeOK
    RequestsAreHistories
    AcknowledgedIsKept
    ResponsesCiteImports
    SuppliedIsWhole
