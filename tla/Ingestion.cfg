CONSTANTS
    j1 = j1
    j2 = j2
    scan2 = scan2
    scan1 = scan1
    pdf = pdf
    Opener = {j1, j2}
    OldVersions = {0, 2, 5}
    Document = {scan2, scan1, pdf}
    Pages <- MCPages
    HasText = {pdf}
    RuleVersion = {1, 2}
    MaxAttachments = 2
    MaxOcrPages = 3
    MaxCommands = 2
SPECIFICATION Spec
SYMMETRY Symmetry
CHECK_DEADLOCK FALSE
INVARIANTS
    OpenMeansMigrated
    StoredIsWhole
    RecordFileMatchesRow
    TextIsItsDocuments
