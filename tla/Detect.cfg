CONSTANTS
    Lines <- MCLines
    Terms <- MCTerms
    FalsePositives <- MCFalsePositives
    Category <- MCCategory
    SourceTypes = {"Agenda"}
    ContextLines = 1
    MaxLines = 3
SPECIFICATION Spec
CHECK_DEADLOCK FALSE
INVARIANTS
    MatchesAreCited
    StatesAreSupported
    OnlyRelevantLinesMatter
    ReadingsAgree
