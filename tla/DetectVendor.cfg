CONSTANTS
    Lines <- MCLines
    Terms <- MCTerms
    FalsePositives <- MCFalsePositives
    Category <- MCCategory
    SourceTypes = {"Agenda"}
    ContextLines = 1
    MaxLines = 1
SPECIFICATION Spec
CHECK_DEADLOCK FALSE
INVARIANT
    VendorActionsAreExplicit
