CONSTANTS
    Layout <- MCLayout
    Quote <- MCQuote
    Number = {1, 2}
    DefaultWidth = 4
    DefaultHeight = 3
    Zoom = 2
SPECIFICATION GeometrySpec
CHECK_DEADLOCK FALSE
INVARIANTS
    OccurrencesAreExact
    HighlightCoversQuote
