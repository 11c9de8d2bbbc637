CONSTANTS
    c1 = c1
    c2 = c2
    api = api
    other = other
    e1 = e1
    e2 = e2
    e3 = e3
    e4 = e4
    Command = {c1, c2}
    Settings <- MCSettings
    Host = {api, other}
    Event = {e1, e2, e3, e4}
    FirstFeeds <- MCFeeds
    Items <- MCItems
    Limits <- MCLimits
    Expiries <- MCExpiries
    MaxEvents = 3
    MaxMatters = 2
    MaxAttachments = 1
    MaxDownloaded = 3
    MaxRedirects = 1
    MaxTime = 2
    MaxCommands = 2
    MaxReviews = 2
    MaxEdits = 1
SPECIFICATION Spec
SYMMETRY Interchangeable
CHECK_DEADLOCK FALSE
INVARIANTS
    FetchesAreReviewed
    PacedUnlessRaced
    RunReturnsTheFeed
