CONSTANTS
    Text = {a, b}
    Absent = Absent
    NoEntry = NoEntry
    NoMark = NoMark
    MaxCalls = 3
    MaxForeign = 1
    MaxRuns = 2
    Saved = {1, 2, 3}
    Here = {1, 2}
    Recent = {1, 3}
    Matching = {1}
    NoSession = NoSession
    LoadAhead = 1
    MaxAt = 2
    MaxOthers = 1
    MaxReloads = 2
    MaxOps = 1
    PageSize = 1
SPECIFICATION Spec
SYMMETRY Texts
CHECK_DEADLOCK FALSE
INVARIANTS
    TrackerBacked
    ListingTrue
    PagesAgree
PROPERTY OverwritesKnown
