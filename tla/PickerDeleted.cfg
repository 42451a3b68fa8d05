CONSTANTS
    Saved = {1, 2, 3}
    Here = {1, 2}
    Recent = {1, 3}
    Matching = {1}
    NoSession = NoSession
    PageSize = 2
    LoadAhead = 1
    MaxAt = 2
    MaxOthers = 0
    MaxReloads = 2
    MaxOps = 1
SPECIFICATION PSpec
CHECK_DEADLOCK FALSE
INVARIANT DeletedGone
