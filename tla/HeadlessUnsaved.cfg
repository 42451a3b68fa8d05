CONSTANTS
    Formats = {"text", "json", "stream-json"}
    MaxPieces = 1
SPECIFICATION RunSpec
CHECK_DEADLOCK FALSE
INVARIANTS
    UnsavedTold
