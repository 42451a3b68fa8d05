CONSTANTS
    MaxOpen = 2
    MaxStarts = 2
    MaxPrinted = 1
    Chatty = {1}
    MaxSessions = 2
    MaxRetries = 1
    StreamBuffer = 2
    ThinkingText = TRUE
    MaxBlocks = 2
    MaxFrames = 3
SPECIFICATION Spec
CHECK_DEADLOCK FALSE
INVARIANTS
    ShellsReported
    ReplyFaithful
PROPERTIES
    StopsEnd
    WireKept
    RequestEnds
