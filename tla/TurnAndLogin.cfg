CONSTANTS
    Mode = {plan, manual}
    None = None
    MaxRounds = 2
    MaxFailures = 2
    MaxMessages = 5
    MaxPrompts = 4
    MaxSwitches = 2
    MaxTasks = 2
    Proc = {p1, p2}
    MaxTokens = 2
    MaxTries = 1
    MaxFaults = 2
SPECIFICATION Spec
SYMMETRY Interchangeable
INVARIANTS
    TalkAgrees
    UsageBilledOnce
    TurnBounded
    LockGuards
    LoginSafe
