CONSTANTS
    Store = {a, b}
    Session = {s1, s2, s3}
    Msg = {m1, m2, m3, m4}
    None = None
    Unborn = Unborn
    MaxEdits = 4
    MaxExports = 2
    Proc = {p1, p2, p3}
    Inode = {i1, i2, i3, i4}
    NoFile = NoFile
    Reimports = "alone"
    Word <- Words
    Fold <- Folded
    Bare <- Bared
    Below <- Within
    Star = Star
    Rules <- Written
    Accesses <- Calls
    Modes = {"auto", "manual", "plan", "yolo"}
    NoAccess = NoAccess
    MaxGrants = 1
SPECIFICATION Spec
SYMMETRY Interchangeable
INVARIANTS
    TransferSafe
    AllowedIsHeld
    PartsJudged
    GrantsHold
PROPERTIES
    ImportsSound
    LiveKeepsArtifacts
    HoldSpec
