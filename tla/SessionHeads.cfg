CONSTANTS
    Proc = {p1, p2}
    Session = {s1, s2, s3}
    Msg = {m1, m2, m3, r1}
    Results = {r1}
    None = None
    Unborn = Unborn
SPECIFICATION Spec
SYMMETRY Symmetry
CONSTRAINT OneDimension
INVARIANTS
    StoreSafety
    CountsShown
PROPERTIES
    NoUnseenDrop
    SnapshotsDescribeHead
    ManualTitleSticks
    ImplementsConversations
