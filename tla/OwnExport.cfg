CONSTANTS
    Store = {a, b}
    Session = {s1, s2, s3}
    Msg = {m1, m2, m3, m4}
    None = None
    Unborn = Unborn
    MaxEdits = 4
    MaxExports = 2
SPECIFICATION TSpec
SYMMETRY TSymmetry
PROPERTY OwnExportStays
