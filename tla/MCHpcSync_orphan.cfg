SPECIFICATION Spec
CONSTANTS
    p1 = p1  p2 = p2  c1 = c1  c2 = c2  f1 = f1  f2 = f2  v1 = v1  v2 = v2
    Proc = {p1, p2}
    RunId = {1}
    Config = {c2}
    VerifyingConfig = {}
    File = {f1}
    Version = {v1}
    Absent = Absent
    None = None
    RequireMarker = FALSE
    QuietSource = TRUE
    MayDelete = FALSE
    MayCrash = TRUE
    MayFailIO = FALSE
INVARIANT NoOverlap
