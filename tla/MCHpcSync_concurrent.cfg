SPECIFICATION Spec
CONSTANTS
    p1 = p1  p2 = p2  c1 = c1  c2 = c2  f1 = f1  f2 = f2  v1 = v1  v2 = v2
    Proc = {p1, p2}
    RunId = {1, 2}
    Config = {c1}
    VerifyingConfig = {c1}
    File = {f1}
    Version = {v1}
    Absent = Absent
    None = None
    RequireMarker = FALSE
    QuietSource = FALSE
    MayDelete = FALSE
    MayCrash = FALSE
    MayFailIO = FALSE
SYMMETRY Symmetry
INVARIANTS TypeOK OneOperationAtATime NoOverlap StatusIsAuthoritative
PROPERTIES MarkedAfterComparison InvocationsMoveOn
