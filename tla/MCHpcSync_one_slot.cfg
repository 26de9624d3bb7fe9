SPECIFICATION FairSpec
CONSTANTS
    p1 = p1  p2 = p2  c1 = c1  c2 = c2  f1 = f1  f2 = f2  v1 = v1  v2 = v2
    Proc = {p1}
    RunId = {1}
    Config = {c1, c2}
    VerifyingConfig = {c1}
    File = {f1, f2}
    Version = {v1, v2}
    Absent = Absent
    None = None
    RequireMarker = TRUE
    QuietSource = TRUE
    MayDelete = TRUE
    MayCrash = TRUE
    MayFailIO = TRUE
INVARIANTS RunIsApproved
PROPERTIES InvocationEnds RecoveryPointIsFinal CompletionCoversSource VerifiedCoversSource
