SPECIFICATION Spec
CONSTANTS
    t1 = t1  w1 = w1  w2 = w2  w3 = w3  h1 = h1  h2 = h2
    Task = {t1}
    PullTask = {}
    Worker = {w1, w2}
    Handler = {h1}
    None = None
    MaxVersion = 1
    MayRestart = TRUE
    MayCrash = FALSE
    EarlyEdits = FALSE
    LateReader = FALSE
    MayFailWatch = FALSE
    MayFailRsync = FALSE
INVARIANTS OneRsyncPerTask
