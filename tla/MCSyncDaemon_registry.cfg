SPECIFICATION Spec
CONSTANTS
    t1 = t1  w1 = w1  w2 = w2  w3 = w3  h1 = h1  h2 = h2
    Task = {t1}
    PullTask = {t1}
    Worker = {w1, w2, w3}
    Handler = {h1, h2}
    None = None
    MaxVersion = 1
    MayRestart = TRUE
    MayCrash = TRUE
    EarlyEdits = FALSE
    LateReader = FALSE
    MayFailWatch = FALSE
    MayFailRsync = FALSE
SYMMETRY Symmetry
INVARIANTS TypeOK EveryTaskIsServed OnlyTasksAreServed
