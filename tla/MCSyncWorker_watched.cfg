SPECIFICATION FairSpec
CONSTANTS
    push = push  pull = pull  w1 = w1
    Task = {push, pull}
    PullTask = {pull}
    Worker = {w1}
    None = None
    MaxVersion = 3
    EarlyEdits = FALSE
    LateReader = FALSE
    MayFailWatch = TRUE
    MayFailRsync = TRUE
CHECK_DEADLOCK FALSE
INVARIANTS TypeOK IdleIsInSync NeverStuck
PROPERTIES ErrorMeansThreeFailures SuccessIsItsOwn RoundsMoveOn ChangesAreHandled WorkerEnds
