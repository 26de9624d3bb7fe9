SPECIFICATION FairSpec
CONSTANTS
    t1 = t1  t2 = t2  p1 = p1  p2 = p2  p3 = p3  i1 = i1  i2 = i2  i3 = i3
    Terminal = {t1, t2}
    Pid = {p1, p2, p3}
    Inode = {i1, i2, i3}
    None = None
    Stale = Stale
    Calm = TRUE
    MayCrash = TRUE
INVARIANTS OneServer ServerIsInReach NeverStuck
PROPERTIES SpawnServes
