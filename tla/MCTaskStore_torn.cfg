SPECIFICATION Spec
CONSTANTS
    t1 = t1  t2 = t2  s1 = s1  s2 = s2  i1 = i1  i2 = i2  i3 = i3  i4 = i4
    Task = {t1, t2}
    Saver = {s1, s2}
    Inode = {i1, i2, i3, i4}
    None = None
    Serial = FALSE
    MayFailIO = FALSE
SYMMETRY Symmetry
INVARIANTS FileIsReadable
