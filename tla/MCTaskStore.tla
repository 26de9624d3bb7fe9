---------------------------- MODULE MCTaskStore ----------------------------
(* Instances of TaskStore; tasks, saves and inodes are interchangeable.    *)
EXTENDS TaskStore, TLC

CONSTANTS t1, t2, s1, s2, i1, i2, i3, i4

Symmetry == Permutations(Task) \cup Permutations(Saver) \cup Permutations(Inode)
=============================================================================
