---------------------------- MODULE MCSyncDaemon ----------------------------
(* Instances of SyncDaemon with one push task; its workers and the         *)
(* connections are interchangeable.                                        *)
EXTENDS SyncDaemon, TLC

CONSTANTS t1, w1, w2, w3, h1, h2

Symmetry == Permutations(Worker) \cup Permutations(Handler)
=============================================================================
