---------------------------- MODULE MCSyncWorker ----------------------------
(* Instances of SyncWorker: one push and one pull task.                    *)
EXTENDS SyncWorker

CONSTANTS push, pull, w1
=============================================================================
