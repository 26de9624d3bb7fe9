-------------------------- MODULE MCDaemonControl --------------------------
(* Instances of DaemonControl; its pids are used again once they are free. *)
EXTENDS DaemonControl

CONSTANTS t1, t2, p1, p2, p3, i1, i2, i3
=============================================================================
