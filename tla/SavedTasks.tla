----------------------------- MODULE SavedTasks -----------------------------
(***************************************************************************)
(* What a task file promises to the daemon: it holds one list of tasks,    *)
(* which changes in one step, only to the list that the daemon has then,   *)
(* and which a daemon that was killed finds again when it is started.      *)
(* (Between a request and the end of its save the file holds the list of   *)
(* an earlier one.)                                                        *)
(***************************************************************************)
CONSTANT Task

VARIABLES
    up,      \* the daemon runs
    tasks,   \* its tasks
    stored   \* those of the file

vars == <<up, tasks, stored>>

Init == up = TRUE /\ tasks = {} /\ stored = {}

Change(L) ==
    /\ up
    /\ tasks' = L
    /\ UNCHANGED <<up, stored>>

Settle ==
    /\ up
    /\ stored' = tasks
    /\ UNCHANGED <<up, tasks>>

Kill ==
    /\ up
    /\ up' = FALSE /\ tasks' = {}
    /\ UNCHANGED stored

Restart ==
    /\ ~up
    /\ up' = TRUE /\ tasks' = stored
    /\ UNCHANGED stored

Next ==
    \/ \E t \in Task : Change(tasks \cup {t}) \/ Change(tasks \ {t})
    \/ Settle \/ Kill \/ Restart

Spec == Init /\ [][Next]_vars
=============================================================================
