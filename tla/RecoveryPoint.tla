--------------------------- MODULE RecoveryPoint ---------------------------
(***************************************************************************)
(* What hpc-sync promises about the recovery points of one job, whatever   *)
(* invocations overlap, fail or are killed: a run id is planned once and   *)
(* for all, its completion is recorded on the receiver before it is        *)
(* recorded locally, both records are permanent, only a completed run is   *)
(* ever the base of another, and only a completed run is ever reported as  *)
(* a success.  (A later report may differ: a success can be followed by a  *)
(* failure when the run is repeated.)                                      *)
(***************************************************************************)
CONSTANTS RunId, None

VARIABLES
    stage,    \* how far each run id has come
    base,     \* the completed run that each planned run builds on
    outcome   \* the last reported outcome of each run

vars == <<stage, base, outcome>>

Stage == {"unused", "planned", "marked", "completed"}

Init ==
    /\ stage = [r \in RunId |-> "unused"]
    /\ base = [r \in RunId |-> None]
    /\ outcome = [r \in RunId |-> None]

Plan(r, b) ==
    /\ stage[r] = "unused"
    /\ b # None => stage[b] = "completed"
    /\ stage' = [stage EXCEPT ![r] = "planned"]
    /\ base' = [base EXCEPT ![r] = b]
    /\ UNCHANGED outcome

Advance(r, from, to) ==
    /\ stage[r] = from
    /\ stage' = [stage EXCEPT ![r] = to]
    /\ UNCHANGED <<base, outcome>>

Mark(r)     == Advance(r, "planned", "marked")
Complete(r) == Advance(r, "marked", "completed")

Report(r, o) ==
    /\ stage[r] # "unused"
    /\ o = "success" => stage[r] = "completed"
    /\ outcome' = [outcome EXCEPT ![r] = o]
    /\ UNCHANGED <<stage, base>>

Next ==
    \E r \in RunId :
        \/ \E b \in RunId \cup {None} : Plan(r, b)
        \/ Mark(r)
        \/ Complete(r)
        \/ \E o \in {"success", "failed", "verification_failed"} : Report(r, o)

Spec == Init /\ [][Next]_vars
=============================================================================
