----------------------------- MODULE TaskStore -----------------------------
(***************************************************************************)
(* The task file of the legacy daemon (src/src/server/state.rs).  StartTask *)
(* and StopTask change the tasks in memory and spawn a save of a copy; a   *)
(* save writes a temporary file whose name all saves share and renames it. *)
(* A name refers to an inode, and a save goes on writing to the inode that *)
(* it opened, whatever its name has become.                                *)
(***************************************************************************)
EXTENDS Naturals

CONSTANTS
    Task,        \* task ids
    Saver,       \* bound: saves at the same time
    Inode,       \* files
    None,
    Serial,      \* a request comes only when the last save has ended
    MayFailIO    \* an open, write or rename may fail

ASSUME StoreAssumption ==
    /\ None \notin Inode
    /\ {Serial, MayFailIO} \subseteq BOOLEAN

VARIABLES
    up,      \* the daemon runs
    tasks,   \* ServerState.tasks
    save,    \* what each save is doing
    tmp,     \* the inode called .sync_daemon_tasks.json.tmp
    json,    \* the inode called .sync_daemon_tasks.json
    data,    \* the content of the inodes
    recent   \* history: the last list that was saved, and those asked for since

vars == <<up, tasks, save, tmp, json, data, recent>>

-----------------------------------------------------------------------------
(* A file is a list of tasks, or nothing that load_tasks can parse.        *)
Content    == [readable: BOOLEAN, list: SUBSET Task]
Unreadable == [readable |-> FALSE, list |-> {}]
Listing(L) == [readable |-> TRUE, list |-> L]

Save == [list: SUBSET Task, step: {"open", "write", "rename"}, file: Inode \cup {None}]

Saving(s) == save[s] # None
At(s, l)  == Saving(s) /\ save[s].step = l
Quiet     == \A s \in Saver : ~Saving(s)
Ends(s)   == save' = [save EXCEPT ![s] = None]

-----------------------------------------------------------------------------
(* StartTask and StopTask: the end of each, under the lock.                *)

Request(L) ==
    /\ up
    /\ Serial => Quiet
    /\ tasks' = L
    /\ \E s \in Saver :
          /\ ~Saving(s)
          /\ save' = [save EXCEPT ![s] = [list |-> L, step |-> "open", file |-> None]]
    /\ recent' = recent \cup {L}
    /\ UNCHANGED <<up, tmp, json, data>>

Start(t) == t \notin tasks /\ Request(tasks \cup {t})
Stop(t)  == Request(tasks \ {t})

(* Mutant: the list is written in place. *)
OpenInPlace(s, i) ==
    /\ json = i \/ json = None
    /\ json' = i /\ UNCHANGED tmp

(* The file that File::create finds or makes. *)
OpenTmp(s, i) ==
    /\ tmp = i \/ (tmp = None /\ i # json /\ \A q \in Saver : Saving(q) => save[q].file # i)
    /\ tmp' = i /\ UNCHANGED json

SaveOpens(s) ==
    /\ At(s, "open")
    /\ \E i \in Inode :
          /\ OpenTmp(s, i)
          /\ data' = [data EXCEPT ![i] = Unreadable]
          /\ save' = [save EXCEPT ![s].step = "write", ![s].file = i]
    /\ UNCHANGED <<up, tasks, recent>>

(* The write starts at the beginning: on a file that another save has      *)
(* filled since, what is longer than the list stays behind it.             *)
SaveWrites(s) ==
    /\ At(s, "write")
    /\ LET i == save[s].file
       IN \E c \in {Listing(save[s].list)} \cup (IF data[i].readable THEN {Unreadable} ELSE {}) :
              data' = [data EXCEPT ![i] = c]
    /\ save' = [save EXCEPT ![s].step = "rename"]
    /\ UNCHANGED <<up, tasks, tmp, json, recent>>

(* The rename fails when another save has taken the temporary file away.   *)
SaveRenames(s) ==
    /\ At(s, "rename")
    /\ IF tmp = None
         THEN UNCHANGED <<tmp, json, recent>>
         ELSE /\ json' = tmp
              /\ tmp' = None
              /\ recent' = {save[s].list, tasks}
    /\ Ends(s)
    /\ UNCHANGED <<up, tasks, data>>

(* Mutant: the rename is made after a write that failed. *)
FailureRenames(s) ==
    /\ At(s, "write")
    /\ data' = [data EXCEPT ![save[s].file] = Unreadable]
    /\ save' = [save EXCEPT ![s].step = "rename"]

(* `?`: the save ends with a warning; a write may have been made in part.  *)
Failure(s) ==
    /\ Ends(s)
    /\ IF At(s, "write")
         THEN data' = [data EXCEPT ![save[s].file] = Unreadable]
         ELSE UNCHANGED data

SaveFails(s) ==
    /\ MayFailIO
    /\ Saving(s)
    /\ Failure(s)
    /\ UNCHANGED <<up, tasks, tmp, json, recent>>

-----------------------------------------------------------------------------
(* The daemon is killed, by kill_server or a reboot, perhaps in a write.   *)
Crash ==
    /\ up
    /\ up' = FALSE /\ tasks' = {}
    /\ save' = [s \in Saver |-> None]
    /\ \E torn \in SUBSET {save[s].file : s \in {q \in Saver : At(q, "write")}} :
          data' = [i \in Inode |-> IF i \in torn THEN Unreadable ELSE data[i]]
    /\ UNCHANGED <<tmp, json, recent>>

(* What load_tasks returns. *)
Stored == IF json # None /\ data[json].readable THEN data[json].list ELSE {}

Load ==
    /\ ~up
    /\ up' = TRUE /\ tasks' = Stored
    /\ recent' = {Stored}
    /\ UNCHANGED <<save, tmp, json, data>>

Init ==
    /\ up = TRUE /\ tasks = {}
    /\ save = [s \in Saver |-> None]
    /\ tmp = None /\ json = None
    /\ data = [i \in Inode |-> Unreadable]
    /\ recent = {{}}

SaveStep(s) == SaveOpens(s) \/ SaveWrites(s) \/ SaveRenames(s) \/ SaveFails(s)

Next ==
    \/ \E t \in Task : Start(t) \/ Stop(t)
    \/ \E s \in Saver : SaveStep(s)
    \/ Crash \/ Load

Spec == Init /\ [][Next]_vars

-----------------------------------------------------------------------------
TypeOK ==
    /\ up \in BOOLEAN
    /\ tasks \subseteq Task
    /\ save \in [Saver -> Save \cup {None}]
    /\ tmp \in Inode \cup {None} /\ json \in Inode \cup {None}
    /\ data \in [Inode -> Content]
    /\ recent \subseteq SUBSET Task

(* The file under the final name is complete at every moment, so that a    *)
(* kill at any moment leaves one that load_tasks can parse.                *)
FileIsReadable == json # None => data[json].readable

(* What a restart would find is the last list that was saved, or one that  *)
(* was asked for since: no task comes back, and none is lost, that a       *)
(* finished save had settled.                                              *)
RestartFindsRecent == Stored \in recent

(* A file that is replaced in one step, of which Stored is the content.    *)
File == INSTANCE SavedTasks WITH stored <- Stored

(* save_tasks, for all its steps, failures and kills, changes what         *)
(* load_tasks would return only by its rename, and only to the list that   *)
(* the daemon has at that moment.                                          *)
KeepsOneList == File!Spec

(* The inductive invariant of the proofs, for serial requests. *)
OneSave == \A s, q \in Saver : Saving(s) /\ Saving(q) => s = q

SaveInOrder ==
    \A s \in Saver : Saving(s) =>
        /\ up
        /\ save[s].list = tasks /\ tasks \in recent
        /\ save[s].step # "open" => save[s].file # None /\ save[s].file = tmp
        /\ save[s].step = "write" => ~data[tmp].readable
        /\ save[s].step = "rename" => data[tmp] = Listing(tasks)

NamesDiffer == tmp # None => tmp # json

IndInv ==
    /\ TypeOK /\ OneSave /\ SaveInOrder /\ NamesDiffer
    /\ FileIsReadable /\ RestartFindsRecent /\ (up => tasks \in recent)

=============================================================================
