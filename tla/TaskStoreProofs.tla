-------------------------- MODULE TaskStoreProofs ---------------------------
(***************************************************************************)
(* Proofs about TaskStore: when requests do not overlap with saves, the    *)
(* task file is complete and recent at every moment, for every set of      *)
(* tasks, with kills and failing writes.                                   *)
(***************************************************************************)
EXTENDS TaskStore, TLAPS

USE StoreAssumption

(* Nothing is saved and nothing is on disk.                                *)
LEMMA InitIndInv == Init => IndInv
<1> SUFFICES ASSUME Init PROVE IndInv
    OBVIOUS
<1>1. TypeOK
    BY DEF Init, TypeOK, Content, Unreadable
<1>2. OneSave /\ SaveInOrder /\ NamesDiffer
    BY DEF Init, OneSave, SaveInOrder, NamesDiffer, Saving
<1>3. FileIsReadable /\ RestartFindsRecent /\ tasks \in recent
    BY DEF Init, FileIsReadable, RestartFindsRecent, Stored
<1> QED
    BY <1>1, <1>2, <1>3 DEF IndInv

(* A request adds its list to the recent ones and starts the only save.    *)
LEMMA RequestInv ==
    ASSUME IndInv, Serial, NEW L \in SUBSET Task, Request(L)
    PROVE  IndInv'
<1>1. PICK s \in Saver :
         save' = [save EXCEPT ![s] = [list |-> L, step |-> "open", file |-> None]]
    BY DEF Request
<1>2. /\ \A q \in Saver : ~Saving(q)
      /\ up /\ tasks' = L /\ recent' = recent \cup {L}
      /\ UNCHANGED <<up, tmp, json, data>>
    BY DEF Request, Quiet
<1>3. TypeOK'
  <2>1. [list |-> L, step |-> "open", file |-> None] \in Save
    BY DEF Save
  <2> QED
    BY <1>1, <1>2, <2>1 DEF IndInv, TypeOK
<1>4. \A q \in Saver : Saving(q)' => q = s
    BY <1>1, <1>2 DEF IndInv, TypeOK, Saving
<1>5. save'[s] = [list |-> L, step |-> "open", file |-> None]
    BY <1>1 DEF IndInv, TypeOK
<1>6. OneSave' /\ SaveInOrder'
    BY <1>2, <1>4, <1>5 DEF OneSave, SaveInOrder
<1>7. NamesDiffer' /\ FileIsReadable' /\ RestartFindsRecent' /\ (up => tasks \in recent)'
    BY <1>2 DEF IndInv, NamesDiffer, FileIsReadable, RestartFindsRecent, Stored
<1> QED
    BY <1>3, <1>6, <1>7 DEF IndInv

(* The temporary file is another than the one under the final name.        *)
LEMMA OpensInv ==
    ASSUME IndInv, NEW s \in Saver, SaveOpens(s)
    PROVE  IndInv'
<1>1. PICK i \in Inode :
         /\ OpenTmp(s, i)
         /\ data' = [data EXCEPT ![i] = Unreadable]
         /\ save' = [save EXCEPT ![s].step = "write", ![s].file = i]
    BY DEF SaveOpens
<1>2. /\ Saving(s) /\ save[s] \in Save /\ save[s].list = tasks /\ tasks \in recent
      /\ up /\ tmp' = i /\ i # json /\ UNCHANGED <<up, tasks, recent, json>>
    BY <1>1 DEF SaveOpens, At, OpenTmp, IndInv, TypeOK, SaveInOrder, NamesDiffer, Saving
<1>3. /\ save'[s].list = tasks /\ save'[s].step = "write" /\ save'[s].file = i
      /\ save'[s] \in Save /\ \A q \in Saver \ {s} : ~Saving(q) /\ ~Saving(q)'
    BY <1>1, <1>2 DEF IndInv, TypeOK, OneSave, Save, Saving
<1>4. save' \in [Saver -> Save \cup {None}] /\ data' \in [Inode -> Content]
    BY <1>1, <1>3 DEF IndInv, TypeOK, Unreadable, Content
<1>5. TypeOK'
    BY <1>2, <1>4 DEF IndInv, TypeOK
<1>o. ~data'[i].readable
    BY <1>1 DEF IndInv, TypeOK, Unreadable
<1>6. OneSave' /\ SaveInOrder' /\ NamesDiffer'
    BY <1>2, <1>3, <1>o DEF OneSave, SaveInOrder, NamesDiffer
<1>7. \A j \in Inode \ {i} : data'[j] = data[j]
    BY <1>1 DEF IndInv, TypeOK
<1>8. FileIsReadable' /\ RestartFindsRecent' /\ (up => tasks \in recent)'
    BY <1>2, <1>7 DEF IndInv, TypeOK, FileIsReadable, RestartFindsRecent, Stored
<1> QED
    BY <1>5, <1>6, <1>8 DEF IndInv

(* The temporary file is empty when the only save writes it.               *)
LEMMA WritesInv ==
    ASSUME IndInv, NEW s \in Saver, SaveWrites(s)
    PROVE  IndInv'
<1>1. /\ Saving(s) /\ save[s] \in Save /\ save[s].list = tasks /\ tasks \in recent
      /\ up /\ save[s].file = tmp /\ tmp \in Inode /\ tmp # json
      /\ ~data[tmp].readable /\ UNCHANGED <<up, tasks, tmp, json, recent>>
    BY DEF SaveWrites, At, IndInv, TypeOK, SaveInOrder, NamesDiffer, Saving, Save
<1>2. /\ data' = [data EXCEPT ![tmp] = Listing(tasks)]
      /\ save' = [save EXCEPT ![s].step = "rename"]
    BY <1>1 DEF SaveWrites
<1>3. /\ save'[s].list = tasks /\ save'[s].step = "rename" /\ save'[s].file = tmp
      /\ save'[s] \in Save /\ \A q \in Saver \ {s} : ~Saving(q) /\ ~Saving(q)'
    BY <1>1, <1>2 DEF IndInv, TypeOK, OneSave, Save, Saving
<1>4. save' \in [Saver -> Save \cup {None}] /\ data' \in [Inode -> Content]
    BY <1>1, <1>2, <1>3 DEF IndInv, TypeOK, Listing, Content
<1>5. TypeOK'
    BY <1>1, <1>4 DEF IndInv, TypeOK
<1>6. data'[tmp] = Listing(tasks) /\ \A j \in Inode \ {tmp} : data'[j] = data[j]
    BY <1>1, <1>2 DEF IndInv, TypeOK
<1>7. OneSave' /\ SaveInOrder' /\ NamesDiffer'
    BY <1>1, <1>3, <1>6 DEF IndInv, OneSave, SaveInOrder, NamesDiffer
<1>8. FileIsReadable' /\ RestartFindsRecent' /\ (up => tasks \in recent)'
    BY <1>1, <1>6 DEF IndInv, TypeOK, FileIsReadable, RestartFindsRecent, Stored
<1> QED
    BY <1>5, <1>7, <1>8 DEF IndInv

(* The file that is renamed holds the list that is in memory.              *)
LEMMA RenamesInv ==
    ASSUME IndInv, NEW s \in Saver, SaveRenames(s)
    PROVE  IndInv'
<1>1. /\ Saving(s) /\ save[s].list = tasks /\ up
      /\ tmp \in Inode /\ data[tmp] = Listing(tasks)
      /\ UNCHANGED <<up, tasks, data>>
    BY DEF SaveRenames, At, IndInv, TypeOK, SaveInOrder, Saving, Save
<1>2. /\ json' = tmp /\ tmp' = None /\ recent' = {tasks}
      /\ save' = [save EXCEPT ![s] = None]
    BY <1>1 DEF SaveRenames, Ends
<1>3. \A q \in Saver : ~Saving(q)'
    BY <1>1, <1>2 DEF IndInv, TypeOK, OneSave, Saving
<1>4. TypeOK'
    BY <1>1, <1>2 DEF IndInv, TypeOK
<1>5. OneSave' /\ SaveInOrder' /\ NamesDiffer'
    BY <1>2, <1>3 DEF OneSave, SaveInOrder, NamesDiffer
<1>6. FileIsReadable' /\ RestartFindsRecent' /\ (up => tasks \in recent)'
    BY <1>1, <1>2 DEF FileIsReadable, RestartFindsRecent, Stored, Listing
<1> QED
    BY <1>4, <1>5, <1>6 DEF IndInv

(* Whatever ends a save spoils the temporary file at most.                 *)
LEMMA SpoiledTmp ==
    ASSUME IndInv, NEW T \in SUBSET Task, NEW u \in BOOLEAN, NEW R \in SUBSET SUBSET Task,
           up' = u, tasks' = T, recent' = R, UNCHANGED <<tmp, json>>,
           save' \in [Saver -> Save \cup {None}], \A q \in Saver : ~Saving(q)',
           data' \in [Inode -> Content],
           json # None => data'[json] = data[json],
           Stored \in R, u => T \in R
    PROVE  IndInv'
<1>1. TypeOK'
    BY DEF IndInv, TypeOK
<1>2. OneSave' /\ SaveInOrder' /\ NamesDiffer'
    BY DEF IndInv, OneSave, SaveInOrder, NamesDiffer
<1>3. FileIsReadable' /\ RestartFindsRecent' /\ (up => tasks \in recent)'
    BY DEF IndInv, FileIsReadable, RestartFindsRecent, Stored
<1> QED
    BY <1>1, <1>2, <1>3 DEF IndInv

(* A save that fails leaves the file under the final name alone.           *)
LEMMA FailsInv ==
    ASSUME IndInv, NEW s \in Saver, SaveFails(s)
    PROVE  IndInv'
<1>1. /\ Saving(s) /\ save' = [save EXCEPT ![s] = None]
      /\ UNCHANGED <<up, tasks, tmp, json, recent>>
    BY DEF SaveFails, Failure, Ends
<1>2. save' \in [Saver -> Save \cup {None}] /\ \A q \in Saver : ~Saving(q)'
    BY <1>1 DEF IndInv, TypeOK, OneSave, Saving
<1>3. data' \in [Inode -> Content] /\ (json # None => data'[json] = data[json])
  <2>1. CASE At(s, "write")
    <3>1. save[s].file = tmp /\ tmp # json /\ data' = [data EXCEPT ![tmp] = Unreadable]
        BY <2>1 DEF At, SaveFails, Failure, IndInv, TypeOK, SaveInOrder, NamesDiffer
    <3> QED
        BY <3>1 DEF IndInv, TypeOK, Unreadable, Content
  <2>2. CASE ~At(s, "write")
    BY <2>2 DEF SaveFails, Failure, IndInv, TypeOK
  <2> QED
    BY <2>1, <2>2
<1>4. tasks \in SUBSET Task /\ up \in BOOLEAN /\ recent \in SUBSET SUBSET Task
    BY DEF IndInv, TypeOK
<1>5. Stored \in recent /\ (up => tasks \in recent)
    BY DEF IndInv, RestartFindsRecent
<1> QED
    BY <1>1, <1>2, <1>3, <1>4, <1>5, SpoiledTmp

(* A kill spoils the temporary file at most.                               *)
LEMMA CrashInv ==
    ASSUME IndInv, Crash
    PROVE  IndInv'
<1>1. PICK torn \in SUBSET {save[s].file : s \in {q \in Saver : At(q, "write")}} :
         data' = [i \in Inode |-> IF i \in torn THEN Unreadable ELSE data[i]]
    BY DEF Crash
<1>2. json \notin torn
    BY <1>1 DEF At, IndInv, TypeOK, SaveInOrder, NamesDiffer
<1>3. data' \in [Inode -> Content] /\ (json # None => data'[json] = data[json])
    BY <1>1, <1>2 DEF IndInv, TypeOK, Unreadable, Content
<1>4. /\ up' = FALSE /\ tasks' = {} /\ UNCHANGED <<tmp, json, recent>>
      /\ save' \in [Saver -> Save \cup {None}] /\ \A q \in Saver : ~Saving(q)'
    BY DEF Crash, Saving
<1>5. recent \in SUBSET SUBSET Task /\ Stored \in recent /\ {} \in SUBSET Task
    BY DEF IndInv, TypeOK, RestartFindsRecent
<1> QED
    BY <1>3, <1>4, <1>5, SpoiledTmp

(* A restart reads the file and changes nothing.                           *)
LEMMA LoadInv ==
    ASSUME IndInv, Load
    PROVE  IndInv'
<1>1. /\ up' = TRUE /\ tasks' = Stored /\ recent' = {Stored}
      /\ UNCHANGED <<save, tmp, json, data>> /\ ~up
    BY DEF Load
<1>2. Stored \in SUBSET Task /\ {Stored} \in SUBSET SUBSET Task
    BY DEF IndInv, TypeOK, Stored, Content
<1>3. save' \in [Saver -> Save \cup {None}] /\ \A q \in Saver : ~Saving(q)'
    BY <1>1 DEF IndInv, TypeOK, SaveInOrder, Saving
<1>4. data' \in [Inode -> Content]
    BY <1>1 DEF IndInv, TypeOK
<1> QED
    BY <1>1, <1>2, <1>3, <1>4, SpoiledTmp

(* A stuttering step keeps the invariant.                                  *)
LEMMA StutterInv ==
    ASSUME IndInv, UNCHANGED vars
    PROVE  IndInv'
<1>1. TypeOK' /\ OneSave' /\ NamesDiffer'
    BY DEF vars, IndInv, TypeOK, OneSave, Saving, NamesDiffer
<1>2. SaveInOrder'
    BY DEF vars, IndInv, SaveInOrder, Saving
<1>3. FileIsReadable' /\ RestartFindsRecent' /\ (up => tasks \in recent)'
    BY DEF vars, IndInv, FileIsReadable, RestartFindsRecent, Stored
<1> QED
    BY <1>1, <1>2, <1>3 DEF IndInv

(* With serial requests IndInv holds throughout, and with it the two       *)
(* promises of the task file.                                              *)
THEOREM Invariance == Serial /\ Spec => []IndInv
<1> SUFFICES ASSUME Serial PROVE Spec => []IndInv
    OBVIOUS
<1>1. IndInv /\ [Next]_vars => IndInv'
  <2> SUFFICES ASSUME IndInv, [Next]_vars PROVE IndInv'
    OBVIOUS
  <2>1. CASE \E t \in Task : Start(t) \/ Stop(t)
    <3>1. PICK t \in Task : Start(t) \/ Stop(t)
        BY <2>1
    <3>2. tasks \cup {t} \in SUBSET Task /\ tasks \ {t} \in SUBSET Task
        BY DEF IndInv, TypeOK
    <3> QED
        BY <3>1, <3>2, RequestInv DEF Start, Stop
  <2>2. CASE \E s \in Saver : SaveStep(s)
    BY <2>2, OpensInv, WritesInv, RenamesInv, FailsInv DEF SaveStep
  <2>3. CASE Crash \/ Load
    BY <2>3, CrashInv, LoadInv
  <2>4. CASE UNCHANGED vars
    BY <2>4, StutterInv
  <2> QED
    BY <2>1, <2>2, <2>3, <2>4 DEF Next
<1> QED
    BY <1>1, InitIndInv, PTL DEF Spec

(* The task file can be parsed at every moment, so that a kill loses none  *)
(* of it.                                                                  *)
THEOREM AlwaysReadable == Serial /\ Spec => []FileIsReadable
<1>1. IndInv => FileIsReadable
    BY DEF IndInv
<1> QED
    BY <1>1, Invariance, PTL

(* A restart finds the last list that was saved or one asked for since.    *)
THEOREM RestartsFindRecent == Serial /\ Spec => []RestartFindsRecent
<1>1. IndInv => RestartFindsRecent
    BY DEF IndInv
<1> QED
    BY <1>1, Invariance, PTL

-----------------------------------------------------------------------------
(* Each step, as one of SavedTasks.                                        *)

LEMMA OpensStores ==
    ASSUME IndInv, NEW s \in Saver, SaveOpens(s)
    PROVE  UNCHANGED <<up, tasks, Stored>>
<1>1. PICK i \in Inode : OpenTmp(s, i) /\ data' = [data EXCEPT ![i] = Unreadable]
    BY DEF SaveOpens
<1>2. i # json /\ UNCHANGED <<up, tasks, json>>
    BY <1>1 DEF SaveOpens, OpenTmp, IndInv, NamesDiffer, TypeOK
<1>3. json # None => data'[json] = data[json]
    BY <1>1, <1>2 DEF IndInv, TypeOK
<1> QED
    BY <1>2, <1>3 DEF Stored

LEMMA WritesStores ==
    ASSUME IndInv, NEW s \in Saver, SaveWrites(s)
    PROVE  UNCHANGED <<up, tasks, Stored>>
<1>1. save[s].file = tmp /\ tmp # None /\ tmp # json /\ UNCHANGED <<up, tasks, json>>
    BY DEF SaveWrites, At, IndInv, SaveInOrder, NamesDiffer
<1>2. PICK c : data' = [data EXCEPT ![save[s].file] = c]
    BY DEF SaveWrites
<1>3. json # None => data'[json] = data[json]
    BY <1>1, <1>2 DEF IndInv, TypeOK
<1> QED
    BY <1>1, <1>3 DEF Stored

LEMMA RenamesStores ==
    ASSUME IndInv, NEW s \in Saver, SaveRenames(s)
    PROVE  File!Settle
<1>1. /\ Saving(s) /\ up /\ tmp # None /\ data[tmp] = Listing(tasks)
      /\ UNCHANGED <<up, tasks, data>>
    BY DEF SaveRenames, At, IndInv, SaveInOrder
<1>2. json' = tmp
    BY <1>1 DEF SaveRenames
<1>3. Stored' = tasks
    BY <1>1, <1>2 DEF Stored, Listing
<1> QED
    BY <1>1, <1>3 DEF File!Settle

LEMMA FailsStores ==
    ASSUME IndInv, NEW s \in Saver, SaveFails(s)
    PROVE  UNCHANGED <<up, tasks, Stored>>
<1>1. CASE At(s, "write")
  <2>1. save[s].file = tmp /\ tmp # None /\ tmp # json /\ UNCHANGED <<up, tasks, json>>
      BY <1>1 DEF SaveFails, At, IndInv, SaveInOrder, NamesDiffer
  <2>2. json # None => data'[json] = data[json]
      BY <1>1, <2>1 DEF SaveFails, Failure, IndInv, TypeOK
  <2> QED
      BY <2>1, <2>2 DEF Stored
<1>2. CASE ~At(s, "write")
    BY <1>2 DEF SaveFails, Failure, Stored
<1> QED
    BY <1>1, <1>2

LEMMA CrashStores ==
    ASSUME IndInv, Crash
    PROVE  File!Kill
<1>1. PICK torn \in SUBSET {save[s].file : s \in {q \in Saver : At(q, "write")}} :
         data' = [i \in Inode |-> IF i \in torn THEN Unreadable ELSE data[i]]
    BY DEF Crash
<1>2. \A i \in torn : i # json
    BY <1>1 DEF At, IndInv, SaveInOrder, NamesDiffer
<1>3. UNCHANGED json /\ (json # None => data'[json] = data[json])
    BY <1>1, <1>2 DEF Crash, IndInv, TypeOK
<1>4. UNCHANGED Stored
    BY <1>3 DEF Stored
<1> QED
    BY <1>4 DEF Crash, File!Kill

(* The six steps of a save, which share files whose names come and go, are *)
(* to the daemon and whoever starts it again one replacement of the list.  *)
THEOREM OneListIsKept == Serial /\ Spec => KeepsOneList
<1> SUFFICES ASSUME Serial PROVE Spec => KeepsOneList
    OBVIOUS
<1>1. Init => File!Init
    BY DEF Init, File!Init, Stored
<1>2. IndInv /\ [Next]_vars => [File!Next]_(File!vars)
  <2> SUFFICES ASSUME IndInv, [Next]_vars PROVE [File!Next]_(File!vars)
    OBVIOUS
  <2>1. ASSUME NEW t \in Task, Start(t) \/ Stop(t)
        PROVE  File!Next
    <3>1. UNCHANGED <<up, Stored>> /\ up
        BY <2>1 DEF Start, Stop, Request, Stored
    <3> QED
        BY <2>1, <3>1 DEF Start, Stop, Request, File!Next, File!Change
  <2>2. ASSUME NEW s \in Saver, SaveStep(s)
        PROVE  [File!Next]_(File!vars)
    BY <2>2, OpensStores, WritesStores, RenamesStores, FailsStores
       DEF SaveStep, File!Next, File!vars
  <2>3. CASE Crash
    BY <2>3, CrashStores DEF File!Next
  <2>4. CASE Load
    BY <2>4 DEF Load, Stored, File!Next, File!Restart
  <2>5. CASE UNCHANGED vars
    BY <2>5 DEF vars, File!vars, Stored
  <2> QED
    BY <2>1, <2>2, <2>3, <2>4, <2>5 DEF Next
<1> QED
    BY <1>1, <1>2, Invariance, PTL DEF Spec, KeepsOneList, File!Spec

=============================================================================
