-------------------------- MODULE SyncWorkerProofs --------------------------
(***************************************************************************)
(* Proofs about SyncWorker for any tasks and workers: what a worker says   *)
(* of a round is what its own rsync did, and IDLE means that the replica   *)
(* is a copy.  WorkersInv is inductive: one lemma per action, each with    *)
(* the state of the worker after it, and one step per part of Sound.       *)
(***************************************************************************)
EXTENDS SyncWorker, TLAPS

USE WorkerAssumption, NoneAssumption

-----------------------------------------------------------------------------
(* What is sound of the values after a step.                               *)
LEMMA SoundThen ==
    ASSUME NEW u,
           Sound(worker'[u], status'[TaskOf(u)'], origin'[TaskOf(u)'], replica'[TaskOf(u)'])
    PROVE  Sound(worker[u], status[TaskOf(u)], origin[TaskOf(u)], replica[TaskOf(u)])'
BY Zenon DEF TaskOf, Sound, Counted, Copied, Watching, IdleIsOwn, StatusIsOwn, Heard, IsShown

(* A step of a worker changes its record, the status and the replica of    *)
(* its task, which is nobody else's.                                       *)
LEMMA Goes ==
    ASSUME WorkersInv, NEW w \in Live,
           NEW r \in WorkerState, r.task = TaskOf(w),
           NEW s \in Status \cup {None}, NEW c \in Version \cup {Mixed},
           Sound(r, s, origin[TaskOf(w)], c),
           worker' = [worker EXCEPT ![w] = r],
           status' = [status EXCEPT ![TaskOf(w)] = s],
           replica' = [replica EXCEPT ![TaskOf(w)] = c],
           UNCHANGED origin
    PROVE  WorkersInv'
<1>0. w \in Worker /\ TaskOf(w) \in Task
    BY DEF WorkersInv, TypeOK, Live, TaskOf, WorkerState
<1>1. TypeOK'
    BY <1>0 DEF WorkersInv, TypeOK
<1>2. Live' = Live /\ \A u \in Live : TaskOf(u)' = TaskOf(u)
    BY <1>0 DEF WorkersInv, TypeOK, Live, TaskOf
<1>3. ASSUME NEW u \in Live
      PROVE  Sound(worker[u], status[TaskOf(u)], origin[TaskOf(u)], replica[TaskOf(u)])'
  <2>0. Sound(worker[u], status[TaskOf(u)], origin[TaskOf(u)], replica[TaskOf(u)])
    BY DEF WorkersInv
  <2>1. TaskOf(u)' = TaskOf(u) /\ TaskOf(u) \in Task /\ u \in Worker
    BY <1>2 DEF WorkersInv, TypeOK, Live, TaskOf, WorkerState
  <2>2. CASE u = w
    <3>1. /\ worker'[u] = r /\ status'[TaskOf(u)] = s
          /\ origin'[TaskOf(u)] = origin[TaskOf(u)] /\ replica'[TaskOf(u)] = c
        BY <1>0, <2>2 DEF WorkersInv, TypeOK
    <3> QED
        BY <2>1, <2>2, <3>1, SoundThen
  <2>3. CASE u # w
    <3>1. TaskOf(u) # TaskOf(w)
        BY <2>3 DEF WorkersInv
    <3>2. /\ worker'[u] = worker[u] /\ status'[TaskOf(u)] = status[TaskOf(u)]
          /\ origin'[TaskOf(u)] = origin[TaskOf(u)]
          /\ replica'[TaskOf(u)] = replica[TaskOf(u)]
        BY <1>0, <2>1, <2>3, <3>1 DEF WorkersInv, TypeOK
    <3> QED
        BY <2>0, <2>1, <3>2, SoundThen
  <2> QED
    BY <2>2, <2>3
<1> QED
    BY <1>1, <1>2, <1>3 DEF WorkersInv

(* What is known of a worker that is there and of its task.                *)
LEMMA Known ==
    ASSUME WorkersInv, NEW w \in Worker, worker[w] # None
    PROVE  /\ w \in Live /\ worker[w] \in WorkerState
           /\ TaskOf(w) \in Task /\ worker[w].task = TaskOf(w)
           /\ status[TaskOf(w)] \in Status \cup {None}
           /\ origin[TaskOf(w)] \in Version
           /\ replica[TaskOf(w)] \in Version \cup {Mixed}
           /\ Sound(worker[w], status[TaskOf(w)], origin[TaskOf(w)], replica[TaskOf(w)])
BY DEF WorkersInv, TypeOK, Live, TaskOf, WorkerState

LEMMA StatusKept ==
    ASSUME WorkersInv, NEW t \in Task, UNCHANGED status
    PROVE  status' = [status EXCEPT ![t] = status[t]]
BY DEF WorkersInv, TypeOK

LEMMA ReplicaKept ==
    ASSUME WorkersInv, NEW t \in Task, UNCHANGED replica
    PROVE  replica' = [replica EXCEPT ![t] = replica[t]]
BY DEF WorkersInv, TypeOK

(* The status after an update to x, which a task that is gone ignores.     *)
Shown(t, x) == IF status[t] = None THEN None ELSE x

LEMMA StatusSet ==
    ASSUME WorkersInv, NEW t \in Task, NEW x \in Status, UpdateStatus(t, x)
    PROVE  status' = [status EXCEPT ![t] = Shown(t, x)]
BY DEF WorkersInv, TypeOK, UpdateStatus, StatusUpdated, Shown

LEMMA ShownAs ==
    ASSUME NEW t \in Task, NEW x \in Status
    PROVE  /\ Shown(t, x) \in Status \cup {None}
           /\ IsShown(Shown(t, x)) => Shown(t, x) = x /\ IsShown(status[t])
           /\ Shown(t, x) = "IDLE" => x = "IDLE"
BY DEF Shown, IsShown, Status

-----------------------------------------------------------------------------
(* One lemma per step of a worker.                                         *)

LEMMA RsyncStartStep ==
    ASSUME WorkersInv, NEW w \in Worker, RsyncStart(w)
    PROVE  WorkersInv'
<1> DEFINE t == TaskOf(w)
           old == worker[w]
           r == [old EXCEPT !.at = "rsync", !.rsync = "running",
                            !.read = None, !.reading = TRUE]
           s == Shown(t, "SYNCING")
<1>1. old # None /\ old.at = "attempt"
    BY DEF RsyncStart, At
<1>2. /\ old \in WorkerState /\ w \in Live /\ t \in Task /\ old.task = t
      /\ status[t] \in Status \cup {None} /\ origin[t] \in Version /\ replica[t] \in Version \cup {Mixed}
      /\ Sound(old, status[t], origin[t], replica[t])
    BY <1>1, Known
<1>s. /\ s \in Status \cup {None}
      /\ IsShown(s) => s = "SYNCING" /\ IsShown(status[t])
      /\ s = "IDLE" => "SYNCING" = "IDLE"
    BY <1>2, ShownAs DEF Status
<1> HIDE DEF s
<1>3. "rsync" \in Place
    BY <1>1, <1>2 DEF WorkerState, Place
<1>4. r \in WorkerState /\ r.task = t
    BY <1>1, <1>2, <1>3 DEF WorkerState
<1>a. Counted(r)
    BY <1>s, <1>1, <1>2, <1>3 DEF WorkerState, Sound, Counted
<1>b. Copied(r, replica[t])
    BY <1>1, <1>2, <1>3 DEF WorkerState, Sound, Copied
<1>c. Watching(r, origin[t])
    BY <1>1, <1>2, <1>3 DEF WorkerState, Sound, Watching
<1>d. IdleIsOwn(r, s)
    BY <1>s, <1>1, <1>2, <1>3 DEF WorkerState, Sound, IdleIsOwn
<1>e. ~LateReader => StatusIsOwn(r, s)
    BY <1>s, <1>1, <1>2, <1>3 DEF WorkerState, Sound, IdleIsOwn, StatusIsOwn
<1>f. ~EarlyEdits => Heard(r, origin[t])
    BY <1>s, <1>1, <1>2, <1>3 DEF WorkerState, Sound, Heard
<1>5. worker' = [worker EXCEPT ![w] = r] /\ UNCHANGED origin
    BY <1>1 DEF RsyncStart
<1>6. status' = [status EXCEPT ![t] = s]
    BY <1>1, <1>2, StatusSet DEF s, Status, RsyncStart
<1>7. replica' = [replica EXCEPT ![t] = replica[t]]
    BY <1>2, ReplicaKept DEF RsyncStart
<1>8. s \in Status \cup {None} /\ replica[t] \in Version \cup {Mixed}
    BY <1>s, <1>1, <1>2 DEF WorkerState, Status
<1> HIDE DEF t, old, r
<1>9. Sound(r, s, origin[t], replica[t])
    BY <1>a, <1>b, <1>c, <1>d, <1>e, <1>f DEF Sound
<1> QED
    BY <1>2, <1>4, <1>5, <1>6, <1>7, <1>8, <1>9, Goes DEF t

LEMMA RsyncReadsStep ==
    ASSUME WorkersInv, NEW w \in Worker, RsyncReads(w)
    PROVE  WorkersInv'
<1> DEFINE t == TaskOf(w)
           old == worker[w]
           r == [old EXCEPT !.read = origin[t]]
<1>1. old # None /\ old.rsync = "running" /\ old.read = None
    BY DEF RsyncReads, RsyncRunning
<1>2. /\ old \in WorkerState /\ w \in Live /\ t \in Task /\ old.task = t
      /\ status[t] \in Status \cup {None} /\ origin[t] \in Version /\ replica[t] \in Version \cup {Mixed}
      /\ Sound(old, status[t], origin[t], replica[t])
    BY <1>1, Known
<1>4. r \in WorkerState /\ r.task = t
    BY <1>1, <1>2 DEF WorkerState
<1>a. Counted(r)
    BY <1>1, <1>2 DEF WorkerState, Sound, Counted
<1>b. Copied(r, replica[t])
    BY <1>1, <1>2 DEF WorkerState, Sound, Copied
<1>c. Watching(r, origin[t])
    BY <1>1, <1>2 DEF WorkerState, Sound, Watching, Version
<1>d. IdleIsOwn(r, status[t])
    BY <1>1, <1>2 DEF WorkerState, Sound, IdleIsOwn
<1>e. ~LateReader => StatusIsOwn(r, status[t])
    BY <1>1, <1>2 DEF WorkerState, Sound, IdleIsOwn, StatusIsOwn
<1>f. ~EarlyEdits => Heard(r, origin[t])
    BY <1>1, <1>2 DEF WorkerState, Sound, Heard, Watching, Version
<1>5. worker' = [worker EXCEPT ![w] = r] /\ UNCHANGED origin
    BY <1>1 DEF RsyncReads
<1>6. status' = [status EXCEPT ![t] = status[t]]
    BY <1>1, <1>2, StatusKept DEF RsyncReads
<1>7. replica' = [replica EXCEPT ![t] = replica[t]]
    BY <1>2, ReplicaKept DEF RsyncReads
<1>8. status[t] \in Status \cup {None} /\ replica[t] \in Version \cup {Mixed}
    BY <1>1, <1>2 DEF WorkerState
<1> HIDE DEF t, old, r
<1>9. Sound(r, status[t], origin[t], replica[t])
    BY <1>a, <1>b, <1>c, <1>d, <1>e, <1>f DEF Sound
<1> QED
    BY <1>2, <1>4, <1>5, <1>6, <1>7, <1>8, <1>9, Goes DEF t

LEMMA RsyncSucceedsStep ==
    ASSUME WorkersInv, NEW w \in Worker, RsyncSucceeds(w)
    PROVE  WorkersInv'
<1> DEFINE t == TaskOf(w)
           old == worker[w]
           r == [old EXCEPT !.rsync = "ok"]
           c == old.read
<1>1. old # None /\ old.rsync = "running" /\ old.read # None
    BY DEF RsyncSucceeds, RsyncRunning
<1>2. /\ old \in WorkerState /\ w \in Live /\ t \in Task /\ old.task = t
      /\ status[t] \in Status \cup {None} /\ origin[t] \in Version /\ replica[t] \in Version \cup {Mixed}
      /\ Sound(old, status[t], origin[t], replica[t])
    BY <1>1, Known
<1>4. r \in WorkerState /\ r.task = t
    BY <1>1, <1>2 DEF WorkerState
<1>a. Counted(r)
    BY <1>1, <1>2 DEF WorkerState, Sound, Counted
<1>b. Copied(r, c)
    BY <1>1, <1>2 DEF WorkerState, Sound, Copied
<1>c. Watching(r, origin[t])
    BY <1>1, <1>2 DEF WorkerState, Sound, Watching
<1>d. IdleIsOwn(r, status[t])
    BY <1>1, <1>2 DEF WorkerState, Sound, IdleIsOwn
<1>e. ~LateReader => StatusIsOwn(r, status[t])
    BY <1>1, <1>2 DEF WorkerState, Sound, IdleIsOwn, StatusIsOwn
<1>f. ~EarlyEdits => Heard(r, origin[t])
    BY <1>1, <1>2 DEF WorkerState, Sound, Heard
<1>5. worker' = [worker EXCEPT ![w] = r] /\ UNCHANGED origin
    BY <1>1 DEF RsyncSucceeds
<1>6. status' = [status EXCEPT ![t] = status[t]]
    BY <1>1, <1>2, StatusKept DEF RsyncSucceeds
<1>7. replica' = [replica EXCEPT ![t] = c]
    BY <1>2 DEF RsyncSucceeds
<1>8. status[t] \in Status \cup {None} /\ c \in Version \cup {Mixed}
    BY <1>1, <1>2 DEF WorkerState
<1> HIDE DEF t, old, r, c
<1>9. Sound(r, status[t], origin[t], c)
    BY <1>a, <1>b, <1>c, <1>d, <1>e, <1>f DEF Sound
<1> QED
    BY <1>2, <1>4, <1>5, <1>6, <1>7, <1>8, <1>9, Goes DEF t

LEMMA RsyncFailsStep ==
    ASSUME WorkersInv, NEW w \in Worker, RsyncFails(w)
    PROVE  WorkersInv'
<1>0. PICK c \in {replica[TaskOf(w)]} \cup (IF worker[w].read = None THEN {} ELSE {Mixed}) :
         replica' = [replica EXCEPT ![TaskOf(w)] = c]
    BY DEF RsyncFails
<1> DEFINE t == TaskOf(w)
           old == worker[w]
           r == [old EXCEPT !.rsync = "failed"]
<1>1. old # None /\ old.rsync = "running"
    BY <1>0 DEF RsyncFails, RsyncRunning
<1>2. /\ old \in WorkerState /\ w \in Live /\ t \in Task /\ old.task = t
      /\ status[t] \in Status \cup {None} /\ origin[t] \in Version /\ replica[t] \in Version \cup {Mixed}
      /\ Sound(old, status[t], origin[t], replica[t])
    BY <1>1, Known
<1>4. r \in WorkerState /\ r.task = t
    BY <1>1, <1>2 DEF WorkerState
<1>a. Counted(r)
    BY <1>1, <1>2 DEF WorkerState, Sound, Counted
<1>b. Copied(r, c)
    BY <1>1, <1>2 DEF WorkerState, Sound, Copied
<1>c. Watching(r, origin[t])
    BY <1>1, <1>2 DEF WorkerState, Sound, Watching
<1>d. IdleIsOwn(r, status[t])
    BY <1>1, <1>2 DEF WorkerState, Sound, IdleIsOwn
<1>e. ~LateReader => StatusIsOwn(r, status[t])
    BY <1>1, <1>2 DEF WorkerState, Sound, IdleIsOwn, StatusIsOwn
<1>f. ~EarlyEdits => Heard(r, origin[t])
    BY <1>1, <1>2 DEF WorkerState, Sound, Heard
<1>5. worker' = [worker EXCEPT ![w] = r] /\ UNCHANGED origin
    BY <1>0, <1>1 DEF RsyncFails
<1>6. status' = [status EXCEPT ![t] = status[t]]
    BY <1>1, <1>2, StatusKept DEF RsyncFails
<1>7. replica' = [replica EXCEPT ![t] = c]
    BY <1>0, <1>2 DEF RsyncFails
<1>8. status[t] \in Status \cup {None} /\ c \in Version \cup {Mixed}
    BY <1>0, <1>1, <1>2 DEF WorkerState
<1> HIDE DEF t, old, r
<1>9. Sound(r, status[t], origin[t], c)
    BY <1>a, <1>b, <1>c, <1>d, <1>e, <1>f DEF Sound
<1> QED
    BY <1>2, <1>4, <1>5, <1>6, <1>7, <1>8, <1>9, Goes DEF t

LEMMA ReaderEndsStep ==
    ASSUME WorkersInv, NEW w \in Worker, ReaderEnds(w)
    PROVE  WorkersInv'
<1> DEFINE t == TaskOf(w)
           old == worker[w]
           r == [old EXCEPT !.reading = FALSE]
<1>1. old # None /\ old.rsync # "running"
    BY DEF ReaderEnds
<1>2. /\ old \in WorkerState /\ w \in Live /\ t \in Task /\ old.task = t
      /\ status[t] \in Status \cup {None} /\ origin[t] \in Version /\ replica[t] \in Version \cup {Mixed}
      /\ Sound(old, status[t], origin[t], replica[t])
    BY <1>1, Known
<1>4. r \in WorkerState /\ r.task = t
    BY <1>1, <1>2 DEF WorkerState
<1>a. Counted(r)
    BY <1>1, <1>2 DEF WorkerState, Sound, Counted
<1>b. Copied(r, replica[t])
    BY <1>1, <1>2 DEF WorkerState, Sound, Copied
<1>c. Watching(r, origin[t])
    BY <1>1, <1>2 DEF WorkerState, Sound, Watching
<1>d. IdleIsOwn(r, status[t])
    BY <1>1, <1>2 DEF WorkerState, Sound, IdleIsOwn
<1>e. ~LateReader => StatusIsOwn(r, status[t])
    BY <1>1, <1>2 DEF WorkerState, Sound, IdleIsOwn, StatusIsOwn
<1>f. ~EarlyEdits => Heard(r, origin[t])
    BY <1>1, <1>2 DEF WorkerState, Sound, Heard
<1>5. worker' = [worker EXCEPT ![w] = r] /\ UNCHANGED origin
    BY <1>1 DEF ReaderEnds
<1>6. status' = [status EXCEPT ![t] = status[t]]
    BY <1>1, <1>2, StatusKept DEF ReaderEnds
<1>7. replica' = [replica EXCEPT ![t] = replica[t]]
    BY <1>2, ReplicaKept DEF ReaderEnds
<1>8. status[t] \in Status \cup {None} /\ replica[t] \in Version \cup {Mixed}
    BY <1>1, <1>2 DEF WorkerState
<1> HIDE DEF t, old, r
<1>9. Sound(r, status[t], origin[t], replica[t])
    BY <1>a, <1>b, <1>c, <1>d, <1>e, <1>f DEF Sound
<1> QED
    BY <1>2, <1>4, <1>5, <1>6, <1>7, <1>8, <1>9, Goes DEF t

LEMMA RsyncReapedStep ==
    ASSUME WorkersInv, NEW w \in Worker, RsyncReaped(w)
    PROVE  WorkersInv'
<1> DEFINE t == TaskOf(w)
           old == worker[w]
           r == [old EXCEPT !.at = "check",
                       !.failures = IF old.rsync = "failed" THEN old.failures + 1
                                                            ELSE old.failures]
           s == Shown(t, ExitStatus(w))
<1>1. old # None /\ old.at = "rsync" /\ old.rsync \in {"ok", "failed"} /\ (LateReader \/ ~old.reading)
    BY DEF RsyncReaped, At
<1>2. /\ old \in WorkerState /\ w \in Live /\ t \in Task /\ old.task = t
      /\ status[t] \in Status \cup {None} /\ origin[t] \in Version /\ replica[t] \in Version \cup {Mixed}
      /\ Sound(old, status[t], origin[t], replica[t])
    BY <1>1, Known
<1>s. /\ s \in Status \cup {None}
      /\ IsShown(s) => s = ExitStatus(w) /\ IsShown(status[t])
      /\ s = "IDLE" => ExitStatus(w) = "IDLE"
    BY <1>2, ShownAs DEF Status, ExitStatus
<1> HIDE DEF s
<1>3. "check" \in Place
      /\ old.failures + 1 \in 0..MaxRetries
    BY <1>1, <1>2 DEF WorkerState, Place, Sound, Counted, MaxRetries
<1>4. r \in WorkerState /\ r.task = t
    BY <1>1, <1>2, <1>3 DEF WorkerState
<1>a. Counted(r)
    BY <1>s, <1>1, <1>2, <1>3 DEF WorkerState, Sound, Counted
<1>b. Copied(r, replica[t])
    BY <1>1, <1>2, <1>3 DEF WorkerState, Sound, Copied
<1>c. Watching(r, origin[t])
    BY <1>1, <1>2, <1>3 DEF WorkerState, Sound, Watching
<1>d. IdleIsOwn(r, s)
    BY <1>s, <1>1, <1>2, <1>3 DEF WorkerState, Sound, IdleIsOwn, ExitStatus
<1>e. ~LateReader => StatusIsOwn(r, s)
    BY <1>s, <1>1, <1>2, <1>3 DEF WorkerState, Sound, IdleIsOwn, StatusIsOwn, ExitStatus
<1>f. ~EarlyEdits => Heard(r, origin[t])
    BY <1>s, <1>1, <1>2, <1>3 DEF WorkerState, Sound, Heard
<1>5. worker' = [worker EXCEPT ![w] = r] /\ UNCHANGED origin
    BY <1>1 DEF RsyncReaped
<1>6. status' = [status EXCEPT ![t] = s]
    BY <1>1, <1>2, StatusSet DEF s, Status, RsyncReaped, ExitStatus
<1>7. replica' = [replica EXCEPT ![t] = replica[t]]
    BY <1>2, ReplicaKept DEF RsyncReaped
<1>8. s \in Status \cup {None} /\ replica[t] \in Version \cup {Mixed}
    BY <1>s, <1>1, <1>2 DEF WorkerState, Status, ExitStatus
<1> HIDE DEF t, old, r
<1>9. Sound(r, s, origin[t], replica[t])
    BY <1>a, <1>b, <1>c, <1>d, <1>e, <1>f DEF Sound
<1> QED
    BY <1>2, <1>4, <1>5, <1>6, <1>7, <1>8, <1>9, Goes DEF t

LEMMA SuccessSeenStep ==
    ASSUME WorkersInv, NEW w \in Worker, SuccessSeen(w)
    PROVE  WorkersInv'
<1> DEFINE t == TaskOf(w)
           old == worker[w]
           r == AfterRound(w)
<1>1. old # None /\ old.at = "check" /\ status[t] = "IDLE"
    BY DEF SuccessSeen, At
<1>2. /\ old \in WorkerState /\ w \in Live /\ t \in Task /\ old.task = t
      /\ status[t] \in Status \cup {None} /\ origin[t] \in Version /\ replica[t] \in Version \cup {Mixed}
      /\ Sound(old, status[t], origin[t], replica[t])
    BY <1>1, Known
<1>3. "select" \in Place /\ "watch" \in Place /\ 0 \in 0..(MaxRetries - 1)
    BY <1>1, <1>2 DEF WorkerState, Place, MaxRetries
<1>4. r \in WorkerState /\ r.task = t
    BY <1>1, <1>2, <1>3 DEF WorkerState, AfterRound
<1>a. Counted(r)
    BY <1>1, <1>2, <1>3 DEF WorkerState, Sound, Counted, AfterRound
<1>b. Copied(r, replica[t])
    BY <1>1, <1>2, <1>3 DEF WorkerState, Sound, Copied, AfterRound
<1>c. Watching(r, origin[t])
    BY <1>1, <1>2, <1>3 DEF WorkerState, Sound, Watching, AfterRound
<1>d. IdleIsOwn(r, status[t])
    BY <1>1, <1>2, <1>3 DEF WorkerState, Sound, IdleIsOwn, AfterRound
<1>e. ~LateReader => StatusIsOwn(r, status[t])
    BY <1>1, <1>2, <1>3 DEF WorkerState, Sound, IdleIsOwn, StatusIsOwn, AfterRound
<1>f. ~EarlyEdits => Heard(r, origin[t])
    BY <1>1, <1>2, <1>3 DEF WorkerState, Sound, Heard, AfterRound
<1>5. worker' = [worker EXCEPT ![w] = r] /\ UNCHANGED origin
    BY <1>1 DEF SuccessSeen
<1>6. status' = [status EXCEPT ![t] = status[t]]
    BY <1>1, <1>2, StatusKept DEF SuccessSeen
<1>7. replica' = [replica EXCEPT ![t] = replica[t]]
    BY <1>2, ReplicaKept DEF SuccessSeen
<1>8. status[t] \in Status \cup {None} /\ replica[t] \in Version \cup {Mixed}
    BY <1>1, <1>2 DEF WorkerState
<1> HIDE DEF t, old, r
<1>9. Sound(r, status[t], origin[t], replica[t])
    BY <1>a, <1>b, <1>c, <1>d, <1>e, <1>f DEF Sound
<1> QED
    BY <1>2, <1>4, <1>5, <1>6, <1>7, <1>8, <1>9, Goes DEF t

LEMMA RetryStep ==
    ASSUME WorkersInv, NEW w \in Worker, Retry(w)
    PROVE  WorkersInv'
<1> DEFINE t == TaskOf(w)
           old == worker[w]
           r == [old EXCEPT !.at = "backoff", !.tries = old.tries + 1]
<1>1. old # None /\ old.at = "check" /\ old.tries + 1 < MaxRetries /\ status[t] # "IDLE"
    BY DEF Retry, At, RetriesLeft
<1>2. /\ old \in WorkerState /\ w \in Live /\ t \in Task /\ old.task = t
      /\ status[t] \in Status \cup {None} /\ origin[t] \in Version /\ replica[t] \in Version \cup {Mixed}
      /\ Sound(old, status[t], origin[t], replica[t])
    BY <1>1, Known
<1>3. "backoff" \in Place /\ old.tries + 1 \in 0..(MaxRetries - 1)
    BY <1>1, <1>2 DEF WorkerState, Place, MaxRetries
<1>4. r \in WorkerState /\ r.task = t
    BY <1>1, <1>2, <1>3 DEF WorkerState
<1>a. Counted(r)
    BY <1>1, <1>2, <1>3 DEF WorkerState, Sound, Counted
<1>b. Copied(r, replica[t])
    BY <1>1, <1>2, <1>3 DEF WorkerState, Sound, Copied
<1>c. Watching(r, origin[t])
    BY <1>1, <1>2, <1>3 DEF WorkerState, Sound, Watching
<1>d. IdleIsOwn(r, status[t])
    BY <1>1, <1>2, <1>3 DEF WorkerState, Sound, IdleIsOwn
<1>e. ~LateReader => StatusIsOwn(r, status[t])
    BY <1>1, <1>2, <1>3 DEF WorkerState, Sound, IdleIsOwn, StatusIsOwn
<1>f. ~EarlyEdits => Heard(r, origin[t])
    BY <1>1, <1>2, <1>3 DEF WorkerState, Sound, Heard
<1>5. worker' = [worker EXCEPT ![w] = r] /\ UNCHANGED origin
    BY <1>1 DEF Retry
<1>6. status' = [status EXCEPT ![t] = status[t]]
    BY <1>1, <1>2, StatusKept DEF Retry
<1>7. replica' = [replica EXCEPT ![t] = replica[t]]
    BY <1>2, ReplicaKept DEF Retry
<1>8. status[t] \in Status \cup {None} /\ replica[t] \in Version \cup {Mixed}
    BY <1>1, <1>2 DEF WorkerState
<1> HIDE DEF t, old, r
<1>9. Sound(r, status[t], origin[t], replica[t])
    BY <1>a, <1>b, <1>c, <1>d, <1>e, <1>f DEF Sound
<1> QED
    BY <1>2, <1>4, <1>5, <1>6, <1>7, <1>8, <1>9, Goes DEF t

LEMMA GiveUpStep ==
    ASSUME WorkersInv, NEW w \in Worker, GiveUp(w)
    PROVE  WorkersInv'
<1> DEFINE t == TaskOf(w)
           old == worker[w]
           r == AfterRound(w)
           s == Shown(t, "ERROR (Max Retries)")
<1>1. old # None /\ old.at = "check" /\ status[t] # "IDLE"
    BY DEF GiveUp, At
<1>2. /\ old \in WorkerState /\ w \in Live /\ t \in Task /\ old.task = t
      /\ status[t] \in Status \cup {None} /\ origin[t] \in Version /\ replica[t] \in Version \cup {Mixed}
      /\ Sound(old, status[t], origin[t], replica[t])
    BY <1>1, Known
<1>s. /\ s \in Status \cup {None}
      /\ IsShown(s) => s = "ERROR (Max Retries)" /\ IsShown(status[t])
      /\ s = "IDLE" => "ERROR (Max Retries)" = "IDLE"
    BY <1>2, ShownAs DEF Status
<1> HIDE DEF s
<1>3. "select" \in Place /\ "watch" \in Place /\ 0 \in 0..(MaxRetries - 1)
    BY <1>1, <1>2 DEF WorkerState, Place, MaxRetries
<1>4. r \in WorkerState /\ r.task = t
    BY <1>1, <1>2, <1>3 DEF WorkerState, AfterRound
<1>a. Counted(r)
    BY <1>s, <1>1, <1>2, <1>3 DEF WorkerState, Sound, Counted, AfterRound
<1>b. Copied(r, replica[t])
    BY <1>1, <1>2, <1>3 DEF WorkerState, Sound, Copied, AfterRound
<1>c. Watching(r, origin[t])
    BY <1>1, <1>2, <1>3 DEF WorkerState, Sound, Watching, AfterRound
<1>d. IdleIsOwn(r, s)
    BY <1>s, <1>1, <1>2, <1>3 DEF WorkerState, Sound, IdleIsOwn, AfterRound
<1>e. ~LateReader => StatusIsOwn(r, s)
    BY <1>s, <1>1, <1>2, <1>3 DEF WorkerState, Sound, IdleIsOwn, StatusIsOwn, AfterRound
<1>f. ~EarlyEdits => Heard(r, origin[t])
    BY <1>s, <1>1, <1>2, <1>3 DEF WorkerState, Sound, Heard, AfterRound
<1>5. worker' = [worker EXCEPT ![w] = r] /\ UNCHANGED origin
    BY <1>1 DEF GiveUp
<1>6. status' = [status EXCEPT ![t] = s]
    BY <1>1, <1>2, StatusSet DEF s, Status, GiveUp
<1>7. replica' = [replica EXCEPT ![t] = replica[t]]
    BY <1>2, ReplicaKept DEF GiveUp
<1>8. s \in Status \cup {None} /\ replica[t] \in Version \cup {Mixed}
    BY <1>s, <1>1, <1>2 DEF WorkerState, Status
<1> HIDE DEF t, old, r
<1>9. Sound(r, s, origin[t], replica[t])
    BY <1>a, <1>b, <1>c, <1>d, <1>e, <1>f DEF Sound
<1> QED
    BY <1>2, <1>4, <1>5, <1>6, <1>7, <1>8, <1>9, Goes DEF t

LEMMA BackoffOverStep ==
    ASSUME WorkersInv, NEW w \in Worker, BackoffOver(w)
    PROVE  WorkersInv'
<1> DEFINE t == TaskOf(w)
           old == worker[w]
           r == [old EXCEPT !.at = "attempt"]
<1>1. old # None /\ old.at = "backoff"
    BY DEF BackoffOver, At
<1>2. /\ old \in WorkerState /\ w \in Live /\ t \in Task /\ old.task = t
      /\ status[t] \in Status \cup {None} /\ origin[t] \in Version /\ replica[t] \in Version \cup {Mixed}
      /\ Sound(old, status[t], origin[t], replica[t])
    BY <1>1, Known
<1>3. "attempt" \in Place
    BY <1>1, <1>2 DEF WorkerState, Place
<1>4. r \in WorkerState /\ r.task = t
    BY <1>1, <1>2, <1>3 DEF WorkerState
<1>a. Counted(r)
    BY <1>1, <1>2, <1>3 DEF WorkerState, Sound, Counted
<1>b. Copied(r, replica[t])
    BY <1>1, <1>2, <1>3 DEF WorkerState, Sound, Copied
<1>c. Watching(r, origin[t])
    BY <1>1, <1>2, <1>3 DEF WorkerState, Sound, Watching
<1>d. IdleIsOwn(r, status[t])
    BY <1>1, <1>2, <1>3 DEF WorkerState, Sound, IdleIsOwn
<1>e. ~LateReader => StatusIsOwn(r, status[t])
    BY <1>1, <1>2, <1>3 DEF WorkerState, Sound, IdleIsOwn, StatusIsOwn
<1>f. ~EarlyEdits => Heard(r, origin[t])
    BY <1>1, <1>2, <1>3 DEF WorkerState, Sound, Heard
<1>5. worker' = [worker EXCEPT ![w] = r] /\ UNCHANGED origin
    BY <1>1 DEF BackoffOver
<1>6. status' = [status EXCEPT ![t] = status[t]]
    BY <1>1, <1>2, StatusKept DEF BackoffOver
<1>7. replica' = [replica EXCEPT ![t] = replica[t]]
    BY <1>2, ReplicaKept DEF BackoffOver
<1>8. status[t] \in Status \cup {None} /\ replica[t] \in Version \cup {Mixed}
    BY <1>1, <1>2 DEF WorkerState
<1> HIDE DEF t, old, r
<1>9. Sound(r, status[t], origin[t], replica[t])
    BY <1>a, <1>b, <1>c, <1>d, <1>e, <1>f DEF Sound
<1> QED
    BY <1>2, <1>4, <1>5, <1>6, <1>7, <1>8, <1>9, Goes DEF t

LEMMA SetUpPushStep ==
    ASSUME WorkersInv, NEW w \in Worker, SetUpPush(w)
    PROVE  WorkersInv'
<1> DEFINE t == TaskOf(w)
           old == worker[w]
           r == [old EXCEPT !.at = "select", !.looping = TRUE, !.watcher = "starting"]
<1>1. old # None /\ old.at = "watch" /\ t \notin PullTask
    BY DEF SetUpPush, At
<1>2. /\ old \in WorkerState /\ w \in Live /\ t \in Task /\ old.task = t
      /\ status[t] \in Status \cup {None} /\ origin[t] \in Version /\ replica[t] \in Version \cup {Mixed}
      /\ Sound(old, status[t], origin[t], replica[t])
    BY <1>1, Known
<1>3. "select" \in Place
    BY <1>1, <1>2 DEF WorkerState, Place
<1>4. r \in WorkerState /\ r.task = t
    BY <1>1, <1>2, <1>3 DEF WorkerState
<1>a. Counted(r)
    BY <1>1, <1>2, <1>3 DEF WorkerState, Sound, Counted
<1>b. Copied(r, replica[t])
    BY <1>1, <1>2, <1>3 DEF WorkerState, Sound, Copied
<1>c. Watching(r, origin[t])
    BY <1>1, <1>2, <1>3 DEF WorkerState, Sound, Watching
<1>d. IdleIsOwn(r, status[t])
    BY <1>1, <1>2, <1>3 DEF WorkerState, Sound, IdleIsOwn
<1>e. ~LateReader => StatusIsOwn(r, status[t])
    BY <1>1, <1>2, <1>3 DEF WorkerState, Sound, IdleIsOwn, StatusIsOwn
<1>f. ~EarlyEdits => Heard(r, origin[t])
    BY <1>1, <1>2, <1>3 DEF WorkerState, Sound, Heard, Watching
<1>5. worker' = [worker EXCEPT ![w] = r] /\ UNCHANGED origin
    BY <1>1 DEF SetUpPush
<1>6. status' = [status EXCEPT ![t] = status[t]]
    BY <1>1, <1>2, StatusKept DEF SetUpPush
<1>7. replica' = [replica EXCEPT ![t] = replica[t]]
    BY <1>2, ReplicaKept DEF SetUpPush
<1>8. status[t] \in Status \cup {None} /\ replica[t] \in Version \cup {Mixed}
    BY <1>1, <1>2 DEF WorkerState
<1> HIDE DEF t, old, r
<1>9. Sound(r, status[t], origin[t], replica[t])
    BY <1>a, <1>b, <1>c, <1>d, <1>e, <1>f DEF Sound
<1> QED
    BY <1>2, <1>4, <1>5, <1>6, <1>7, <1>8, <1>9, Goes DEF t

LEMMA SetUpPullStep ==
    ASSUME WorkersInv, NEW w \in Worker, SetUpPull(w)
    PROVE  WorkersInv'
<1>0. PICK g \in Signatures(TaskOf(w)) :
         worker' = [worker EXCEPT ![w].at = "select", ![w].looping = TRUE,
                                  ![w].signature = g]
    BY DEF SetUpPull
<1> DEFINE t == TaskOf(w)
           old == worker[w]
           r == [old EXCEPT !.at = "select", !.looping = TRUE, !.signature = g]
<1>1. old # None /\ old.at = "watch" /\ t \in PullTask
    BY <1>0 DEF SetUpPull, At
<1>2. /\ old \in WorkerState /\ w \in Live /\ t \in Task /\ old.task = t
      /\ status[t] \in Status \cup {None} /\ origin[t] \in Version /\ replica[t] \in Version \cup {Mixed}
      /\ Sound(old, status[t], origin[t], replica[t])
    BY <1>1, Known
<1>3. "select" \in Place /\ g \in {origin[t], None}
    BY <1>0, <1>1, <1>2 DEF WorkerState, Place, Signatures
<1>4. r \in WorkerState /\ r.task = t
    BY <1>1, <1>2, <1>3 DEF WorkerState
<1>a. Counted(r)
    BY <1>1, <1>2, <1>3 DEF WorkerState, Sound, Counted
<1>b. Copied(r, replica[t])
    BY <1>1, <1>2, <1>3 DEF WorkerState, Sound, Copied
<1>c. Watching(r, origin[t])
    BY <1>1, <1>2, <1>3 DEF WorkerState, Sound, Watching, Version
<1>d. IdleIsOwn(r, status[t])
    BY <1>1, <1>2, <1>3 DEF WorkerState, Sound, IdleIsOwn
<1>e. ~LateReader => StatusIsOwn(r, status[t])
    BY <1>1, <1>2, <1>3 DEF WorkerState, Sound, IdleIsOwn, StatusIsOwn
<1>f. ~EarlyEdits => Heard(r, origin[t])
    BY <1>1, <1>2, <1>3 DEF WorkerState, Sound, Heard, Watching, Version
<1>5. worker' = [worker EXCEPT ![w] = r] /\ UNCHANGED origin
    BY <1>0, <1>1 DEF SetUpPull
<1>6. status' = [status EXCEPT ![t] = status[t]]
    BY <1>1, <1>2, StatusKept DEF SetUpPull
<1>7. replica' = [replica EXCEPT ![t] = replica[t]]
    BY <1>0, <1>2, ReplicaKept DEF SetUpPull
<1>8. status[t] \in Status \cup {None} /\ replica[t] \in Version \cup {Mixed}
    BY <1>0, <1>1, <1>2 DEF WorkerState
<1> HIDE DEF t, old, r
<1>9. Sound(r, status[t], origin[t], replica[t])
    BY <1>a, <1>b, <1>c, <1>d, <1>e, <1>f DEF Sound
<1> QED
    BY <1>2, <1>4, <1>5, <1>6, <1>7, <1>8, <1>9, Goes DEF t

LEMMA WatcherStartsStep ==
    ASSUME WorkersInv, NEW w \in Worker, WatcherStarts(w)
    PROVE  WorkersInv'
<1> DEFINE t == TaskOf(w)
           old == worker[w]
           r == [old EXCEPT !.watcher = "on", !.watched = origin[t]]
<1>1. old # None /\ old.watcher = "starting"
    BY DEF WatcherStarts
<1>2. /\ old \in WorkerState /\ w \in Live /\ t \in Task /\ old.task = t
      /\ status[t] \in Status \cup {None} /\ origin[t] \in Version /\ replica[t] \in Version \cup {Mixed}
      /\ Sound(old, status[t], origin[t], replica[t])
    BY <1>1, Known
<1>4. r \in WorkerState /\ r.task = t
    BY <1>1, <1>2 DEF WorkerState
<1>a. Counted(r)
    BY <1>1, <1>2 DEF WorkerState, Sound, Counted
<1>b. Copied(r, replica[t])
    BY <1>1, <1>2 DEF WorkerState, Sound, Copied
<1>c. Watching(r, origin[t])
    BY <1>1, <1>2 DEF WorkerState, Sound, Watching, Version
<1>d. IdleIsOwn(r, status[t])
    BY <1>1, <1>2 DEF WorkerState, Sound, IdleIsOwn
<1>e. ~LateReader => StatusIsOwn(r, status[t])
    BY <1>1, <1>2 DEF WorkerState, Sound, IdleIsOwn, StatusIsOwn
<1>f. ~EarlyEdits => Heard(r, origin[t])
    BY <1>1, <1>2 DEF WorkerState, Sound, Heard, Watching, Version
<1>5. worker' = [worker EXCEPT ![w] = r] /\ UNCHANGED origin
    BY <1>1 DEF WatcherStarts
<1>6. status' = [status EXCEPT ![t] = status[t]]
    BY <1>1, <1>2, StatusKept DEF WatcherStarts
<1>7. replica' = [replica EXCEPT ![t] = replica[t]]
    BY <1>2, ReplicaKept DEF WatcherStarts
<1>8. status[t] \in Status \cup {None} /\ replica[t] \in Version \cup {Mixed}
    BY <1>1, <1>2 DEF WorkerState
<1> HIDE DEF t, old, r
<1>9. Sound(r, status[t], origin[t], replica[t])
    BY <1>a, <1>b, <1>c, <1>d, <1>e, <1>f DEF Sound
<1> QED
    BY <1>2, <1>4, <1>5, <1>6, <1>7, <1>8, <1>9, Goes DEF t

LEMMA WatcherFailsStep ==
    ASSUME WorkersInv, NEW w \in Worker, WatcherFails(w)
    PROVE  WorkersInv'
<1> DEFINE t == TaskOf(w)
           old == worker[w]
           r == [old EXCEPT !.watcher = "off"]
<1>1. old # None /\ old.watcher = "starting"
    BY DEF WatcherFails
<1>2. /\ old \in WorkerState /\ w \in Live /\ t \in Task /\ old.task = t
      /\ status[t] \in Status \cup {None} /\ origin[t] \in Version /\ replica[t] \in Version \cup {Mixed}
      /\ Sound(old, status[t], origin[t], replica[t])
    BY <1>1, Known
<1>4. r \in WorkerState /\ r.task = t
    BY <1>1, <1>2 DEF WorkerState
<1>a. Counted(r)
    BY <1>1, <1>2 DEF WorkerState, Sound, Counted
<1>b. Copied(r, replica[t])
    BY <1>1, <1>2 DEF WorkerState, Sound, Copied
<1>c. Watching(r, origin[t])
    BY <1>1, <1>2 DEF WorkerState, Sound, Watching
<1>d. IdleIsOwn(r, status[t])
    BY <1>1, <1>2 DEF WorkerState, Sound, IdleIsOwn
<1>e. ~LateReader => StatusIsOwn(r, status[t])
    BY <1>1, <1>2 DEF WorkerState, Sound, IdleIsOwn, StatusIsOwn
<1>f. ~EarlyEdits => Heard(r, origin[t])
    BY <1>1, <1>2 DEF WorkerState, Sound, Heard
<1>5. worker' = [worker EXCEPT ![w] = r] /\ UNCHANGED origin
    BY <1>1 DEF WatcherFails
<1>6. status' = [status EXCEPT ![t] = status[t]]
    BY <1>1, <1>2, StatusKept DEF WatcherFails
<1>7. replica' = [replica EXCEPT ![t] = replica[t]]
    BY <1>2, ReplicaKept DEF WatcherFails
<1>8. status[t] \in Status \cup {None} /\ replica[t] \in Version \cup {Mixed}
    BY <1>1, <1>2 DEF WorkerState
<1> HIDE DEF t, old, r
<1>9. Sound(r, status[t], origin[t], replica[t])
    BY <1>a, <1>b, <1>c, <1>d, <1>e, <1>f DEF Sound
<1> QED
    BY <1>2, <1>4, <1>5, <1>6, <1>7, <1>8, <1>9, Goes DEF t

LEMMA WatcherPollsStep ==
    ASSUME WorkersInv, NEW w \in Worker, WatcherPolls(w)
    PROVE  WorkersInv'
<1> DEFINE t == TaskOf(w)
           old == worker[w]
           r == [old EXCEPT !.watched = origin[t], !.event = TRUE]
<1>1. old # None /\ old.watcher = "on"
    BY DEF WatcherPolls
<1>2. /\ old \in WorkerState /\ w \in Live /\ t \in Task /\ old.task = t
      /\ status[t] \in Status \cup {None} /\ origin[t] \in Version /\ replica[t] \in Version \cup {Mixed}
      /\ Sound(old, status[t], origin[t], replica[t])
    BY <1>1, Known
<1>4. r \in WorkerState /\ r.task = t
    BY <1>1, <1>2 DEF WorkerState
<1>a. Counted(r)
    BY <1>1, <1>2 DEF WorkerState, Sound, Counted
<1>b. Copied(r, replica[t])
    BY <1>1, <1>2 DEF WorkerState, Sound, Copied
<1>c. Watching(r, origin[t])
    BY <1>1, <1>2 DEF WorkerState, Sound, Watching, Version
<1>d. IdleIsOwn(r, status[t])
    BY <1>1, <1>2 DEF WorkerState, Sound, IdleIsOwn
<1>e. ~LateReader => StatusIsOwn(r, status[t])
    BY <1>1, <1>2 DEF WorkerState, Sound, IdleIsOwn, StatusIsOwn
<1>f. ~EarlyEdits => Heard(r, origin[t])
    BY <1>1, <1>2 DEF WorkerState, Sound, Heard, Watching, Version
<1>5. worker' = [worker EXCEPT ![w] = r] /\ UNCHANGED origin
    BY <1>1 DEF WatcherPolls
<1>6. status' = [status EXCEPT ![t] = status[t]]
    BY <1>1, <1>2, StatusKept DEF WatcherPolls
<1>7. replica' = [replica EXCEPT ![t] = replica[t]]
    BY <1>2, ReplicaKept DEF WatcherPolls
<1>8. status[t] \in Status \cup {None} /\ replica[t] \in Version \cup {Mixed}
    BY <1>1, <1>2 DEF WorkerState
<1> HIDE DEF t, old, r
<1>9. Sound(r, status[t], origin[t], replica[t])
    BY <1>a, <1>b, <1>c, <1>d, <1>e, <1>f DEF Sound
<1> QED
    BY <1>2, <1>4, <1>5, <1>6, <1>7, <1>8, <1>9, Goes DEF t

LEMMA TimerExpiredStep ==
    ASSUME WorkersInv, NEW w \in Worker, TimerExpired(w)
    PROVE  WorkersInv'
<1> DEFINE t == TaskOf(w)
           old == worker[w]
           r == NewRound(w)
<1>1. old # None /\ old.at = "select"
    BY DEF TimerExpired, At
<1>2. /\ old \in WorkerState /\ w \in Live /\ t \in Task /\ old.task = t
      /\ status[t] \in Status \cup {None} /\ origin[t] \in Version /\ replica[t] \in Version \cup {Mixed}
      /\ Sound(old, status[t], origin[t], replica[t])
    BY <1>1, Known
<1>3. "attempt" \in Place /\ 0 \in 0..MaxRetries
    BY <1>1, <1>2 DEF WorkerState, Place, MaxRetries
<1>4. r \in WorkerState /\ r.task = t
    BY <1>1, <1>2, <1>3 DEF WorkerState, NewRound
<1>a. Counted(r)
    BY <1>1, <1>2, <1>3 DEF WorkerState, Sound, Counted, NewRound
<1>b. Copied(r, replica[t])
    BY <1>1, <1>2, <1>3 DEF WorkerState, Sound, Copied, NewRound
<1>c. Watching(r, origin[t])
    BY <1>1, <1>2, <1>3 DEF WorkerState, Sound, Watching, NewRound
<1>d. IdleIsOwn(r, status[t])
    BY <1>1, <1>2, <1>3 DEF WorkerState, Sound, IdleIsOwn, Counted, NewRound
<1>e. ~LateReader => StatusIsOwn(r, status[t])
    BY <1>1, <1>2, <1>3 DEF WorkerState, Sound, IdleIsOwn, StatusIsOwn, Counted, NewRound
<1>f. ~EarlyEdits => Heard(r, origin[t])
    BY <1>1, <1>2, <1>3 DEF WorkerState, Sound, Heard, NewRound
<1>5. worker' = [worker EXCEPT ![w] = r] /\ UNCHANGED origin
    BY <1>1 DEF TimerExpired
<1>6. status' = [status EXCEPT ![t] = status[t]]
    BY <1>1, <1>2, StatusKept DEF TimerExpired
<1>7. replica' = [replica EXCEPT ![t] = replica[t]]
    BY <1>2, ReplicaKept DEF TimerExpired
<1>8. status[t] \in Status \cup {None} /\ replica[t] \in Version \cup {Mixed}
    BY <1>1, <1>2 DEF WorkerState
<1> HIDE DEF t, old, r
<1>9. Sound(r, status[t], origin[t], replica[t])
    BY <1>a, <1>b, <1>c, <1>d, <1>e, <1>f DEF Sound
<1> QED
    BY <1>2, <1>4, <1>5, <1>6, <1>7, <1>8, <1>9, Goes DEF t

LEMMA SignaturePolledStep ==
    ASSUME WorkersInv, NEW w \in Worker, SignaturePolled(w)
    PROVE  WorkersInv'
<1> DEFINE t == TaskOf(w)
           old == worker[w]
           r == [NewRound(w) EXCEPT !.signature = origin[t]]
           s == Shown(t, "PENDING")
<1>1. old # None /\ old.at = "select" /\ t \in PullTask
    BY DEF SignaturePolled, At
<1>2. /\ old \in WorkerState /\ w \in Live /\ t \in Task /\ old.task = t
      /\ status[t] \in Status \cup {None} /\ origin[t] \in Version /\ replica[t] \in Version \cup {Mixed}
      /\ Sound(old, status[t], origin[t], replica[t])
    BY <1>1, Known
<1>s. /\ s \in Status \cup {None}
      /\ IsShown(s) => s = "PENDING" /\ IsShown(status[t])
      /\ s = "IDLE" => "PENDING" = "IDLE"
    BY <1>2, ShownAs DEF Status
<1> HIDE DEF s
<1>3. "attempt" \in Place /\ 0 \in 0..MaxRetries
    BY <1>1, <1>2 DEF WorkerState, Place, MaxRetries
<1>4. r \in WorkerState /\ r.task = t
    BY <1>1, <1>2, <1>3 DEF WorkerState, NewRound
<1>a. Counted(r)
    BY <1>s, <1>1, <1>2, <1>3 DEF WorkerState, Sound, Counted, NewRound
<1>b. Copied(r, replica[t])
    BY <1>1, <1>2, <1>3 DEF WorkerState, Sound, Copied, NewRound
<1>c. Watching(r, origin[t])
    BY <1>1, <1>2, <1>3 DEF WorkerState, Sound, Watching, Version, NewRound
<1>d. IdleIsOwn(r, s)
    BY <1>s, <1>1, <1>2, <1>3 DEF WorkerState, Sound, IdleIsOwn, Counted, NewRound
<1>e. ~LateReader => StatusIsOwn(r, s)
    BY <1>s, <1>1, <1>2, <1>3 DEF WorkerState, Sound, IdleIsOwn, StatusIsOwn, Counted, NewRound
<1>f. ~EarlyEdits => Heard(r, origin[t])
    BY <1>s, <1>1, <1>2, <1>3 DEF WorkerState, Sound, Heard, Watching, Version, NewRound
<1>5. worker' = [worker EXCEPT ![w] = r] /\ UNCHANGED origin
    BY <1>1 DEF SignaturePolled
<1>6. status' = [status EXCEPT ![t] = s]
    BY <1>1, <1>2, StatusSet DEF s, Status, SignaturePolled
<1>7. replica' = [replica EXCEPT ![t] = replica[t]]
    BY <1>2, ReplicaKept DEF SignaturePolled
<1>8. s \in Status \cup {None} /\ replica[t] \in Version \cup {Mixed}
    BY <1>s, <1>1, <1>2 DEF WorkerState, Status
<1> HIDE DEF t, old, r
<1>9. Sound(r, s, origin[t], replica[t])
    BY <1>a, <1>b, <1>c, <1>d, <1>e, <1>f DEF Sound
<1> QED
    BY <1>2, <1>4, <1>5, <1>6, <1>7, <1>8, <1>9, Goes DEF t

LEMMA ToldStep ==
    ASSUME WorkersInv, NEW w \in Worker, Told(w)
    PROVE  WorkersInv'
<1> DEFINE t == TaskOf(w)
           old == worker[w]
           r == [old EXCEPT !.told = TRUE]
<1>1. old # None
    BY DEF Told
<1>2. /\ old \in WorkerState /\ w \in Live /\ t \in Task /\ old.task = t
      /\ status[t] \in Status \cup {None} /\ origin[t] \in Version /\ replica[t] \in Version \cup {Mixed}
      /\ Sound(old, status[t], origin[t], replica[t])
    BY <1>1, Known
<1>4. r \in WorkerState /\ r.task = t
    BY <1>1, <1>2 DEF WorkerState
<1>a. Counted(r)
    BY <1>1, <1>2 DEF WorkerState, Sound, Counted
<1>b. Copied(r, replica[t])
    BY <1>1, <1>2 DEF WorkerState, Sound, Copied
<1>c. Watching(r, origin[t])
    BY <1>1, <1>2 DEF WorkerState, Sound, Watching
<1>d. IdleIsOwn(r, status[t])
    BY <1>1, <1>2 DEF WorkerState, Sound, IdleIsOwn
<1>e. ~LateReader => StatusIsOwn(r, status[t])
    BY <1>1, <1>2 DEF WorkerState, Sound, IdleIsOwn, StatusIsOwn
<1>f. ~EarlyEdits => Heard(r, origin[t])
    BY <1>1, <1>2 DEF WorkerState, Sound, Heard
<1>5. worker' = [worker EXCEPT ![w] = r] /\ UNCHANGED origin
    BY <1>1 DEF Told, Tell
<1>6. status' = [status EXCEPT ![t] = status[t]]
    BY <1>1, <1>2, StatusKept DEF Told
<1>7. replica' = [replica EXCEPT ![t] = replica[t]]
    BY <1>2, ReplicaKept DEF Told
<1>8. status[t] \in Status \cup {None} /\ replica[t] \in Version \cup {Mixed}
    BY <1>1, <1>2 DEF WorkerState
<1> HIDE DEF t, old, r
<1>9. Sound(r, status[t], origin[t], replica[t])
    BY <1>a, <1>b, <1>c, <1>d, <1>e, <1>f DEF Sound
<1> QED
    BY <1>2, <1>4, <1>5, <1>6, <1>7, <1>8, <1>9, Goes DEF t

(* A poll may have sent several messages, of which one is taken.           *)
LEMMA FileChangedStep ==
    ASSUME WorkersInv, NEW w \in Worker, FileChanged(w)
    PROVE  WorkersInv'
<1>0. PICK more \in {FALSE, worker[w].event} :
         worker' = [worker EXCEPT ![w].event = more, ![w].armed = TRUE]
    BY DEF FileChanged, Debounce
<1> DEFINE t == TaskOf(w)
           old == worker[w]
           r == [old EXCEPT !.event = more, !.armed = TRUE]
           s == IF old.armed THEN status[t] ELSE Shown(t, "PENDING")
<1>1. old # None /\ old.at = "select"
    BY DEF FileChanged, At
<1>2. /\ old \in WorkerState /\ w \in Live /\ t \in Task /\ old.task = t
      /\ status[t] \in Status \cup {None} /\ origin[t] \in Version /\ replica[t] \in Version \cup {Mixed}
      /\ Sound(old, status[t], origin[t], replica[t])
    BY <1>1, Known
<1>s. /\ s \in Status \cup {None}
      /\ IsShown(s) => IsShown(status[t]) /\ s \in {status[t], "PENDING"}
      /\ s = "IDLE" => status[t] = "IDLE" /\ old.armed
    BY <1>2, ShownAs DEF Status
<1> HIDE DEF s
<1>3. more \in BOOLEAN
    BY <1>0, <1>2 DEF WorkerState
<1>4. r \in WorkerState /\ r.task = t
    BY <1>1, <1>2, <1>3 DEF WorkerState
<1>a. Counted(r)
    BY <1>s, <1>1, <1>2, <1>3 DEF WorkerState, Sound, Counted
<1>b. Copied(r, replica[t])
    BY <1>1, <1>2, <1>3 DEF WorkerState, Sound, Copied
<1>c. Watching(r, origin[t])
    BY <1>1, <1>2, <1>3 DEF WorkerState, Sound, Watching
<1>d. IdleIsOwn(r, s)
    BY <1>s, <1>1, <1>2, <1>3 DEF WorkerState, Sound, IdleIsOwn
<1>e. ~LateReader => StatusIsOwn(r, s)
    BY <1>s, <1>1, <1>2, <1>3 DEF WorkerState, Sound, IdleIsOwn, StatusIsOwn
<1>f. ~EarlyEdits => Heard(r, origin[t])
    BY <1>s, <1>1, <1>2, <1>3 DEF WorkerState, Sound, Heard
<1>5. worker' = [worker EXCEPT ![w] = r] /\ UNCHANGED origin
    BY <1>0, <1>1 DEF FileChanged
<1>6. status' = [status EXCEPT ![t] = s]
    BY <1>1, <1>2, StatusSet, StatusKept DEF s, Status, FileChanged
<1>7. replica' = [replica EXCEPT ![t] = replica[t]]
    BY <1>2, ReplicaKept DEF FileChanged
<1>8. s \in Status \cup {None}
    BY <1>s, <1>2 DEF Status
<1> HIDE DEF t, old, r
<1>9. Sound(r, s, origin[t], replica[t])
    BY <1>a, <1>b, <1>c, <1>d, <1>e, <1>f DEF Sound
<1> QED
    BY <1>2, <1>4, <1>5, <1>6, <1>7, <1>8, <1>9, Goes DEF t

(* A progress line comes while the rsync runs, unless its reader is late.  *)
LEMMA ReaderReportsStep ==
    ASSUME WorkersInv, NEW w \in Worker, ReaderReports(w)
    PROVE  WorkersInv'
<1> DEFINE t == TaskOf(w)
           old == worker[w]
           s == Shown(t, "SYNCING")
<1>1. old # None /\ old.reading
    BY DEF ReaderReports
<1>2. /\ old \in WorkerState /\ w \in Live /\ t \in Task /\ old.task = t
      /\ status[t] \in Status \cup {None} /\ origin[t] \in Version /\ replica[t] \in Version \cup {Mixed}
      /\ Sound(old, status[t], origin[t], replica[t])
    BY <1>1, Known
<1>s. /\ s \in Status \cup {None}
      /\ IsShown(s) => s = "SYNCING" /\ IsShown(status[t])
      /\ s = "IDLE" => "SYNCING" = "IDLE"
    BY <1>2, ShownAs DEF Status
<1> HIDE DEF s
<1>3. IdleIsOwn(old, s) /\ (~LateReader => StatusIsOwn(old, s))
    BY <1>s, <1>1, <1>2 DEF Sound, IdleIsOwn, StatusIsOwn
<1>4. Sound(old, s, origin[t], replica[t])
    BY <1>2, <1>3 DEF Sound
<1>5. worker' = [worker EXCEPT ![w] = old] /\ UNCHANGED origin
    BY DEF ReaderReports, WorkersInv, TypeOK
<1>6. status' = [status EXCEPT ![t] = s]
    BY <1>2, StatusSet DEF s, Status, ReaderReports
<1>7. replica' = [replica EXCEPT ![t] = replica[t]]
    BY <1>2, ReplicaKept DEF ReaderReports
<1>8. s \in Status \cup {None}
    BY <1>s DEF Status
<1> HIDE DEF t, old
<1> QED
    BY <1>2, <1>4, <1>5, <1>6, <1>7, <1>8, Goes DEF t

LEMMA StoppedStep ==
    ASSUME WorkersInv, NEW w \in Worker, Stopped(w)
    PROVE  WorkersInv'
<1>1. /\ worker' = [worker EXCEPT ![w] = None]
      /\ UNCHANGED <<status, origin, replica>>
    BY DEF Stopped
<1>2. TypeOK'
    BY <1>1 DEF WorkersInv, TypeOK
<1>3. ASSUME NEW u \in Live' PROVE u \in Live /\ worker'[u] = worker[u]
    BY <1>1 DEF WorkersInv, TypeOK, Live
<1>4. \A u, v \in Live' : TaskOf(u)' = TaskOf(v)' => u = v
    BY <1>3 DEF WorkersInv, TaskOf
<1>5. ASSUME NEW u \in Live'
      PROVE  Sound(worker[u], status[TaskOf(u)], origin[TaskOf(u)], replica[TaskOf(u)])'
  <2>1. Sound(worker[u], status[TaskOf(u)], origin[TaskOf(u)], replica[TaskOf(u)])
    BY <1>3 DEF WorkersInv
  <2> QED
    BY <1>1, <1>3, <2>1, SoundThen DEF TaskOf
<1> QED
    BY <1>2, <1>4, <1>5 DEF WorkersInv

(* The origin of a worker that has its watcher may change; that of one     *)
(* that has not stays, unless there are early edits.                       *)
LEMMA EditStep ==
    ASSUME WorkersInv, NEW t \in Task, Edit(t)
    PROVE  WorkersInv'
<1>1. /\ origin' = [origin EXCEPT ![t] = origin[t] + 1] /\ origin[t] + 1 \in Version
      /\ UNCHANGED <<status, worker, replica>>
    BY DEF Edit, WorkersInv, TypeOK, Version
<1>2. TypeOK'
    BY <1>1 DEF WorkersInv, TypeOK
<1>3. Live' = Live /\ \A u \in Live : TaskOf(u)' = TaskOf(u)
    BY <1>1 DEF Live, TaskOf
<1>4. ASSUME NEW u \in Live
      PROVE  Sound(worker[u], status[TaskOf(u)], origin[TaskOf(u)], replica[TaskOf(u)])'
  <2> DEFINE x == TaskOf(u)
             r == worker[u]
             o == origin[x]
  <2>1. /\ r \in WorkerState /\ x \in Task /\ o \in Version /\ r.task = x
        /\ Sound(r, status[x], o, replica[x])
    BY Known DEF WorkersInv, TypeOK, Live
  <2>2. CASE x # t
    <3>1. origin'[x] = o
        BY <1>1, <2>1, <2>2 DEF WorkersInv, TypeOK
    <3> QED
        BY <1>1, <1>3, <2>1, <3>1, SoundThen
  <2>3. CASE x = t
    <3>1. origin'[x] = o + 1
        BY <1>1, <2>1, <2>3 DEF WorkersInv, TypeOK
    <3>2. Watching(r, o + 1)
        BY <2>1 DEF Sound, Watching, Version, WorkerState
    <3>3. ~EarlyEdits => r.watcher = "on" \/ (r.task \in PullTask /\ r.looping)
        BY <2>1, <2>3 DEF Edit, IsWatched, Live
    <3>4. ~EarlyEdits => Heard(r, o + 1)
        BY <2>1, <3>3 DEF Sound, Heard
    <3> HIDE DEF r, o, x
    <3>5. Sound(r, status[x], o + 1, replica[x])
        BY <2>1, <3>2, <3>4 DEF Sound
    <3> QED
        BY <1>1, <1>3, <3>1, <3>5, SoundThen DEF r, x
  <2> QED
    BY <2>2, <2>3
<1> QED
    BY <1>2, <1>3, <1>4 DEF WorkersInv

-----------------------------------------------------------------------------
(* A daemon that starts its workers.                                       *)
LEMMA InitWorkers == ASSUME Init PROVE WorkersInv
<1>1. PICK f \in [Worker -> Task] :
         /\ \A u, w \in Worker : f[u] = f[w] => u = w
         /\ worker = [w \in Worker |-> NewWorker(f[w])]
    BY DEF Init
<1>2. 0 \in Version /\ 1 \in Version
    BY DEF Version
<1>3. ASSUME NEW t \in Task PROVE NewWorker(t) \in WorkerState
  <2>1. /\ "attempt" \in Place /\ FALSE \in BOOLEAN
        /\ 0 \in 0..(MaxRetries - 1) /\ 0 \in 0..MaxRetries
      BY DEF Place, MaxRetries
  <2> QED
    BY <2>1 DEF NewWorker, WorkerState
<1>4. ASSUME NEW w \in Worker
      PROVE  worker[w] = NewWorker(f[w]) /\ worker[w] # None /\ TaskOf(w) = f[w]
             /\ worker[w] \in WorkerState /\ f[w] \in Task
  <2>1. f[w] \in Task /\ worker[w] = NewWorker(f[w])
      BY <1>1
  <2>2. NewWorker(f[w]).task = f[w]
      BY DEF NewWorker
  <2>3. NewWorker(f[w]) # None
      BY <1>3, <2>1 DEF Status
  <2> QED
    BY <1>3, <2>1, <2>2, <2>3 DEF TaskOf
<1>5. TypeOK
  <2>1. "STARTING" \in Status
      BY DEF Status
  <2>2. worker \in [Worker -> WorkerState \cup {None}]
      BY <1>1, <1>4
  <2> QED
    BY <1>2, <2>1, <2>2 DEF Init, TypeOK
<1>6. \A u, w \in Live : TaskOf(u) = TaskOf(w) => u = w
    BY <1>1, <1>4 DEF Live
<1>7. ASSUME NEW w \in Live
      PROVE  LET t == TaskOf(w)
             IN Sound(worker[w], status[t], origin[t], replica[t])
  <2>1. w \in Worker /\ worker[w] = NewWorker(f[w]) /\ f[w] \in Task
      BY <1>4 DEF Live
  <2> DEFINE r == NewWorker(f[w])
  <2>2. /\ r.at = "attempt" /\ r.tries = 0 /\ r.failures = 0 /\ ~r.looping /\ ~r.reading
        /\ r.rsync = "none" /\ r.read = None /\ r.watcher = "none"
        /\ r.watched = None /\ r.signature = None
      BY DEF NewWorker
  <2> HIDE DEF r
  <2>3. Sound(r, status[f[w]], origin[f[w]], replica[f[w]])
      BY <2>2 DEF Sound, Counted, Copied, Watching, IdleIsOwn, StatusIsOwn, Heard
  <2> QED
    BY <1>4, <2>1, <2>3 DEF r
<1> QED
  BY <1>5, <1>6, <1>7 DEF WorkersInv

LEMMA StutterStep == ASSUME WorkersInv, UNCHANGED vars PROVE WorkersInv'
<1>1. TypeOK' /\ Live' = Live /\ \A u : TaskOf(u)' = TaskOf(u)
    BY DEF vars, WorkersInv, TypeOK, Live, TaskOf
<1>2. ASSUME NEW u \in Live
      PROVE  Sound(worker[u], status[TaskOf(u)], origin[TaskOf(u)], replica[TaskOf(u)])'
    BY <1>1, SoundThen DEF vars, WorkersInv
<1> QED
  BY <1>1, <1>2 DEF WorkersInv

LEMMA NextStep == ASSUME WorkersInv, [Next]_vars PROVE WorkersInv'
<1>1. ASSUME NEW w \in Worker, WorkerStep(w) PROVE WorkersInv'
  <2>1. CASE Round(w)
      BY <2>1, RsyncStartStep, RsyncReapedStep, SuccessSeenStep, RetryStep, GiveUpStep,
         BackoffOverStep DEF Round
  <2>2. CASE SetUp(w)
      BY <2>2, SetUpPushStep, SetUpPullStep DEF SetUp
  <2>3. CASE Watcher(w)
      BY <2>3, WatcherStartsStep, WatcherFailsStep, WatcherPollsStep DEF Watcher
  <2>4. CASE RsyncEnds(w)
      BY <2>4, RsyncSucceedsStep, RsyncFailsStep DEF RsyncEnds
  <2>5. CASE Stopped(w) \/ FileChanged(w) \/ TimerExpired(w) \/ SignaturePolled(w)
      BY <2>5, StoppedStep, FileChangedStep, TimerExpiredStep, SignaturePolledStep
  <2>6. CASE RsyncReads(w) \/ ReaderReports(w) \/ ReaderEnds(w)
      BY <2>6, RsyncReadsStep, ReaderReportsStep, ReaderEndsStep
  <2> QED
    BY <1>1, <2>1, <2>2, <2>3, <2>4, <2>5, <2>6 DEF WorkerStep
<1>2. ASSUME NEW w \in Worker, Told(w) PROVE WorkersInv'
    BY <1>2, ToldStep
<1>3. ASSUME NEW t \in Task, Edit(t) PROVE WorkersInv'
    BY <1>3, EditStep
<1> QED
  BY <1>1, <1>2, <1>3, StutterStep DEF Next

LEMMA WorkersAreInvariant == Spec => []WorkersInv
<1>1. Init => WorkersInv
    BY InitWorkers
<1>2. WorkersInv /\ [Next]_vars => WorkersInv'
    BY NextStep
<1> QED
  BY <1>1, <1>2, PTL DEF Spec

(* No step of a worker takes its task out of the registry or puts it back. *)
LEMMA StaysRegistered ==
    ASSUME IndInv, [Next]_vars
    PROVE  IndInv'
<1>1. WorkersInv'
    BY NextStep DEF IndInv
<1>2. ASSUME NEW t \in Task PROVE status'[t] # None
  <2>1. \/ UNCHANGED status
        \/ \E x \in Task, y \in Status : UpdateStatus(x, y)
    <3>1. TypeOK
        BY DEF IndInv, WorkersInv
    <3>2. ASSUME NEW w \in Worker, WorkerStep(w)
          PROVE  UNCHANGED status \/ \E x \in Task, y \in Status : UpdateStatus(x, y)
      <4>1. CASE UNCHANGED status
          BY <4>1
      <4>2. ASSUME worker[w] # None, NEW y \in Status, UpdateStatus(TaskOf(w), y)
            PROVE  \E x \in Task, z \in Status : UpdateStatus(x, z)
          BY <3>1, <4>2 DEF TypeOK, TaskOf, WorkerState
      <4>3. CASE RsyncStart(w) \/ ReaderReports(w)
          BY <4>2, <4>3 DEF RsyncStart, ReaderReports, At, Status
      <4>4. CASE RsyncReaped(w)
          BY <4>2, <4>4 DEF RsyncReaped, At, ExitStatus, Status
      <4>5. CASE GiveUp(w)
          BY <4>2, <4>5 DEF GiveUp, At, Status
      <4>6. CASE FileChanged(w) \/ SignaturePolled(w)
          BY <4>1, <4>2, <4>6 DEF FileChanged, SignaturePolled, At, Status
      <4> QED
        BY <3>2, <4>1, <4>3, <4>4, <4>5, <4>6
           DEF WorkerStep, Round, SetUp, Watcher, RsyncEnds, SuccessSeen, Retry, BackoffOver,
               SetUpPush, SetUpPull, WatcherStarts, WatcherFails, WatcherPolls, Stopped,
               TimerExpired, RsyncReads, RsyncSucceeds, RsyncFails, ReaderEnds
    <3> QED
      BY <3>2 DEF Next, vars, Told, Edit
  <2>2. TypeOK /\ status[t] # None /\ None \notin Status
      BY DEF IndInv, WorkersInv
  <2> QED
    BY <2>1, <2>2 DEF TypeOK, UpdateStatus, StatusUpdated
<1> QED
  BY <1>1, <1>2 DEF IndInv

(* The invariant of the workers while the daemon is alone with them.       *)
THEOREM Invariance == Spec => []IndInv
<1>1. Init => IndInv
  <2>1. "STARTING" # None
      BY DEF Status
  <2> QED
    BY <2>1, InitWorkers DEF IndInv, Init
<1>2. IndInv /\ [Next]_vars => IndInv'
    BY StaysRegistered
<1> QED
  BY <1>1, <1>2, PTL DEF Spec

-----------------------------------------------------------------------------
(* A worker's record, its status and the trees keep their types, whatever  *)
(* the watcher, the reader and the child do, and no matter which of them   *)
(* fails (spawn_sync_worker and what it spawns).                           *)
THEOREM TypeCorrect == Spec => []TypeOK
<1>1. WorkersInv => TypeOK
    BY DEF WorkersInv
<1> QED
  BY <1>1, WorkersAreInvariant, PTL

LEMMA SuccessOfARound ==
    ASSUME WorkersInv, NEW w \in Worker, SuccessSeen(w)
    PROVE  worker[w].rsync = "ok"
<1>1. worker[w] # None /\ worker[w].at = "check" /\ status[TaskOf(w)] = "IDLE"
    BY DEF SuccessSeen, At
<1>2. IdleIsOwn(worker[w], status[TaskOf(w)])
    BY <1>1, Known DEF Sound
<1> QED
  BY <1>1, <1>2 DEF IdleIsOwn

(* retry_run_rsync takes the status IDLE for the success of the attempt it *)
(* just made.  It is, even with a reader that reports after the child was  *)
(* reaped: what it reports is not IDLE.                                    *)
THEOREM SuccessIsOwn == Spec => SuccessIsItsOwn
<1>1. WorkersInv => \A w \in Worker : SuccessSeen(w) => worker[w].rsync = "ok"
    BY SuccessOfARound
<1> QED
  BY <1>1, WorkersAreInvariant, PTL DEF SuccessIsItsOwn

LEMMA FailuresOfARound ==
    ASSUME IndInv, ~LateReader, NEW w \in Worker, GiveUp(w)
    PROVE  worker[w].failures = MaxRetries
<1> DEFINE r == worker[w]
<1>1. r # None /\ r.at = "check" /\ status[TaskOf(w)] # "IDLE" /\ ~(r.tries + 1 < MaxRetries)
    BY DEF GiveUp, At, RetriesLeft
<1>2. /\ IdleIsOwn(r, status[TaskOf(w)]) /\ StatusIsOwn(r, status[TaskOf(w)])
      /\ r \in WorkerState /\ IsShown(status[TaskOf(w)])
    BY <1>1, Known DEF IndInv, Sound, IsShown
<1>3. r.rsync = "failed" /\ r.failures = r.tries + 1
    BY <1>1, <1>2 DEF IdleIsOwn, StatusIsOwn, WorkerState
<1>4. r.tries \in 0..2
    BY <1>2 DEF WorkerState, MaxRetries
<1> QED
  BY <1>1, <1>3, <1>4 DEF MaxRetries

(* retry_run_rsync says "ERROR (Max Retries)" only when every one of its   *)
(* three attempts failed: none is lost, and none that succeeded is counted *)
(* if no line of rsync's output is reported after the child was reaped.    *)
THEOREM GivesUpAfterThree ==
    ASSUME ~LateReader
    PROVE  Spec => ErrorMeansThreeFailures
<1>1. IndInv => \A w \in Worker : GiveUp(w) => worker[w].failures = MaxRetries
    BY FailuresOfARound
<1> QED
  BY <1>1, Invariance, PTL DEF ErrorMeansThreeFailures

LEMMA WaitingInSync ==
    ASSUME WorkersInv, ~EarlyEdits, NEW w \in Worker,
           UpToDate(w), status[TaskOf(w)] = "IDLE"
    PROVE  replica[TaskOf(w)] = origin[TaskOf(w)]
<1> DEFINE r == worker[w]
           o == origin[TaskOf(w)]
           c == replica[TaskOf(w)]
<1>1. r # None /\ r.at = "select" /\ ~r.event /\ ~r.armed /\ o \in {r.watched, r.signature}
    BY DEF UpToDate, At
<1>2. /\ IdleIsOwn(r, "IDLE") /\ Copied(r, c) /\ Watching(r, o) /\ Heard(r, o)
      /\ r \in WorkerState /\ o \in Version
    BY <1>1, Known DEF Sound
<1>3. r.read # None /\ c = r.read
    BY <1>1, <1>2 DEF IdleIsOwn, Copied
<1>4. o # None /\ r.read \in Version
    BY <1>2, <1>3 DEF Version, WorkerState
<1>5. o <= r.read
    BY <1>1, <1>2, <1>3, <1>4 DEF Heard
<1>6. r.read <= o
    BY <1>2, <1>3 DEF Watching
<1> QED
  BY <1>2, <1>3, <1>4, <1>5, <1>6 DEF Version

(* IDLE, shown for a worker that waits in its select! and has nothing left *)
(* to hear, means that the replica is a copy of the origin, for pushes and *)
(* pulls, after any number of changes, failures, retries and late reports, *)
(* if changes come once they are watched for.                              *)
THEOREM IdleMeansInSync ==
    ASSUME ~EarlyEdits
    PROVE  Spec => []IdleIsInSync
<1>1. WorkersInv => IdleIsInSync
    BY WaitingInSync DEF IdleIsInSync
<1> QED
  BY <1>1, WorkersAreInvariant, PTL

-----------------------------------------------------------------------------
(* A round moves on, and so it ends.                                       *)

LEMMA StepsLeftType ==
    ASSUME NEW r \in WorkerState
    PROVE  StepsLeft(r) \in 0..23 /\ AttemptLeft(r) \in 1..7
<1>1. r.tries \in 0..2 /\ AttemptLeft(r) \in 1..7
    BY DEF WorkerState, MaxRetries, AttemptLeft
<1>2. CASE r.at \in {"watch", "select"}
    BY <1>1, <1>2 DEF StepsLeft
<1>3. CASE r.at \notin {"watch", "select"}
  <2>1. PICK n \in {0, 1} : StepsLeft(r) = 1 + n + AttemptLeft(r) + 7 * (2 - r.tries)
    BY <1>3 DEF StepsLeft, MaxRetries
  <2> QED
    BY <1>1, <2>1
<1> QED
    BY <1>1, <1>2, <1>3

(* A round and its attempts, in numbers.                                   *)
LEMMA StepsLeftInRound ==
    ASSUME NEW r \in WorkerState
    PROVE  /\ r.at = "select" => StepsLeft(r) = 0
           /\ r.at = "watch" => StepsLeft(r) = 1 + IF r.reading THEN 1 ELSE 0
           /\ r.at \notin {"watch", "select"} =>
                StepsLeft(r) = 1 + (IF r.reading THEN 1 ELSE 0)
                                 + AttemptLeft(r) + 7 * (2 - r.tries)
           /\ r.at = "backoff" => AttemptLeft(r) = 7
           /\ r.at = "attempt" => AttemptLeft(r) = 6
           /\ r.at = "check" => AttemptLeft(r) = 1
           /\ r.at = "rsync" => AttemptLeft(r) =
                IF r.rsync # "running" THEN 2 ELSE IF r.read # None THEN 3 ELSE 4
           /\ r.tries \in 0..2
BY DEF StepsLeft, AttemptLeft, MaxRetries, WorkerState

(* Each of its steps takes a round on.                                     *)
LEMMA RoundGoesOn ==
    ASSUME WorkersInv, NEW w \in Worker, InRound(w), Proceed(w)
    PROVE  /\ worker'[w] \in WorkerState
           /\ StepsLeft(worker'[w]) < StepsLeft(worker[w])
<1> DEFINE r == worker[w]
           n == worker'[w]
<1>1. /\ r \in WorkerState /\ r.at # "select" /\ r.at \in Place
      /\ r.at # "rsync" => r.rsync # "running"
  <2>1. r \in WorkerState /\ r.at # "select" /\ IdleIsOwn(r, status[TaskOf(w)])
    BY Known DEF InRound, Sound
  <2> QED
    BY <2>1 DEF IdleIsOwn, WorkerState
<1>2. worker \in [Worker -> WorkerState \cup {None}]
    BY DEF WorkersInv, TypeOK
<1>3. CASE RsyncStart(w)
  <2>1. n = [r EXCEPT !.at = "rsync", !.rsync = "running", !.read = None, !.reading = TRUE]
    BY <1>2, <1>3 DEF RsyncStart, At
  <2>2. r.at = "attempt"
    BY <1>1, <1>3 DEF RsyncStart, At
  <2>3. n \in WorkerState
    BY <1>1, <2>1, <2>2 DEF WorkerState, Place
  <2>4. n.at = "rsync" /\ n.rsync = "running" /\ n.read = None /\ n.reading /\ n.tries = r.tries
    BY <1>1, <2>1, <2>2 DEF WorkerState
  <2> HIDE DEF r, n
  <2> QED
    BY <1>1, <2>2, <2>3, <2>4, StepsLeftInRound DEF r, n
<1>4. CASE RsyncReads(w)
  <2>1. n = [r EXCEPT !.read = origin[TaskOf(w)]]
    BY <1>2, <1>4 DEF RsyncReads, RsyncRunning
  <2>2. r.at = "rsync" /\ r.rsync = "running" /\ r.read = None
    BY <1>1, <1>4 DEF RsyncReads, RsyncRunning
  <2>0. origin[TaskOf(w)] \in Version /\ None \notin Version
    BY <1>1, Known DEF InRound, Version
  <2>3. n \in WorkerState
    BY <1>1, <2>1, <2>0, <2>2 DEF WorkerState, Place
  <2>4. n.at = "rsync" /\ n.rsync = "running" /\ n.read # None /\ n.reading = r.reading /\ n.tries = r.tries
    BY <1>1, <2>1, <2>0, <2>2 DEF WorkerState
  <2> HIDE DEF r, n
  <2> QED
    BY <1>1, <2>2, <2>3, <2>4, StepsLeftInRound DEF r, n
<1>5. CASE RsyncSucceeds(w)
  <2>1. n = [r EXCEPT !.rsync = "ok"]
    BY <1>2, <1>5 DEF RsyncSucceeds, RsyncRunning
  <2>2. r.at = "rsync" /\ r.rsync = "running"
    BY <1>1, <1>5 DEF RsyncSucceeds, RsyncRunning
  <2>3. n \in WorkerState
    BY <1>1, <2>1, <2>2 DEF WorkerState, Place
  <2>4. n.at = "rsync" /\ n.rsync = "ok" /\ n.reading = r.reading /\ n.tries = r.tries
    BY <1>1, <2>1, <2>2 DEF WorkerState
  <2> HIDE DEF r, n
  <2> QED
    BY <1>1, <2>2, <2>3, <2>4, StepsLeftInRound DEF r, n
<1>6. CASE RsyncFails(w)
  <2>1. n = [r EXCEPT !.rsync = "failed"]
    BY <1>2, <1>6 DEF RsyncFails, RsyncRunning
  <2>2. r.at = "rsync" /\ r.rsync = "running"
    BY <1>1, <1>6 DEF RsyncFails, RsyncRunning
  <2>3. n \in WorkerState
    BY <1>1, <2>1, <2>2 DEF WorkerState, Place
  <2>4. n.at = "rsync" /\ n.rsync = "failed" /\ n.reading = r.reading /\ n.tries = r.tries
    BY <1>1, <2>1, <2>2 DEF WorkerState
  <2> HIDE DEF r, n
  <2> QED
    BY <1>1, <2>2, <2>3, <2>4, StepsLeftInRound DEF r, n
<1>7. CASE ReaderEnds(w)
  <2>1. n = [r EXCEPT !.reading = FALSE]
    BY <1>2, <1>7 DEF ReaderEnds
  <2>2. r.reading
    BY <1>1, <1>7 DEF ReaderEnds
  <2>3. n \in WorkerState
    BY <1>1, <2>1, <2>2 DEF WorkerState, Place
  <2>4. n.at = r.at /\ n.rsync = r.rsync /\ n.read = r.read /\ ~n.reading /\ n.tries = r.tries
    BY <1>1, <2>1, <2>2 DEF WorkerState
  <2>5. AttemptLeft(n) = AttemptLeft(r)
    BY <2>4 DEF AttemptLeft
  <2>6. AttemptLeft(r) \in 1..7
    BY <1>1, StepsLeftType
  <2> HIDE DEF r, n
  <2> QED
    BY <1>1, <2>2, <2>3, <2>4, <2>5, <2>6, StepsLeftInRound DEF r, n
<1>8. CASE RsyncReaped(w)
  <2>1. n = [r EXCEPT !.at = "check",
                  !.failures = IF r.rsync = "failed" THEN r.failures + 1 ELSE r.failures]
    BY <1>2, <1>8 DEF RsyncReaped, At
  <2>2. r.at = "rsync" /\ r.rsync \in {"ok", "failed"}
    BY <1>1, <1>8 DEF RsyncReaped, At
  <2>0. r.failures + 1 \in 0..MaxRetries
    BY <1>1, <2>2, Known DEF InRound, Sound, Counted, WorkerState, MaxRetries
  <2>3. n \in WorkerState
    BY <1>1, <2>1, <2>0, <2>2 DEF WorkerState, Place
  <2>4. n.at = "check" /\ n.reading = r.reading /\ n.tries = r.tries
    BY <1>1, <2>1, <2>0, <2>2 DEF WorkerState
  <2> HIDE DEF r, n
  <2> QED
    BY <1>1, <2>2, <2>3, <2>4, StepsLeftInRound DEF r, n
<1>9. CASE SuccessSeen(w)
  <2>1. n = [r EXCEPT !.at = IF r.looping THEN "select" ELSE "watch", !.tries = 0]
    BY <1>2, <1>9 DEF SuccessSeen, At, AfterRound
  <2>2. r.at = "check"
    BY <1>1, <1>9 DEF SuccessSeen, At, AfterRound
  <2>0. 0 \in 0..(MaxRetries - 1)
    BY <1>1, <2>2 DEF WorkerState, MaxRetries
  <2>3. n \in WorkerState
    BY <1>1, <2>1, <2>0, <2>2 DEF WorkerState, Place
  <2>4. n.at \in {"select", "watch"} /\ n.reading = r.reading
    BY <1>1, <2>1, <2>0, <2>2 DEF WorkerState
  <2> HIDE DEF r, n
  <2> QED
    BY <1>1, <2>2, <2>3, <2>4, StepsLeftInRound, StepsLeftType DEF r, n
<1>10. CASE GiveUp(w)
  <2>1. n = [r EXCEPT !.at = IF r.looping THEN "select" ELSE "watch", !.tries = 0]
    BY <1>2, <1>10 DEF GiveUp, At, AfterRound
  <2>2. r.at = "check"
    BY <1>1, <1>10 DEF GiveUp, At, AfterRound
  <2>0. 0 \in 0..(MaxRetries - 1)
    BY <1>1, <2>2 DEF WorkerState, MaxRetries
  <2>3. n \in WorkerState
    BY <1>1, <2>1, <2>0, <2>2 DEF WorkerState, Place
  <2>4. n.at \in {"select", "watch"} /\ n.reading = r.reading
    BY <1>1, <2>1, <2>0, <2>2 DEF WorkerState
  <2> HIDE DEF r, n
  <2> QED
    BY <1>1, <2>2, <2>3, <2>4, StepsLeftInRound, StepsLeftType DEF r, n
<1>11. CASE Retry(w)
  <2>1. n = [r EXCEPT !.at = "backoff", !.tries = r.tries + 1]
    BY <1>2, <1>11 DEF Retry, At
  <2>2. r.at = "check" /\ r.tries + 1 < MaxRetries
    BY <1>1, <1>11 DEF Retry, At, RetriesLeft
  <2>0. r.tries + 1 \in 0..(MaxRetries - 1)
    BY <1>1, <2>2 DEF WorkerState, MaxRetries
  <2>3. n \in WorkerState
    BY <1>1, <2>1, <2>0, <2>2 DEF WorkerState, Place
  <2>4. n.at = "backoff" /\ n.reading = r.reading /\ n.tries = r.tries + 1
    BY <1>1, <2>1, <2>0, <2>2 DEF WorkerState
  <2> HIDE DEF r, n
  <2> QED
    BY <1>1, <2>2, <2>3, <2>4, StepsLeftInRound DEF r, n
<1>12. CASE BackoffOver(w)
  <2>1. n = [r EXCEPT !.at = "attempt"]
    BY <1>2, <1>12 DEF BackoffOver, At
  <2>2. r.at = "backoff"
    BY <1>1, <1>12 DEF BackoffOver, At
  <2>3. n \in WorkerState
    BY <1>1, <2>1, <2>2 DEF WorkerState, Place
  <2>4. n.at = "attempt" /\ n.reading = r.reading /\ n.tries = r.tries
    BY <1>1, <2>1, <2>2 DEF WorkerState
  <2> HIDE DEF r, n
  <2> QED
    BY <1>1, <2>2, <2>3, <2>4, StepsLeftInRound DEF r, n
<1>13. CASE SetUpPush(w)
  <2>1. n = [r EXCEPT !.at = "select", !.looping = TRUE, !.watcher = "starting"]
    BY <1>2, <1>13 DEF SetUpPush, At
  <2>2. r.at = "watch"
    BY <1>1, <1>13 DEF SetUpPush, At
  <2>3. n \in WorkerState
    BY <1>1, <2>1, <2>2 DEF WorkerState, Place
  <2>4. n.at = "select"
    BY <1>1, <2>1, <2>2 DEF WorkerState
  <2> HIDE DEF r, n
  <2> QED
    BY <1>1, <2>2, <2>3, <2>4, StepsLeftInRound, StepsLeftType DEF r, n
<1>14. CASE SetUpPull(w)
  <2>1. PICK s \in Signatures(TaskOf(w)) :
           n = [r EXCEPT !.at = "select", !.looping = TRUE, !.signature = s]
    BY <1>2, <1>14 DEF SetUpPull
  <2>2. s \in Version \cup {None}
    BY Known DEF InRound, Signatures
  <2>3. n \in WorkerState /\ n.at = "select" /\ r.at = "watch"
    BY <1>1, <2>1, <2>2, <1>14 DEF WorkerState, Place, SetUpPull, At
  <2> HIDE DEF r, n
  <2> QED
    BY <1>1, <2>3, StepsLeftInRound DEF r, n
<1> QED
  BY <1>3, <1>4, <1>5, <1>6, <1>7, <1>8, <1>9, <1>10, <1>11, <1>12, <1>13, <1>14
     DEF Proceed, Round, SetUp, RsyncEnds

(* What a step is to one of the workers.                                   *)
LEMMA StepCases ==
    ASSUME WorkersInv, [Next]_vars, NEW w \in Worker
    PROVE  worker'[w] = worker[w] \/ WorkerStep(w) \/ Told(w)
<1>1. worker \in [Worker -> WorkerState \cup {None}]
    BY DEF WorkersInv, TypeOK
<1>2. ASSUME NEW u \in Worker, u # w, WorkerStep(u) \/ Told(u)
      PROVE  worker'[w] = worker[w]
  <2>1. CASE Round(u)
    BY <1>1, <1>2, <2>1
       DEF Round, RsyncStart, RsyncReaped, SuccessSeen, Retry, GiveUp, BackoffOver
  <2>2. CASE SetUp(u) \/ Watcher(u) \/ Stopped(u) \/ TimerExpired(u) \/ SignaturePolled(u)
    BY <1>1, <1>2, <2>2
       DEF SetUp, SetUpPush, SetUpPull, Watcher, WatcherStarts, WatcherFails, WatcherPolls,
           Stopped, TimerExpired, SignaturePolled
  <2>3. CASE FileChanged(u)
    BY <1>1, <1>2, <2>3 DEF FileChanged, Debounce
  <2>4. CASE RsyncReads(u) \/ RsyncEnds(u) \/ ReaderReports(u) \/ ReaderEnds(u) \/ Told(u)
    BY <1>1, <1>2, <2>4
       DEF RsyncReads, RsyncEnds, RsyncSucceeds, RsyncFails, ReaderReports, ReaderEnds,
           Told, Tell
  <2> QED
    BY <1>2, <2>1, <2>2, <2>3, <2>4 DEF WorkerStep
<1> QED
  BY <1>2 DEF Next, vars, Edit

(* What no step but those of a round changes in it.                        *)
SameRound(n, r) ==
    /\ n \in WorkerState
    /\ n.task = r.task /\ n.at = r.at /\ n.tries = r.tries /\ n.armed = r.armed
    /\ n.rsync = r.rsync /\ n.read = r.read /\ n.reading = r.reading

LEMMA RoundStays ==
    ASSUME WorkersInv, [Next]_vars, NEW w \in Worker, InRound(w), ~Proceed(w)
    PROVE  SameRound(worker'[w], worker[w])
<1>1. worker[w] \in WorkerState /\ worker \in [Worker -> WorkerState \cup {None}]
    BY Known DEF InRound, WorkersInv, TypeOK
<1>2. CASE worker'[w] = worker[w]
    BY <1>1, <1>2 DEF SameRound
<1>3. CASE Watcher(w)
  <2>1. origin[TaskOf(w)] \in Version
    BY Known DEF InRound
  <2> QED
    BY <1>1, <1>3, <2>1
       DEF SameRound, Watcher, WatcherStarts, WatcherFails, WatcherPolls, WorkerState
<1>4. CASE ReaderReports(w)
    BY <1>1, <1>4 DEF SameRound, ReaderReports
<1>5. CASE Told(w)
  <2>1. worker'[w] = [worker[w] EXCEPT !.told = TRUE]
    BY <1>1, <1>5 DEF Told, Tell
  <2> QED
    BY <1>1, <2>1 DEF SameRound, WorkerState
<1>6. ~(Stopped(w) \/ FileChanged(w) \/ TimerExpired(w) \/ SignaturePolled(w))
    BY DEF InRound, Stopped, Listens, FileChanged, TimerExpired, SignaturePolled, At
<1> QED
  BY <1>2, <1>3, <1>4, <1>5, <1>6, StepCases DEF WorkerStep, Proceed

LEMMA RoundMovesOn ==
    ASSUME WorkersInv, [Next]_vars, NEW w \in Worker, InRound(w)
    PROVE  /\ worker'[w] \in WorkerState
           /\ StepsLeft(worker'[w]) <= StepsLeft(worker[w])
           /\ Proceed(w) => StepsLeft(worker'[w]) < StepsLeft(worker[w])
<1>1. worker[w] \in WorkerState
    BY Known DEF InRound
<1>2. CASE Proceed(w)
  <2>1. worker'[w] \in WorkerState /\ StepsLeft(worker'[w]) < StepsLeft(worker[w])
    BY <1>2, RoundGoesOn
  <2> QED
    BY <1>1, <2>1, StepsLeftType
<1>3. CASE ~Proceed(w)
  <2>1. worker'[w] \in WorkerState /\ StepsLeft(worker'[w]) = StepsLeft(worker[w])
    BY <1>3, RoundStays DEF SameRound, StepsLeft, AttemptLeft
  <2> QED
    BY <1>1, <1>3, <2>1, StepsLeftType
<1> QED
  BY <1>2, <1>3

(* A round and the set-up of the watcher run to their end: whatever the    *)
(* child, its reader, the watcher and the other workers do, the worker is  *)
(* never sent back in it, and no step of its own leaves it where it was    *)
(* (retry_run_rsync and spawn_sync_worker up to its select!).              *)
THEOREM RoundsAreProgress == Spec => RoundsMoveOn
<1>1. WorkersInv /\ [Next]_vars =>
        [\A w \in Worker : InRound(w) =>
            /\ StepsLeft(worker'[w]) <= StepsLeft(worker[w])
            /\ Proceed(w) => StepsLeft(worker'[w]) < StepsLeft(worker[w])]_vars
    BY RoundMovesOn
<1> QED
  BY <1>1, WorkersAreInvariant, PTL DEF Spec, RoundsMoveOn

-----------------------------------------------------------------------------
(* What fairness brings about.  The prover does not know what is ENABLED:  *)
(* that is NeverStuck, which TLC checks and these theorems assume.         *)

LEMMA WorkerStays ==
    ASSUME WorkersInv, [Next]_vars, NEW w \in Worker, worker[w] # None
    PROVE  \/ worker'[w] = None
           \/ /\ TaskOf(w)' = TaskOf(w)
              /\ worker[w].told => worker'[w].told
<1> DEFINE r == worker[w]
           n == worker'[w]
<1>1. r \in WorkerState /\ worker \in [Worker -> WorkerState \cup {None}]
    BY Known DEF WorkersInv, TypeOK
<1>2. SUFFICES n = None \/ (n.task = r.task /\ (r.told => n.told))
    BY DEF TaskOf
<1>3. CASE n = r
    BY <1>3
<1>4. CASE Round(w)
  <2>1. CASE SuccessSeen(w) \/ GiveUp(w)
    <3>1. n = AfterRound(w)
      BY <1>1, <2>1 DEF SuccessSeen, GiveUp
    <3> QED
      BY <1>1, <3>1 DEF AfterRound, WorkerState
  <2>2. CASE RsyncStart(w) \/ RsyncReaped(w) \/ Retry(w) \/ BackoffOver(w)
    BY <1>1, <2>2 DEF RsyncStart, RsyncReaped, Retry, BackoffOver, WorkerState
  <2> QED
    BY <1>4, <2>1, <2>2 DEF Round
<1>5. CASE SetUp(w) \/ Watcher(w) \/ Stopped(w) \/ FileChanged(w)
    BY <1>1, <1>5
       DEF SetUp, SetUpPush, SetUpPull, Watcher, WatcherStarts, WatcherFails, WatcherPolls,
           Stopped, FileChanged, Debounce, WorkerState
<1>6. CASE TimerExpired(w) \/ SignaturePolled(w)
  <2>1. CASE TimerExpired(w)
    <3>1. n = NewRound(w)
      BY <1>1, <2>1 DEF TimerExpired
    <3> QED
      BY <1>1, <3>1 DEF NewRound, WorkerState
  <2>2. CASE SignaturePolled(w)
    <3>1. n = [NewRound(w) EXCEPT !.signature = origin[TaskOf(w)]]
      BY <1>1, <2>2 DEF SignaturePolled
    <3> QED
      BY <1>1, <3>1 DEF NewRound, WorkerState
  <2> QED
    BY <1>6, <2>1, <2>2
<1>7. CASE RsyncReads(w) \/ RsyncEnds(w) \/ ReaderReports(w) \/ ReaderEnds(w)
    BY <1>1, <1>7
       DEF RsyncReads, RsyncEnds, RsyncSucceeds, RsyncFails, ReaderReports, ReaderEnds,
           WorkerState
<1>8. CASE Told(w)
  <2>1. n = [r EXCEPT !.told = TRUE]
    BY <1>1, <1>8 DEF Told, Tell
  <2> QED
    BY <1>1, <2>1 DEF WorkerState
<1> QED
  BY <1>3, <1>4, <1>5, <1>6, <1>7, <1>8, StepCases DEF WorkerStep

(* The rounds of a worker that is scheduled end.                           *)
Near(w, k) == StepsLeft(worker[w]) < k
EndsFrom(w, k) == [](InRound(w) /\ Near(w, k) => <>~InRound(w))

CanProceed(w) == InRound(w) => ENABLED <<Proceed(w)>>_vars
Scheduled(w)  == Spec /\ WF_vars(Proceed(w)) /\ []CanProceed(w)

LEMMA OneStepNearer ==
    ASSUME NEW w \in Worker, NEW k \in Nat, NEW j \in Nat, j = k + 1
    PROVE  Scheduled(w) /\ EndsFrom(w, k) => EndsFrom(w, j)
<1>1. WorkersInv /\ [Next]_vars /\ Near(w, j) /\ InRound(w) => Near(w, j)'
  <2> SUFFICES ASSUME WorkersInv, [Next]_vars, Near(w, j), InRound(w)
               PROVE  Near(w, j)'
    OBVIOUS
  <2>1. /\ StepsLeft(worker[w]) \in Int /\ StepsLeft(worker'[w]) \in Int
        /\ StepsLeft(worker'[w]) <= StepsLeft(worker[w])
    BY Known, RoundMovesOn, StepsLeftType DEF InRound
  <2>2. StepsLeft(worker'[w]) < j
    BY <2>1 DEF Near
  <2> QED
    BY <2>2 DEF Near, StepsLeft, AttemptLeft
<1>2. WorkersInv /\ Near(w, j) /\ InRound(w) /\ <<Proceed(w)>>_vars => Near(w, k)'
  <2> SUFFICES ASSUME WorkersInv, Near(w, j), InRound(w), Proceed(w)
               PROVE  Near(w, k)'
    OBVIOUS
  <2>1. /\ StepsLeft(worker[w]) \in Int /\ StepsLeft(worker'[w]) \in Int
        /\ StepsLeft(worker'[w]) < StepsLeft(worker[w])
    BY Known, RoundGoesOn, StepsLeftType DEF InRound
  <2>2. StepsLeft(worker'[w]) < k
    BY <2>1 DEF Near
  <2> QED
    BY <2>2 DEF Near, StepsLeft, AttemptLeft
<1> QED
    BY <1>1, <1>2, WorkersAreInvariant, PTL DEF Scheduled, CanProceed, EndsFrom, Spec

LEMMA FourStepsNearer ==
    ASSUME NEW w \in Worker, NEW k \in Nat, NEW j \in Nat, j = k + 4
    PROVE  Scheduled(w) /\ EndsFrom(w, k) => EndsFrom(w, j)
<1>1. /\ k + 1 \in Nat /\ k + 2 \in Nat /\ k + 3 \in Nat
      /\ k + 2 = (k + 1) + 1 /\ k + 3 = (k + 2) + 1 /\ j = (k + 3) + 1
    OBVIOUS
<1>2. Scheduled(w) /\ EndsFrom(w, k) => EndsFrom(w, k + 1)
    BY <1>1, OneStepNearer
<1>3. Scheduled(w) /\ EndsFrom(w, k + 1) => EndsFrom(w, k + 2)
    BY <1>1, OneStepNearer
<1>4. Scheduled(w) /\ EndsFrom(w, k + 2) => EndsFrom(w, k + 3)
    BY <1>1, OneStepNearer
<1>5. Scheduled(w) /\ EndsFrom(w, k + 3) => EndsFrom(w, j)
    BY <1>1, OneStepNearer
<1> QED
    BY <1>2, <1>3, <1>4, <1>5

LEMMA RoundEnds ==
    ASSUME NEW w \in Worker
    PROVE  Scheduled(w) => (InRound(w) ~> ~InRound(w))
<1>1. WorkersInv /\ InRound(w) => ~Near(w, 0) /\ Near(w, 24)
    BY Known, StepsLeftType DEF Near, InRound
<1>2. Scheduled(w) => EndsFrom(w, 0)
    BY <1>1, WorkersAreInvariant, PTL DEF Scheduled, EndsFrom
<1>3. Scheduled(w) => EndsFrom(w, 4)
    BY <1>2, FourStepsNearer
<1>4. Scheduled(w) => EndsFrom(w, 8)
    BY <1>3, FourStepsNearer
<1>5. Scheduled(w) => EndsFrom(w, 12)
    BY <1>4, FourStepsNearer
<1>6. Scheduled(w) => EndsFrom(w, 16)
    BY <1>5, FourStepsNearer
<1>7. Scheduled(w) => EndsFrom(w, 20)
    BY <1>6, FourStepsNearer
<1>8. Scheduled(w) => EndsFrom(w, 24)
    BY <1>7, FourStepsNearer
<1> QED
    BY <1>1, <1>8, WorkersAreInvariant, PTL DEF Scheduled, EndsFrom

Gone(w)     == worker[w] = None
MustStop(w) == worker[w] # None /\ worker[w].told

CanStop(w) == At(w, "select") /\ worker[w].told => ENABLED <<Stopped(w)>>_vars

LEMMA ToldEnds ==
    ASSUME NEW w \in Worker
    PROVE  Scheduled(w) /\ SF_vars(Stopped(w)) /\ []CanStop(w) => (MustStop(w) ~> Gone(w))
<1>1. WorkersInv /\ [Next]_vars /\ MustStop(w) => MustStop(w)' \/ Gone(w)'
    BY WorkerStays DEF MustStop, Gone
<1>2. MustStop(w) => InRound(w) \/ (At(w, "select") /\ worker[w].told)
    BY DEF MustStop, InRound, At
<1>3. WorkersInv /\ <<Stopped(w)>>_vars => Gone(w)'
    BY DEF Stopped, Gone, WorkersInv, TypeOK
<1>4. InRound(w) => ~At(w, "select")
    BY DEF InRound, At
<1> QED
    BY <1>1, <1>2, <1>3, <1>4, RoundEnds, WorkersAreInvariant, PTL
       DEF Scheduled, CanStop, Spec

(* A worker that is told to stop ends, although it listens in its select!  *)
(* alone: a round, with its retries and its backoffs, comes to an end, and *)
(* no other branch of the select! keeps the kill from being heard.         *)
THEOREM EveryStopIsHeard == FairSpec /\ []NeverStuck => WorkerEnds
<1> SUFFICES ASSUME NEW w \in Worker
             PROVE  FairSpec /\ []NeverStuck => (worker[w] # None /\ worker[w].told ~> worker[w] = None)
    BY DEF WorkerEnds
<1>1. FairSpec => Spec /\ Fairness(w)
    BY DEF FairSpec
<1>2. NeverStuck => CanProceed(w) /\ CanStop(w)
    BY DEF NeverStuck, CanProceed, CanStop
<1> QED
    BY <1>1, <1>2, ToldEnds, PTL DEF Scheduled, Fairness, MustStop, Gone

-----------------------------------------------------------------------------
(* Why every change arrives.  Handled is what is to come about, Due that   *)
(* it still matters; a round that is Fresh will bring it about.            *)

Handled(w, t, v) ==
    \/ replica[t] >= v \/ status[t] = "ERROR (Max Retries)"
    \/ worker[w] = None \/ worker[w].told

Due(w, t, v) == worker[w] # None /\ TaskOf(w) = t /\ origin[t] >= v

(* A round of retry_run_rsync that has not read, or has read the change.   *)
Fresh(w, v) ==
    LET r == worker[w]
    IN /\ r # None /\ ~r.armed /\ r.at \in {"attempt", "backoff", "rsync", "check"}
       /\ r.at \in {"rsync", "check"} => r.read = None \/ r.read >= v

LEMMA OriginGrows ==
    ASSUME WorkersInv, [Next]_vars, NEW t \in Task
    PROVE  origin'[t] \in Version /\ origin'[t] >= origin[t]
<1>1. origin \in [Task -> Version]
    BY DEF WorkersInv, TypeOK
<1>2. CASE UNCHANGED origin
    BY <1>1, <1>2 DEF Version
<1>3. ASSUME NEW x \in Task, Edit(x)
      PROVE  origin'[t] \in Version /\ origin'[t] >= origin[t]
    BY <1>1, <1>3 DEF Edit, Version
<1>4. ASSUME NEW w \in Worker, WorkerStep(w) \/ Told(w) PROVE UNCHANGED origin
    BY <1>4
       DEF WorkerStep, Round, RsyncStart, RsyncReaped, SuccessSeen, Retry, GiveUp, BackoffOver,
           SetUp, SetUpPush, SetUpPull, Watcher, WatcherStarts, WatcherFails, WatcherPolls,
           Stopped, FileChanged, TimerExpired, SignaturePolled, Told,
           RsyncReads, RsyncEnds, RsyncSucceeds, RsyncFails, ReaderReports, ReaderEnds
<1> QED
  BY <1>2, <1>3, <1>4 DEF Next, vars

LEMMA StaysDue ==
    ASSUME WorkersInv, [Next]_vars,
           NEW w \in Worker, NEW t \in Task, NEW v \in Version, Due(w, t, v)
    PROVE  Due(w, t, v)' \/ Handled(w, t, v)'
<1>1. origin'[t] \in Int /\ origin[t] \in Int /\ origin'[t] >= origin[t] /\ v \in Int
    BY OriginGrows DEF WorkersInv, TypeOK, Version
<1>2. worker'[w] = None \/ TaskOf(w)' = t
    BY WorkerStays DEF Due
<1>3. origin'[t] >= v
    BY <1>1 DEF Due
<1>4. worker'[w] = None => Handled(w, t, v)'
    BY DEF Handled
<1> QED
  BY <1>2, <1>3, <1>4 DEF Due

(* A fresh round stays one, or ends with the change handled.               *)
LEMMA StaysFresh ==
    ASSUME IndInv, [Next]_vars,
           NEW w \in Worker, NEW t \in Task, NEW v \in Version,
           Due(w, t, v), Fresh(w, v)
    PROVE  Fresh(w, v)' \/ Handled(w, t, v)'
<1> DEFINE r == worker[w]
           n == worker'[w]
<1>0. WorkersInv
    BY DEF IndInv
<1>1. /\ r \in WorkerState /\ worker \in [Worker -> WorkerState \cup {None}]
      /\ TaskOf(w) = t /\ InRound(w) /\ origin[t] >= v /\ origin[t] \in Version
      /\ IdleIsOwn(r, status[t]) /\ Copied(r, replica[t])
    BY <1>0, Known DEF WorkersInv, TypeOK, Due, Fresh, InRound, Sound
<1>2. SUFFICES ASSUME ~Handled(w, t, v)'
               PROVE  /\ n # None /\ ~n.armed /\ n.at \in {"attempt", "backoff", "rsync", "check"}
                      /\ n.at \in {"rsync", "check"} => n.read = None \/ n.read >= v
    BY DEF Fresh
<1>3. n # None
    BY <1>2 DEF Handled
<1>4. /\ ~r.armed /\ r.at \in {"attempt", "backoff", "rsync", "check"}
      /\ r.at \in {"rsync", "check"} => r.read = None \/ r.read >= v
    BY DEF Fresh
<1>5. CASE ~Proceed(w)
    BY <1>0, <1>1, <1>3, <1>4, <1>5, RoundStays DEF SameRound
<1>6. CASE RsyncStart(w) \/ RsyncReaped(w) \/ Retry(w) \/ BackoffOver(w)
    BY <1>1, <1>3, <1>4, <1>6
       DEF RsyncStart, RsyncReaped, Retry, BackoffOver, At, WorkerState
<1>7. CASE RsyncReads(w)
    BY <1>1, <1>3, <1>4, <1>7 DEF RsyncReads, WorkerState
<1>8. CASE RsyncEnds(w) \/ ReaderEnds(w)
    BY <1>1, <1>3, <1>4, <1>8
       DEF RsyncEnds, RsyncSucceeds, RsyncFails, ReaderEnds, WorkerState
<1>9. CASE SuccessSeen(w)
  <2>1. r.at = "check" /\ status[t] = "IDLE" /\ UNCHANGED replica
    BY <1>1, <1>9 DEF SuccessSeen, At
  <2>2. r.read # None /\ replica[t] = r.read
    BY <1>1, <2>1 DEF IdleIsOwn, Copied
  <2>3. replica'[t] >= v
    BY <1>4, <2>1, <2>2
  <2> QED
    BY <1>2, <2>3 DEF Handled
<1>10. CASE GiveUp(w)
  <2>1. status'[t] = "ERROR (Max Retries)"
    BY <1>0, <1>1, <1>10 DEF GiveUp, UpdateStatus, StatusUpdated, IndInv, WorkersInv, TypeOK
  <2> QED
    BY <1>2, <2>1 DEF Handled
<1>11. ~SetUp(w)
    BY <1>4 DEF SetUp, SetUpPush, SetUpPull, At
<1> QED
  BY <1>5, <1>6, <1>7, <1>8, <1>9, <1>10, <1>11 DEF Proceed, Round

(* What a worker in its select! that has not handled the change has left.  *)
Armed(w)    == At(w, "select") /\ worker[w].armed
Event(w)    == At(w, "select") /\ worker[w].event
Unheard(w)  == /\ At(w, "select") /\ worker[w].watcher = "on"
               /\ worker[w].watched # origin[TaskOf(w)]
Unpolled(w) == /\ At(w, "select") /\ TaskOf(w) \in PullTask
               /\ worker[w].signature # origin[TaskOf(w)]

LEMMA SomethingIsLeft ==
    ASSUME IndInv, ~LateReader, ~EarlyEdits,
           NEW w \in Worker, NEW t \in Task, NEW v \in Version,
           Due(w, t, v), At(w, "select"), ~Handled(w, t, v)
    PROVE  Armed(w) \/ Event(w) \/ Unheard(w) \/ Unpolled(w)
<1> DEFINE r == worker[w]
           o == origin[t]
<1>1. /\ r \in WorkerState /\ r.at = "select" /\ TaskOf(w) = t /\ r.task = t
      /\ o >= v /\ o \in Version /\ replica[t] \in Version \cup {Mixed}
      /\ IdleIsOwn(r, status[t]) /\ Copied(r, replica[t])
      /\ StatusIsOwn(r, status[t]) /\ Heard(r, o) /\ IsShown(status[t])
    BY Known DEF IndInv, Due, At, Sound, IsShown
<1>2. ~(replica[t] >= v) /\ status[t] # "ERROR (Max Retries)"
    BY DEF Handled
<1>3. r.rsync \in {"ok", "failed"}
    BY <1>1 DEF IdleIsOwn, WorkerState
<1>4. CASE r.rsync = "failed"
    BY <1>1, <1>2, <1>4 DEF StatusIsOwn, Armed, At
<1>5. CASE r.rsync = "ok"
  <2>1. r.read # None /\ replica[t] = r.read /\ r.read \in Version
    BY <1>1, <1>5 DEF Copied, WorkerState
  <2>2. r.read < o
    <3>1. r.read \in Int /\ o \in Int /\ v \in Int
      BY <1>1, <2>1 DEF Version
    <3>2. ~(r.read >= v) /\ o >= v
      BY <1>1, <1>2, <2>1
    <3> HIDE DEF r, o
    <3> QED
      BY <3>1, <3>2
  <2>3. r.watcher = "on" \/ t \in PullTask
    BY <1>1, <2>1, <2>2 DEF Heard, Version
  <2>4. ASSUME ~r.event, ~r.armed PROVE r.watched # o /\ r.signature # o
    BY <1>1, <2>1, <2>2, <2>4 DEF Heard, Version, WorkerState
  <2> QED
    BY <1>1, <2>3, <2>4 DEF Armed, Event, Unheard, Unpolled, At
<1> QED
  BY <1>3, <1>4, <1>5

(* In the select! a branch that is ready stays so until it is taken, and   *)
(* the worker leaves for a fresh round.                                    *)
LEMMA SelectSteps ==
    ASSUME WorkersInv, [Next]_vars,
           NEW w \in Worker, NEW t \in Task, NEW v \in Version,
           Due(w, t, v), At(w, "select"), ~Handled(w, t, v)'
    PROVE  \/ Fresh(w, v)'
           \/ /\ At(w, "select")'
              /\ Armed(w) => Armed(w)'
              /\ Event(w) => Event(w)' \/ Armed(w)'
              /\ Unheard(w) => Unheard(w)' \/ Event(w)'
              /\ Unpolled(w) => Unpolled(w)'
<1> DEFINE r == worker[w]
           n == worker'[w]
<1>1. /\ r \in WorkerState /\ worker \in [Worker -> WorkerState \cup {None}]
      /\ r.at = "select" /\ TaskOf(w) = t /\ Watching(r, origin[t]) /\ origin[t] \in Version
    BY Known DEF WorkersInv, TypeOK, Due, At, Sound
<1>2. n # None
    BY DEF Handled
<1>3. CASE TimerExpired(w) \/ SignaturePolled(w)
  <2>1. n.at = "attempt" /\ ~n.armed
    <3>1. CASE TimerExpired(w)
      <4>1. n = NewRound(w)
        BY <1>1, <3>1 DEF TimerExpired
      <4> QED
        BY <1>1, <4>1 DEF NewRound, WorkerState
    <3>2. CASE SignaturePolled(w)
      <4>1. n = [NewRound(w) EXCEPT !.signature = origin[TaskOf(w)]]
        BY <1>1, <3>2 DEF SignaturePolled
      <4> QED
        BY <1>1, <4>1 DEF NewRound, WorkerState
    <3> QED
      BY <1>3, <3>1, <3>2
  <2> QED
    BY <1>2, <2>1 DEF Fresh
<1>4. ~Stopped(w) /\ ~Round(w) /\ ~SetUp(w)
    BY <1>1, <1>2
       DEF Stopped, Round, RsyncStart, RsyncReaped, SuccessSeen, Retry, GiveUp, BackoffOver,
           SetUp, SetUpPush, SetUpPull, At
<1>5. CASE \/ n = r \/ FileChanged(w) \/ Watcher(w) \/ Told(w)
           \/ RsyncReads(w) \/ RsyncEnds(w) \/ ReaderReports(w) \/ ReaderEnds(w)
  <2>1. /\ n.at = "select" /\ n.task = r.task /\ n.signature = r.signature
        /\ \/ n.watched = r.watched /\ n.watcher = r.watcher
           \/ n.event \/ r.watcher # "on"
        /\ r.armed => n.armed
        /\ r.event => n.event \/ n.armed
    <3>1. CASE FileChanged(w)
      BY <1>1, <3>1 DEF FileChanged, Debounce, WorkerState
    <3>2. CASE Watcher(w)
      BY <1>1, <3>2 DEF Watcher, WatcherStarts, WatcherFails, WatcherPolls, WorkerState
    <3>3. CASE Told(w)
      <4>1. n = [r EXCEPT !.told = TRUE]
        BY <1>1, <3>3 DEF Told, Tell
      <4> QED
        BY <1>1, <4>1 DEF WorkerState
    <3>4. CASE RsyncReads(w) \/ RsyncEnds(w) \/ ReaderReports(w) \/ ReaderEnds(w)
      BY <1>1, <3>4
         DEF RsyncReads, RsyncEnds, RsyncSucceeds, RsyncFails, ReaderReports, ReaderEnds,
             WorkerState
    <3> QED
      BY <1>1, <1>5, <3>1, <3>2, <3>3, <3>4
  <2>2. TaskOf(w)' = t /\ At(w, "select")'
    BY <1>1, <1>2, <2>1 DEF TaskOf, At
  <2>3. origin'[t] \in Version /\ origin'[t] >= origin[t]
    BY <1>1, OriginGrows DEF Due, WorkerState, TaskOf
  <2>4. \A x \in {r.watched, r.signature} : x # origin[t] => x # origin'[t]
    <3> SUFFICES ASSUME NEW x \in {r.watched, r.signature}, x # origin[t], x = origin'[t]
                 PROVE  FALSE
      OBVIOUS
    <3>1. x # None /\ x \in Int /\ origin[t] \in Int /\ origin'[t] \in Int
      BY <1>1, <2>3 DEF Version
    <3>2. x <= origin[t]
      BY <1>1, <3>1 DEF Watching
    <3> QED
      BY <2>3, <3>1, <3>2
  <2> QED
    BY <1>1, <2>1, <2>2, <2>4 DEF Armed, Event, Unheard, Unpolled, At, TaskOf
<1> QED
  BY <1>3, <1>4, <1>5, StepCases DEF WorkerStep

(* What each branch that is taken brings.                                  *)
LEMMA BranchTaken ==
    ASSUME WorkersInv, NEW w \in Worker, NEW v
    PROVE  /\ TimerExpired(w) \/ SignaturePolled(w) => Fresh(w, v)'
           /\ FileChanged(w) => Armed(w)'
           /\ At(w, "select") /\ worker[w].watcher = "on" /\ Watcher(w) => Event(w)'
<1>1. worker \in [Worker -> WorkerState \cup {None}]
    BY DEF WorkersInv, TypeOK
<1>2. ASSUME worker[w] # None, NEW s \in Version \cup {None},
             \/ worker'[w] = NewRound(w)
             \/ worker'[w] = [NewRound(w) EXCEPT !.signature = s]
      PROVE  Fresh(w, v)'
  <2>1. worker[w] \in WorkerState
    BY <1>2, Known
  <2>2. worker'[w].at = "attempt" /\ ~worker'[w].armed
    BY <1>2, <2>1 DEF NewRound, WorkerState
  <2>3. NewRound(w) \in WorkerState /\ [NewRound(w) EXCEPT !.signature = s] \in WorkerState
    <3>1. "attempt" \in Place /\ 0 \in 0..MaxRetries
      BY DEF Place, MaxRetries
    <3> QED
      BY <1>2, <2>1, <3>1 DEF NewRound, WorkerState
  <2> QED
    BY <1>2, <2>2, <2>3 DEF Fresh
<1>3. ASSUME TimerExpired(w) PROVE Fresh(w, v)'
  <2>1. worker[w] # None /\ worker'[w] = NewRound(w)
    BY <1>1, <1>3 DEF TimerExpired, At
  <2> QED
    BY <1>2, <2>1
<1>4. ASSUME SignaturePolled(w) PROVE Fresh(w, v)'
  <2>1. /\ worker[w] # None
        /\ worker'[w] = [NewRound(w) EXCEPT !.signature = origin[TaskOf(w)]]
    BY <1>1, <1>4 DEF SignaturePolled, At
  <2>2. origin[TaskOf(w)] \in Version
    BY <2>1, Known
  <2> QED
    BY <1>2, <2>1, <2>2
<1>5. ASSUME FileChanged(w) PROVE Armed(w)'
  <2>1. worker[w] \in WorkerState /\ worker[w].at = "select"
    BY <1>5, Known DEF FileChanged, At
  <2>2. PICK more \in {FALSE, worker[w].event} :
           worker'[w] = [worker[w] EXCEPT !.event = more, !.armed = TRUE]
    BY <1>1, <1>5 DEF FileChanged, Debounce
  <2>3. worker'[w] \in WorkerState
    BY <2>1, <2>2 DEF WorkerState
  <2> QED
    BY <2>1, <2>2, <2>3 DEF Armed, At, WorkerState
<1>6. ASSUME At(w, "select"), worker[w].watcher = "on", Watcher(w) PROVE Event(w)'
  <2>1. /\ worker[w] \in WorkerState /\ worker[w].at = "select"
        /\ origin[TaskOf(w)] \in Version
    BY <1>6, Known DEF At
  <2>2. worker'[w] = [worker[w] EXCEPT !.watched = origin[TaskOf(w)], !.event = TRUE]
    BY <1>1, <1>6, <2>1 DEF Watcher, WatcherStarts, WatcherFails, WatcherPolls
  <2>3. worker'[w] \in WorkerState
    BY <2>1, <2>2 DEF WorkerState
  <2> QED
    BY <2>1, <2>2, <2>3 DEF Event, At, WorkerState
<1> QED
  BY <1>3, <1>4, <1>5, <1>6

(* The branches of the select! and the watcher, as they are scheduled.     *)
CanBranch(w) ==
    /\ Armed(w) => ENABLED <<TimerExpired(w)>>_vars
    /\ Event(w) => ENABLED <<FileChanged(w)>>_vars
    /\ Unheard(w) => ENABLED <<Watcher(w)>>_vars
    /\ Unpolled(w) => ENABLED <<SignaturePolled(w)>>_vars

Branches(w) ==
    /\ WF_vars(Watcher(w)) /\ SF_vars(FileChanged(w))
    /\ SF_vars(TimerExpired(w)) /\ SF_vars(SignaturePolled(w))
    /\ []CanBranch(w)

LEMMA DueIsHandled ==
    ASSUME ~LateReader, ~EarlyEdits,
           NEW w \in Worker, NEW t \in Task, NEW v \in Version
    PROVE  Scheduled(w) /\ Branches(w) => (Due(w, t, v) ~> Handled(w, t, v))
<1>1. IndInv /\ [Next]_vars /\ Due(w, t, v) => Due(w, t, v)' \/ Handled(w, t, v)'
    BY StaysDue DEF IndInv
<1>2. IndInv /\ [Next]_vars /\ Due(w, t, v) /\ Fresh(w, v)
        => Fresh(w, v)' \/ Handled(w, t, v)'
    BY StaysFresh
<1>3. IndInv /\ Due(w, t, v) /\ At(w, "select") /\ ~Handled(w, t, v)
        => Armed(w) \/ Event(w) \/ Unheard(w) \/ Unpolled(w)
    BY SomethingIsLeft
<1>4. IndInv /\ [Next]_vars /\ Due(w, t, v) /\ At(w, "select") /\ ~Handled(w, t, v)'
        => \/ Fresh(w, v)'
           \/ /\ At(w, "select")'
              /\ Armed(w) => Armed(w)'
              /\ Event(w) => Event(w)' \/ Armed(w)'
              /\ Unheard(w) => Unheard(w)' \/ Event(w)'
              /\ Unpolled(w) => Unpolled(w)'
    BY SelectSteps DEF IndInv
<1>5. IndInv /\ <<TimerExpired(w)>>_vars => Fresh(w, v)'
    BY BranchTaken DEF IndInv
<1>6. IndInv /\ <<SignaturePolled(w)>>_vars => Fresh(w, v)'
    BY BranchTaken DEF IndInv
<1>7. IndInv /\ <<FileChanged(w)>>_vars => Armed(w)'
    BY BranchTaken DEF IndInv
<1>8. IndInv /\ Unheard(w) /\ <<Watcher(w)>>_vars => Event(w)'
    BY BranchTaken DEF IndInv, Unheard
<1>9. Due(w, t, v) => InRound(w) \/ At(w, "select")
    BY DEF Due, InRound, At
<1>10. Fresh(w, v) => InRound(w)
    BY DEF Fresh, InRound
<1>11. InRound(w) => ~At(w, "select")
    BY DEF InRound, At
(* Unless it is handled: no round is fresh, for that would end handled.    *)
<1>12. Scheduled(w) => (Due(w, t, v) /\ Fresh(w, v) ~> Handled(w, t, v))
    BY <1>1, <1>2, <1>10, RoundEnds, Invariance, PTL DEF Scheduled, Spec
<1>13. Scheduled(w) /\ Branches(w) => (Due(w, t, v) /\ Armed(w) ~> Handled(w, t, v))
    BY <1>1, <1>4, <1>5, <1>12, Invariance, PTL DEF Scheduled, Branches, CanBranch, Spec, Armed
<1>14. Scheduled(w) /\ Branches(w) => (Due(w, t, v) /\ Event(w) ~> Handled(w, t, v))
    BY <1>1, <1>4, <1>7, <1>12, <1>13, Invariance, PTL
       DEF Scheduled, Branches, CanBranch, Spec, Event
<1>15. Scheduled(w) /\ Branches(w) => (Due(w, t, v) /\ Unheard(w) ~> Handled(w, t, v))
    BY <1>1, <1>4, <1>8, <1>12, <1>14, Invariance, PTL
       DEF Scheduled, Branches, CanBranch, Spec, Unheard
<1>16. Scheduled(w) /\ Branches(w) => (Due(w, t, v) /\ Unpolled(w) ~> Handled(w, t, v))
    BY <1>1, <1>4, <1>6, <1>12, Invariance, PTL
       DEF Scheduled, Branches, CanBranch, Spec, Unpolled
<1>17. Scheduled(w) /\ Branches(w)
         => (Due(w, t, v) /\ At(w, "select") ~> Handled(w, t, v))
    BY <1>3, <1>13, <1>14, <1>15, <1>16, Invariance, PTL DEF Scheduled, Spec
<1> QED
    BY <1>1, <1>9, <1>17, RoundEnds, Invariance, PTL DEF Scheduled, Spec

(* Every change of a watched tree arrives in its replica, or the status    *)
(* says that it did not, unless the worker is stopped: through the watcher *)
(* and its debounce, or the polls of the signature, a round that starts    *)
(* after the change, its retries, and a change that comes during a round.  *)
THEOREM EveryChangeIsHandled ==
    ASSUME ~LateReader, ~EarlyEdits
    PROVE  FairSpec /\ []NeverStuck => ChangesAreHandled
<1> SUFFICES ASSUME NEW w \in Worker, NEW t \in Task, NEW v \in Version
             PROVE  FairSpec /\ []NeverStuck =>
                      (worker[w] # None /\ TaskOf(w) = t /\ origin[t] = v
                         ~> \/ replica[t] >= v
                            \/ status[t] = "ERROR (Max Retries)"
                            \/ worker[w] = None \/ worker[w].told)
    BY DEF ChangesAreHandled
<1>1. FairSpec => Spec /\ Fairness(w)
    BY DEF FairSpec
<1>2. NeverStuck => CanProceed(w) /\ CanBranch(w)
    BY DEF NeverStuck, CanProceed, CanBranch, Armed, Event, Unheard, Unpolled
<1>3. worker[w] # None /\ TaskOf(w) = t /\ origin[t] = v => Due(w, t, v)
    BY DEF Due, Version
<1> QED
    BY <1>1, <1>2, <1>3, DueIsHandled, PTL DEF Scheduled, Branches, Fairness, Handled

=============================================================================
