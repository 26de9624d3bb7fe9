-------------------------- MODULE SyncDaemonProofs --------------------------
(***************************************************************************)
(* Proofs about SyncDaemon, and with it about the workers of SyncWorker:   *)
(* for any tasks, workers and connections, with kills of the daemon at any *)
(* point, a registered task has one worker that stays and that the daemon  *)
(* can tell to stop.  Without restarts and kills, what SyncWorkerProofs    *)
(* says of statuses and replicas holds in the daemon too.                  *)
(***************************************************************************)
EXTENDS SyncDaemon, TLAPS

USE DaemonAssumption DEF W!WorkerAssumption

(* An attempt has been made for every failure that is counted.             *)
Fits(r) ==
    /\ r.at \in {"attempt", "rsync", "backoff"} => r.failures <= r.tries
    /\ r.at = "check" => r.failures <= r.tries + 1

WorkersFit ==
    /\ worker \in [Worker -> W!WorkerState \cup {None}]
    /\ \A w \in Worker : worker[w] # None => Fits(worker[w])

(* The workers that stay, per task: all that the registry depends on.      *)
Stay == [t \in Task |-> Staying(t)]

StatusOK == status \in [Task -> W!Status \cup {None}]
TreesOK == /\ origin \in [Task -> W!Version]
           /\ replica \in [Task -> W!Version \cup {W!Mixed}]

SameRegistered == \A t \in Task : status'[t] = None <=> status[t] = None

WorkersOK == WorkersFit /\ StatusOK /\ TreesOK

(* What a step of the workers does to the rest of the daemon: nothing.     *)
Unnoticed == WorkersOK' /\ Stay' = Stay /\ SameRegistered

-----------------------------------------------------------------------------
(* What a step may do to a worker.                                         *)

LEMMA StayIs ==
    ASSUME NEW t \in Task, NEW w
    PROVE  w \in Stay[t] <=> /\ w \in Worker /\ worker[w] # None
                             /\ worker[w].task = t /\ ~worker[w].told
BY DEF Stay, Staying, W!Live, W!TaskOf

(* It goes on, with its task and its orders.                               *)
LEMMA Goes ==
    ASSUME WorkersOK, NEW w \in Worker, worker[w] # None,
           NEW r \in W!WorkerState, Fits(r),
           r.task = worker[w].task, r.told = worker[w].told,
           worker' = [worker EXCEPT ![w] = r],
           StatusOK', SameRegistered, TreesOK'
    PROVE  Unnoticed
<1>1. WorkersFit'
    BY DEF WorkersOK, WorkersFit, Fits
<1>2. ASSUME NEW t \in Task
      PROVE  Staying(t)' = Staying(t)
    BY DEF WorkersOK, WorkersFit, Staying, W!Live, W!TaskOf
<1> QED
    BY <1>1, <1>2 DEF Stay, Unnoticed, WorkersOK

(* Its end, which is that of a worker that had been told to stop.          *)
LEMMA Leaves ==
    ASSUME WorkersFit, NEW w \in Worker, worker[w] # None, worker[w].told,
           worker' = [worker EXCEPT ![w] = None]
    PROVE  WorkersFit' /\ Stay' = Stay
<1>1. WorkersFit'
    BY DEF WorkersFit, Fits
<1>2. ASSUME NEW t \in Task
      PROVE  Staying(t)' = Staying(t)
    BY DEF WorkersFit, Staying, W!Live, W!TaskOf
<1> QED
    BY <1>1, <1>2 DEF Stay

(* An update of a status registers nothing and removes nothing.            *)
LEMMA StatusUpdate ==
    ASSUME StatusOK, NEW t \in Task, NEW s \in W!Status, W!UpdateStatus(t, s)
    PROVE  StatusOK' /\ SameRegistered
BY DEF StatusOK, SameRegistered, W!UpdateStatus, W!StatusUpdated

LEMMA StatusStays ==
    ASSUME StatusOK, UNCHANGED status
    PROVE  StatusOK' /\ SameRegistered
BY DEF StatusOK, SameRegistered

LEMMA TreesStay ==
    ASSUME TreesOK, UNCHANGED <<origin, replica>>
    PROVE  TreesOK'
BY DEF TreesOK

(* The state of a worker that is there.                                    *)
LEMMA OldWorker ==
    ASSUME WorkersOK, NEW w \in Worker, worker[w] # None
    PROVE  worker[w] \in W!WorkerState /\ Fits(worker[w]) /\ W!TaskOf(w) \in Task
BY DEF WorkersOK, WorkersFit, W!WorkerState, W!TaskOf

-----------------------------------------------------------------------------
(* One lemma per step of a worker.                                         *)

LEMMA RsyncStartStep ==
    ASSUME WorkersOK, NEW w \in Worker, W!RsyncStart(w)
    PROVE  Unnoticed
<1> DEFINE old == worker[w]
           r == [old EXCEPT !.at = "rsync", !.rsync = "running",
                            !.read = None, !.reading = TRUE]
<1>1. old # None /\ old.at = "attempt"
    BY DEF W!RsyncStart, W!At
<1>2. old \in W!WorkerState /\ Fits(old) /\ W!TaskOf(w) \in Task
    BY <1>1, OldWorker
<1>3. "rsync" \in W!Place
    BY <1>1, <1>2 DEF W!WorkerState, W!Place
<1>4. r \in W!WorkerState
    BY <1>1, <1>2, <1>3 DEF W!WorkerState
<1>5. Fits(r) /\ r.task = old.task /\ r.told = old.told
    BY <1>1, <1>2, <1>3 DEF W!WorkerState, Fits
<1>6. worker' = [worker EXCEPT ![w] = r]
    BY <1>1 DEF W!RsyncStart
<1>7. StatusOK' /\ SameRegistered
    BY <1>2, StatusUpdate DEF WorkersOK, W!Status, W!RsyncStart
<1>8. TreesOK'
    BY TreesStay DEF WorkersOK, W!RsyncStart
<1> QED
    BY <1>1, <1>4, <1>5, <1>6, <1>7, <1>8, Goes

LEMMA RsyncReadsStep ==
    ASSUME WorkersOK, NEW w \in Worker, W!RsyncReads(w)
    PROVE  Unnoticed
<1> DEFINE old == worker[w]
           r == [old EXCEPT !.read = origin[W!TaskOf(w)]]
<1>1. old # None
    BY DEF W!RsyncReads, W!RsyncRunning
<1>2. old \in W!WorkerState /\ Fits(old) /\ W!TaskOf(w) \in Task
    BY <1>1, OldWorker
<1>3. origin[W!TaskOf(w)] \in W!Version
    BY <1>1, <1>2 DEF W!WorkerState, W!Place, WorkersOK, TreesOK
<1>4. r \in W!WorkerState
    BY <1>1, <1>2, <1>3 DEF W!WorkerState
<1>5. Fits(r) /\ r.task = old.task /\ r.told = old.told
    BY <1>1, <1>2, <1>3 DEF W!WorkerState, Fits
<1>6. worker' = [worker EXCEPT ![w] = r]
    BY <1>1 DEF W!RsyncReads
<1>7. StatusOK' /\ SameRegistered
    BY StatusStays DEF WorkersOK, W!RsyncReads
<1>8. TreesOK'
    BY TreesStay DEF WorkersOK, W!RsyncReads
<1> QED
    BY <1>1, <1>4, <1>5, <1>6, <1>7, <1>8, Goes

LEMMA RsyncSucceedsStep ==
    ASSUME WorkersOK, NEW w \in Worker, W!RsyncSucceeds(w)
    PROVE  Unnoticed
<1> DEFINE old == worker[w]
           r == [old EXCEPT !.rsync = "ok"]
<1>1. old # None /\ old.read # None
    BY DEF W!RsyncSucceeds, W!RsyncRunning
<1>2. old \in W!WorkerState /\ Fits(old) /\ W!TaskOf(w) \in Task
    BY <1>1, OldWorker
<1>4. r \in W!WorkerState
    BY <1>1, <1>2 DEF W!WorkerState
<1>5. Fits(r) /\ r.task = old.task /\ r.told = old.told
    BY <1>1, <1>2 DEF W!WorkerState, Fits
<1>6. worker' = [worker EXCEPT ![w] = r]
    BY <1>1 DEF W!RsyncSucceeds
<1>7. StatusOK' /\ SameRegistered
    BY StatusStays DEF WorkersOK, W!RsyncSucceeds
<1>8. TreesOK'
    BY <1>1, <1>2 DEF WorkersOK, TreesOK, W!WorkerState, W!RsyncSucceeds
<1> QED
    BY <1>1, <1>4, <1>5, <1>6, <1>7, <1>8, Goes

LEMMA RsyncFailsStep ==
    ASSUME WorkersOK, NEW w \in Worker, W!RsyncFails(w)
    PROVE  Unnoticed
<1> DEFINE old == worker[w]
           r == [old EXCEPT !.rsync = "failed"]
<1>1. old # None
    BY DEF W!RsyncFails, W!RsyncRunning
<1>2. old \in W!WorkerState /\ Fits(old) /\ W!TaskOf(w) \in Task
    BY <1>1, OldWorker
<1>4. r \in W!WorkerState
    BY <1>1, <1>2 DEF W!WorkerState
<1>5. Fits(r) /\ r.task = old.task /\ r.told = old.told
    BY <1>1, <1>2 DEF W!WorkerState, Fits
<1>6. worker' = [worker EXCEPT ![w] = r]
    BY <1>1 DEF W!RsyncFails
<1>7. StatusOK' /\ SameRegistered
    BY StatusStays DEF WorkersOK, W!RsyncFails
<1>8. TreesOK'
    BY <1>1, <1>2 DEF WorkersOK, TreesOK, W!WorkerState, W!RsyncFails
<1> QED
    BY <1>1, <1>4, <1>5, <1>6, <1>7, <1>8, Goes

LEMMA ReaderEndsStep ==
    ASSUME WorkersOK, NEW w \in Worker, W!ReaderEnds(w)
    PROVE  Unnoticed
<1> DEFINE old == worker[w]
           r == [old EXCEPT !.reading = FALSE]
<1>1. old # None
    BY DEF W!ReaderEnds
<1>2. old \in W!WorkerState /\ Fits(old) /\ W!TaskOf(w) \in Task
    BY <1>1, OldWorker
<1>4. r \in W!WorkerState
    BY <1>1, <1>2 DEF W!WorkerState
<1>5. Fits(r) /\ r.task = old.task /\ r.told = old.told
    BY <1>1, <1>2 DEF W!WorkerState, Fits
<1>6. worker' = [worker EXCEPT ![w] = r]
    BY <1>1 DEF W!ReaderEnds
<1>7. StatusOK' /\ SameRegistered
    BY StatusStays DEF WorkersOK, W!ReaderEnds
<1>8. TreesOK'
    BY TreesStay DEF WorkersOK, W!ReaderEnds
<1> QED
    BY <1>1, <1>4, <1>5, <1>6, <1>7, <1>8, Goes

LEMMA RsyncReapedStep ==
    ASSUME WorkersOK, NEW w \in Worker, W!RsyncReaped(w)
    PROVE  Unnoticed
<1> DEFINE old == worker[w]
           r == [old EXCEPT !.at = "check",
                       !.failures = IF old.rsync = "failed" THEN old.failures + 1
                                                            ELSE old.failures]
<1>1. old # None /\ old.at = "rsync"
    BY DEF W!RsyncReaped, W!At
<1>2. old \in W!WorkerState /\ Fits(old) /\ W!TaskOf(w) \in Task
    BY <1>1, OldWorker
<1>3. "check" \in W!Place
      /\ old.failures + 1 \in 0..W!MaxRetries
    BY <1>1, <1>2 DEF W!WorkerState, W!Place, Fits, W!MaxRetries
<1>4. r \in W!WorkerState
    BY <1>1, <1>2, <1>3 DEF W!WorkerState
<1>5. Fits(r) /\ r.task = old.task /\ r.told = old.told
    BY <1>1, <1>2, <1>3 DEF W!WorkerState, Fits
<1>6. worker' = [worker EXCEPT ![w] = r]
    BY <1>1 DEF W!RsyncReaped
<1>7. StatusOK' /\ SameRegistered
    BY <1>2, StatusUpdate DEF WorkersOK, W!Status, W!ExitStatus, W!RsyncReaped
<1>8. TreesOK'
    BY TreesStay DEF WorkersOK, W!RsyncReaped
<1> QED
    BY <1>1, <1>4, <1>5, <1>6, <1>7, <1>8, Goes

LEMMA SuccessSeenStep ==
    ASSUME WorkersOK, NEW w \in Worker, W!SuccessSeen(w)
    PROVE  Unnoticed
<1> DEFINE old == worker[w]
           r == W!AfterRound(w)
<1>1. old # None /\ old.at = "check"
    BY DEF W!SuccessSeen, W!At
<1>2. old \in W!WorkerState /\ Fits(old) /\ W!TaskOf(w) \in Task
    BY <1>1, OldWorker
<1>3. "select" \in W!Place /\ "watch" \in W!Place /\ 0 \in 0..(W!MaxRetries - 1)
    BY <1>1, <1>2 DEF W!WorkerState, W!Place, W!MaxRetries
<1>4. r \in W!WorkerState
    BY <1>1, <1>2, <1>3 DEF W!WorkerState, W!AfterRound
<1>5. Fits(r) /\ r.task = old.task /\ r.told = old.told
    BY <1>1, <1>2, <1>3 DEF W!WorkerState, Fits, W!AfterRound
<1>6. worker' = [worker EXCEPT ![w] = r]
    BY <1>1 DEF W!SuccessSeen
<1>7. StatusOK' /\ SameRegistered
    BY StatusStays DEF WorkersOK, W!SuccessSeen
<1>8. TreesOK'
    BY TreesStay DEF WorkersOK, W!SuccessSeen
<1> QED
    BY <1>1, <1>4, <1>5, <1>6, <1>7, <1>8, Goes

LEMMA RetryStep ==
    ASSUME WorkersOK, NEW w \in Worker, W!Retry(w)
    PROVE  Unnoticed
<1> DEFINE old == worker[w]
           r == [old EXCEPT !.at = "backoff", !.tries = old.tries + 1]
<1>1. old # None /\ old.at = "check" /\ old.tries + 1 < W!MaxRetries
    BY DEF W!Retry, W!At, W!RetriesLeft
<1>2. old \in W!WorkerState /\ Fits(old) /\ W!TaskOf(w) \in Task
    BY <1>1, OldWorker
<1>3. "backoff" \in W!Place /\ old.tries + 1 \in 0..(W!MaxRetries - 1)
    BY <1>1, <1>2 DEF W!WorkerState, W!Place, W!MaxRetries
<1>4. r \in W!WorkerState
    BY <1>1, <1>2, <1>3 DEF W!WorkerState
<1>5. Fits(r) /\ r.task = old.task /\ r.told = old.told
    BY <1>1, <1>2, <1>3 DEF W!WorkerState, Fits
<1>6. worker' = [worker EXCEPT ![w] = r]
    BY <1>1 DEF W!Retry
<1>7. StatusOK' /\ SameRegistered
    BY StatusStays DEF WorkersOK, W!Retry
<1>8. TreesOK'
    BY TreesStay DEF WorkersOK, W!Retry
<1> QED
    BY <1>1, <1>4, <1>5, <1>6, <1>7, <1>8, Goes

LEMMA GiveUpStep ==
    ASSUME WorkersOK, NEW w \in Worker, W!GiveUp(w)
    PROVE  Unnoticed
<1> DEFINE old == worker[w]
           r == W!AfterRound(w)
<1>1. old # None /\ old.at = "check"
    BY DEF W!GiveUp, W!At
<1>2. old \in W!WorkerState /\ Fits(old) /\ W!TaskOf(w) \in Task
    BY <1>1, OldWorker
<1>3. "select" \in W!Place /\ "watch" \in W!Place /\ 0 \in 0..(W!MaxRetries - 1)
    BY <1>1, <1>2 DEF W!WorkerState, W!Place, W!MaxRetries
<1>4. r \in W!WorkerState
    BY <1>1, <1>2, <1>3 DEF W!WorkerState, W!AfterRound
<1>5. Fits(r) /\ r.task = old.task /\ r.told = old.told
    BY <1>1, <1>2, <1>3 DEF W!WorkerState, Fits, W!AfterRound
<1>6. worker' = [worker EXCEPT ![w] = r]
    BY <1>1 DEF W!GiveUp
<1>7. StatusOK' /\ SameRegistered
    BY <1>2, StatusUpdate DEF WorkersOK, W!Status, W!GiveUp
<1>8. TreesOK'
    BY TreesStay DEF WorkersOK, W!GiveUp
<1> QED
    BY <1>1, <1>4, <1>5, <1>6, <1>7, <1>8, Goes

LEMMA BackoffOverStep ==
    ASSUME WorkersOK, NEW w \in Worker, W!BackoffOver(w)
    PROVE  Unnoticed
<1> DEFINE old == worker[w]
           r == [old EXCEPT !.at = "attempt"]
<1>1. old # None /\ old.at = "backoff"
    BY DEF W!BackoffOver, W!At
<1>2. old \in W!WorkerState /\ Fits(old) /\ W!TaskOf(w) \in Task
    BY <1>1, OldWorker
<1>3. "attempt" \in W!Place
    BY <1>1, <1>2 DEF W!WorkerState, W!Place
<1>4. r \in W!WorkerState
    BY <1>1, <1>2, <1>3 DEF W!WorkerState
<1>5. Fits(r) /\ r.task = old.task /\ r.told = old.told
    BY <1>1, <1>2, <1>3 DEF W!WorkerState, Fits
<1>6. worker' = [worker EXCEPT ![w] = r]
    BY <1>1 DEF W!BackoffOver
<1>7. StatusOK' /\ SameRegistered
    BY StatusStays DEF WorkersOK, W!BackoffOver
<1>8. TreesOK'
    BY TreesStay DEF WorkersOK, W!BackoffOver
<1> QED
    BY <1>1, <1>4, <1>5, <1>6, <1>7, <1>8, Goes

LEMMA SetUpPushStep ==
    ASSUME WorkersOK, NEW w \in Worker, W!SetUpPush(w)
    PROVE  Unnoticed
<1> DEFINE old == worker[w]
           r == [old EXCEPT !.at = "select", !.looping = TRUE, !.watcher = "starting"]
<1>1. old # None /\ old.at = "watch"
    BY DEF W!SetUpPush, W!At
<1>2. old \in W!WorkerState /\ Fits(old) /\ W!TaskOf(w) \in Task
    BY <1>1, OldWorker
<1>3. "select" \in W!Place
    BY <1>1, <1>2 DEF W!WorkerState, W!Place
<1>4. r \in W!WorkerState
    BY <1>1, <1>2, <1>3 DEF W!WorkerState
<1>5. Fits(r) /\ r.task = old.task /\ r.told = old.told
    BY <1>1, <1>2, <1>3 DEF W!WorkerState, Fits
<1>6. worker' = [worker EXCEPT ![w] = r]
    BY <1>1 DEF W!SetUpPush
<1>7. StatusOK' /\ SameRegistered
    BY StatusStays DEF WorkersOK, W!SetUpPush
<1>8. TreesOK'
    BY TreesStay DEF WorkersOK, W!SetUpPush
<1> QED
    BY <1>1, <1>4, <1>5, <1>6, <1>7, <1>8, Goes

LEMMA SetUpPullStep ==
    ASSUME WorkersOK, NEW w \in Worker, W!SetUpPull(w)
    PROVE  Unnoticed
<1>0. PICK s \in W!Signatures(W!TaskOf(w)) :
         worker' = [worker EXCEPT ![w].at = "select", ![w].looping = TRUE,
                                  ![w].signature = s]
    BY DEF W!SetUpPull
<1> DEFINE old == worker[w]
           r == [old EXCEPT !.at = "select", !.looping = TRUE, !.signature = s]
<1>1. old # None /\ old.at = "watch"
    BY DEF W!SetUpPull, W!At
<1>2. old \in W!WorkerState /\ Fits(old) /\ W!TaskOf(w) \in Task
    BY <1>1, OldWorker
<1>3. "select" \in W!Place /\ s \in W!Version \cup {None}
    BY <1>1, <1>2 DEF W!WorkerState, W!Place, WorkersOK, TreesOK, W!Signatures
<1>4. r \in W!WorkerState
    BY <1>1, <1>2, <1>3 DEF W!WorkerState
<1>5. Fits(r) /\ r.task = old.task /\ r.told = old.told
    BY <1>1, <1>2, <1>3 DEF W!WorkerState, Fits
<1>6. worker' = [worker EXCEPT ![w] = r]
    BY <1>0, <1>1 DEF W!SetUpPull
<1>7. StatusOK' /\ SameRegistered
    BY StatusStays DEF WorkersOK, W!SetUpPull
<1>8. TreesOK'
    BY TreesStay DEF WorkersOK, W!SetUpPull
<1> QED
    BY <1>1, <1>4, <1>5, <1>6, <1>7, <1>8, Goes

LEMMA WatcherStartsStep ==
    ASSUME WorkersOK, NEW w \in Worker, W!WatcherStarts(w)
    PROVE  Unnoticed
<1> DEFINE old == worker[w]
           r == [old EXCEPT !.watcher = "on", !.watched = origin[W!TaskOf(w)]]
<1>1. old # None
    BY DEF W!WatcherStarts
<1>2. old \in W!WorkerState /\ Fits(old) /\ W!TaskOf(w) \in Task
    BY <1>1, OldWorker
<1>3. origin[W!TaskOf(w)] \in W!Version
    BY <1>1, <1>2 DEF W!WorkerState, W!Place, WorkersOK, TreesOK
<1>4. r \in W!WorkerState
    BY <1>1, <1>2, <1>3 DEF W!WorkerState
<1>5. Fits(r) /\ r.task = old.task /\ r.told = old.told
    BY <1>1, <1>2, <1>3 DEF W!WorkerState, Fits
<1>6. worker' = [worker EXCEPT ![w] = r]
    BY <1>1 DEF W!WatcherStarts
<1>7. StatusOK' /\ SameRegistered
    BY StatusStays DEF WorkersOK, W!WatcherStarts
<1>8. TreesOK'
    BY TreesStay DEF WorkersOK, W!WatcherStarts
<1> QED
    BY <1>1, <1>4, <1>5, <1>6, <1>7, <1>8, Goes

LEMMA WatcherFailsStep ==
    ASSUME WorkersOK, NEW w \in Worker, W!WatcherFails(w)
    PROVE  Unnoticed
<1> DEFINE old == worker[w]
           r == [old EXCEPT !.watcher = "off"]
<1>1. old # None
    BY DEF W!WatcherFails
<1>2. old \in W!WorkerState /\ Fits(old) /\ W!TaskOf(w) \in Task
    BY <1>1, OldWorker
<1>4. r \in W!WorkerState
    BY <1>1, <1>2 DEF W!WorkerState
<1>5. Fits(r) /\ r.task = old.task /\ r.told = old.told
    BY <1>1, <1>2 DEF W!WorkerState, Fits
<1>6. worker' = [worker EXCEPT ![w] = r]
    BY <1>1 DEF W!WatcherFails
<1>7. StatusOK' /\ SameRegistered
    BY StatusStays DEF WorkersOK, W!WatcherFails
<1>8. TreesOK'
    BY TreesStay DEF WorkersOK, W!WatcherFails
<1> QED
    BY <1>1, <1>4, <1>5, <1>6, <1>7, <1>8, Goes

LEMMA WatcherPollsStep ==
    ASSUME WorkersOK, NEW w \in Worker, W!WatcherPolls(w)
    PROVE  Unnoticed
<1> DEFINE old == worker[w]
           r == [old EXCEPT !.watched = origin[W!TaskOf(w)], !.event = TRUE]
<1>1. old # None
    BY DEF W!WatcherPolls
<1>2. old \in W!WorkerState /\ Fits(old) /\ W!TaskOf(w) \in Task
    BY <1>1, OldWorker
<1>3. origin[W!TaskOf(w)] \in W!Version
    BY <1>1, <1>2 DEF W!WorkerState, W!Place, WorkersOK, TreesOK
<1>4. r \in W!WorkerState
    BY <1>1, <1>2, <1>3 DEF W!WorkerState
<1>5. Fits(r) /\ r.task = old.task /\ r.told = old.told
    BY <1>1, <1>2, <1>3 DEF W!WorkerState, Fits
<1>6. worker' = [worker EXCEPT ![w] = r]
    BY <1>1 DEF W!WatcherPolls
<1>7. StatusOK' /\ SameRegistered
    BY StatusStays DEF WorkersOK, W!WatcherPolls
<1>8. TreesOK'
    BY TreesStay DEF WorkersOK, W!WatcherPolls
<1> QED
    BY <1>1, <1>4, <1>5, <1>6, <1>7, <1>8, Goes

LEMMA FileChangedStep ==
    ASSUME WorkersOK, NEW w \in Worker, W!FileChanged(w)
    PROVE  Unnoticed
<1>0. PICK more \in {FALSE, worker[w].event} :
         worker' = [worker EXCEPT ![w].event = more, ![w].armed = TRUE]
    BY DEF W!FileChanged, W!Debounce
<1> DEFINE old == worker[w]
           r == [old EXCEPT !.event = more, !.armed = TRUE]
<1>1. old # None /\ old.at = "select"
    BY DEF W!FileChanged, W!At
<1>2. old \in W!WorkerState /\ Fits(old) /\ W!TaskOf(w) \in Task
    BY <1>1, OldWorker
<1>3. more \in BOOLEAN
    BY <1>1, <1>2 DEF W!WorkerState, W!Place
<1>4. r \in W!WorkerState
    BY <1>1, <1>2, <1>3 DEF W!WorkerState
<1>5. Fits(r) /\ r.task = old.task /\ r.told = old.told
    BY <1>1, <1>2, <1>3 DEF W!WorkerState, Fits
<1>6. worker' = [worker EXCEPT ![w] = r]
    BY <1>0, <1>1 DEF W!FileChanged, W!Debounce
<1>7. StatusOK' /\ SameRegistered
    BY <1>2, StatusUpdate, StatusStays DEF WorkersOK, W!Status, W!FileChanged
<1>8. TreesOK'
    BY TreesStay DEF WorkersOK, W!FileChanged
<1> QED
    BY <1>1, <1>4, <1>5, <1>6, <1>7, <1>8, Goes

LEMMA TimerExpiredStep ==
    ASSUME WorkersOK, NEW w \in Worker, W!TimerExpired(w)
    PROVE  Unnoticed
<1> DEFINE old == worker[w]
           r == W!NewRound(w)
<1>1. old # None /\ old.at = "select"
    BY DEF W!TimerExpired, W!At
<1>2. old \in W!WorkerState /\ Fits(old) /\ W!TaskOf(w) \in Task
    BY <1>1, OldWorker
<1>3. "attempt" \in W!Place /\ 0 \in 0..W!MaxRetries
    BY <1>1, <1>2 DEF W!WorkerState, W!Place, W!MaxRetries
<1>4. r \in W!WorkerState
    BY <1>1, <1>2, <1>3 DEF W!WorkerState, W!NewRound
<1>5. Fits(r) /\ r.task = old.task /\ r.told = old.told
    BY <1>1, <1>2, <1>3 DEF W!WorkerState, Fits, W!NewRound
<1>6. worker' = [worker EXCEPT ![w] = r]
    BY <1>1 DEF W!TimerExpired
<1>7. StatusOK' /\ SameRegistered
    BY StatusStays DEF WorkersOK, W!TimerExpired
<1>8. TreesOK'
    BY TreesStay DEF WorkersOK, W!TimerExpired
<1> QED
    BY <1>1, <1>4, <1>5, <1>6, <1>7, <1>8, Goes

LEMMA SignaturePolledStep ==
    ASSUME WorkersOK, NEW w \in Worker, W!SignaturePolled(w)
    PROVE  Unnoticed
<1> DEFINE old == worker[w]
           r == [W!NewRound(w) EXCEPT !.signature = origin[W!TaskOf(w)]]
<1>1. old # None /\ old.at = "select"
    BY DEF W!SignaturePolled, W!At
<1>2. old \in W!WorkerState /\ Fits(old) /\ W!TaskOf(w) \in Task
    BY <1>1, OldWorker
<1>3. "attempt" \in W!Place /\ 0 \in 0..W!MaxRetries
      /\ origin[W!TaskOf(w)] \in W!Version
    BY <1>1, <1>2 DEF W!WorkerState, W!Place, W!MaxRetries, WorkersOK, TreesOK
<1>4. r \in W!WorkerState
    BY <1>1, <1>2, <1>3 DEF W!WorkerState, W!NewRound
<1>5. Fits(r) /\ r.task = old.task /\ r.told = old.told
    BY <1>1, <1>2, <1>3 DEF W!WorkerState, Fits, W!NewRound
<1>6. worker' = [worker EXCEPT ![w] = r]
    BY <1>1 DEF W!SignaturePolled
<1>7. StatusOK' /\ SameRegistered
    BY <1>2, StatusUpdate DEF WorkersOK, W!Status, W!SignaturePolled
<1>8. TreesOK'
    BY TreesStay DEF WorkersOK, W!SignaturePolled
<1> QED
    BY <1>1, <1>4, <1>5, <1>6, <1>7, <1>8, Goes

(* A progress line changes a status only.                                  *)
LEMMA ReaderReportsStep ==
    ASSUME WorkersOK, NEW w \in Worker, W!ReaderReports(w)
    PROVE  Unnoticed
<1>1. W!TaskOf(w) \in Task
    BY OldWorker DEF W!ReaderReports
<1>2. StatusOK' /\ SameRegistered
    BY <1>1, StatusUpdate DEF WorkersOK, W!Status, W!ReaderReports
<1>3. WorkersFit' /\ Stay' = Stay
    BY DEF WorkersOK, WorkersFit, Stay, Staying, W!Live, W!TaskOf, W!ReaderReports
<1> QED
    BY <1>2, <1>3, TreesStay DEF WorkersOK, Unnoticed, W!ReaderReports

LEMMA StoppedStep ==
    ASSUME WorkersOK, NEW w \in Worker, W!Stopped(w)
    PROVE  Unnoticed
<1>1. worker[w] # None /\ worker[w].told /\ worker' = [worker EXCEPT ![w] = None]
    BY DEF W!Stopped, W!Listens, W!At
<1> QED
    BY <1>1, Leaves, StatusStays, TreesStay DEF WorkersOK, Unnoticed, W!Stopped

LEMMA EditStep ==
    ASSUME WorkersOK, NEW t \in Task, W!Edit(t)
    PROVE  Unnoticed
<1>1. WorkersFit' /\ Stay' = Stay
    BY DEF WorkersOK, WorkersFit, Stay, Staying, W!Live, W!TaskOf, W!Edit
<1>2. TreesOK'
    BY DEF WorkersOK, TreesOK, W!Version, W!Edit
<1> QED
    BY <1>1, <1>2, StatusStays DEF WorkersOK, Unnoticed, W!Edit

(* The registry sees nothing of what the workers do.                       *)
LEMMA WorkersGoOn ==
    ASSUME WorkersOK, Workers
    PROVE  Unnoticed
<1>1. ASSUME NEW w \in Worker, W!WorkerStep(w)
      PROVE  Unnoticed
  <2>1. CASE W!Round(w)
      BY <2>1, RsyncStartStep, RsyncReapedStep, SuccessSeenStep, RetryStep, GiveUpStep,
         BackoffOverStep DEF W!Round
  <2>2. CASE W!SetUp(w) \/ W!Watcher(w)
      BY <2>2, SetUpPushStep, SetUpPullStep, WatcherStartsStep, WatcherFailsStep,
         WatcherPollsStep DEF W!SetUp, W!Watcher
  <2>3. CASE W!Stopped(w) \/ W!FileChanged(w) \/ W!TimerExpired(w) \/ W!SignaturePolled(w)
      BY <2>3, StoppedStep, FileChangedStep, TimerExpiredStep, SignaturePolledStep
  <2>4. CASE \/ W!RsyncReads(w) \/ W!RsyncEnds(w)
             \/ W!ReaderReports(w) \/ W!ReaderEnds(w)
      BY <2>4, RsyncReadsStep, RsyncSucceedsStep, RsyncFailsStep, ReaderReportsStep,
         ReaderEndsStep DEF W!RsyncEnds
  <2> QED
      BY <1>1, <2>1, <2>2, <2>3, <2>4 DEF W!WorkerStep
<1> QED
    BY <1>1, EditStep DEF Workers

-----------------------------------------------------------------------------
(* The registry.  Every worker that stays is held by one who will store    *)
(* its kill channel or use it: the registry, a request, or the restore.    *)

Busy(h) == request[h] # None
On(h, t, op) == Busy(h) /\ request[h].task = t /\ request[h].op = op

Holds(h) ==
    /\ Busy(h) /\ request[h].stopper # None
    /\ \/ request[h].step = "tell"
       \/ request[h].op = "restart" /\ request[h].step = "store"

RegistryOK ==
    /\ stoppers \in [Task -> Worker \cup {None}]
    /\ request \in [Handler -> Request \cup {None}]
    /\ known \subseteq Task /\ raced \subseteq known
    /\ restore \in Restore

RequestsInOrder == \A h \in Handler : Busy(h) =>
    /\ request[h].task \in known
    /\ request[h].step = "spawn" => request[h].op = "restart"
    /\ request[h].op = "restart" /\ request[h].step = "store" => request[h].stopper # None

(* What is held stays, for the task it is held for ...                     *)
Owned ==
    /\ \A t \in Task : stoppers[t] # None => stoppers[t] \in Stay[t]
    /\ \A h \in Handler : Holds(h) => request[h].stopper \in Stay[request[h].task]
    /\ restore.task # None => restore.stopper \in Stay[restore.task]

(* ... and nobody else can tell it to stop.                                *)
Apart == \A h \in Handler : Holds(h) =>
    /\ \A t \in Task : stoppers[t] # request[h].stopper
    /\ \A g \in Handler : Holds(g) /\ request[g].stopper = request[h].stopper => g = h

(* What stays is held.                                                     *)
Kept == \A t \in Task : \A w \in Stay[t] :
    \/ w = stoppers[t]
    \/ \E h \in Handler : Holds(h) /\ request[h].stopper = w
    \/ restore.task = t /\ restore.stopper = w

(* Nobody else is at work during the restore, and what it has not inserted *)
(* yet is not there.                                                       *)
Restoring == restore # Restored =>
    /\ \A h \in Handler : ~Busy(h)
    /\ restore.task \notin restore.todo
    /\ \A t \in Task : t \in restore.todo \/ t = restore.task =>
          t \in known /\ stoppers[t] = None /\ status[t] = None

KnownOnly == \A t \in Task \ known : stoppers[t] = None /\ status[t] = None

(* A task without a stopper is one that a request is about.                *)
Served == \A t \in Task : status[t] # None /\ stoppers[t] = None =>
    \E h \in Handler : Busy(h) /\ request[h].task = t

(* Without a stop and a restart at a time, a restart finds its task there  *)
(* in the end and a stop finds no worker that came in between.             *)
NotRaced == \A t \in Task \ raced :
    /\ stoppers[t] # None => status[t] # None
    /\ \A h \in Handler : On(h, t, "restart") => status[t] # None
    /\ \A h \in Handler : On(h, t, "stop") => stoppers[t] = None
    /\ \A g, h \in Handler : ~(On(g, t, "restart") /\ On(h, t, "stop"))

RegistryInv == /\ RegistryOK /\ RequestsInOrder /\ Owned /\ Apart /\ Kept /\ Restoring
               /\ KnownOnly /\ Served /\ NotRaced

IndInv == WorkersOK /\ RegistryInv

-----------------------------------------------------------------------------
(* What the registry does to workers.                                      *)

(* A new worker stays, for its task only, and was nobody's before.         *)
LEMMA Spawned ==
    ASSUME WorkersFit, NEW t \in Task, NEW w \in Free,
           worker' = [worker EXCEPT ![w] = W!NewWorker(t)]
    PROVE  /\ WorkersFit' /\ w \in Worker
           /\ Stay' = [Stay EXCEPT ![t] = @ \cup {w}]
           /\ \A u \in Task : w \notin Stay[u]
<1>1. w \in Worker /\ worker[w] = None
    BY DEF Free, W!Live
<1>2. W!NewWorker(t) \in W!WorkerState /\ Fits(W!NewWorker(t))
    BY DEF W!NewWorker, W!WorkerState, W!Place, Fits, W!MaxRetries
<1>3. WorkersFit'
    BY <1>1, <1>2 DEF WorkersFit, Fits
<1>4. ASSUME NEW u \in Task
      PROVE  Staying(u)' = IF u = t THEN Staying(u) \cup {w} ELSE Staying(u)
  <2>1. W!NewWorker(t) # None /\ W!NewWorker(t).task = t /\ ~W!NewWorker(t).told
      BY <1>2 DEF W!NewWorker
  <2> QED
      BY <1>1, <2>1 DEF WorkersFit, Staying, W!Live, W!TaskOf
<1>5. Stay' = [Stay EXCEPT ![t] = @ \cup {w}]
    BY <1>4 DEF Stay
<1> QED
    BY <1>1, <1>3, <1>5, StayIs

(* A worker that is told to stop does not stay.                            *)
LEMMA ToldLeaves ==
    ASSUME WorkersFit, NEW s \in Worker \cup {None}, worker' = TellAny(s, worker)
    PROVE  WorkersFit' /\ Stay' = [t \in Task |-> Stay[t] \ {s}]
<1>1. ASSUME NEW w \in Worker
      PROVE  /\ worker'[w] \in W!WorkerState \cup {None}
             /\ worker'[w] = None <=> worker[w] = None
             /\ worker[w] # None => /\ Fits(worker'[w])
                                    /\ worker'[w].task = worker[w].task
                                    /\ worker'[w].told = (worker[w].told \/ w = s)
  <2>1. CASE worker[w] # None /\ w = s
    <3> DEFINE old == worker[w]
               r == [old EXCEPT !.told = TRUE]
    <3>1. worker'[w] = r
        BY <2>1 DEF TellAny, WorkersFit
    <3>2. old \in W!WorkerState /\ Fits(old)
        BY <2>1 DEF WorkersFit
    <3>3. r \in W!WorkerState /\ r.task = old.task /\ r.told = TRUE /\ Fits(r)
        BY <3>2 DEF W!WorkerState, Fits
    <3> QED
        BY <2>1, <3>1, <3>3
  <2>2. CASE ~(worker[w] # None /\ w = s)
    <3>1. worker'[w] = worker[w]
        BY <2>2 DEF TellAny, WorkersFit
    <3>2. worker[w] # None => worker[w].told \in BOOLEAN
        BY DEF WorkersFit, W!WorkerState
    <3> QED
        BY <2>2, <3>1, <3>2 DEF WorkersFit
  <2> QED
      BY <2>1, <2>2
<1>2. WorkersFit'
    BY <1>1 DEF WorkersFit, Fits, TellAny
<1>3. ASSUME NEW t \in Task
      PROVE  Staying(t)' = Staying(t) \ {s}
    BY <1>1 DEF Staying, W!Live, W!TaskOf
<1> QED
    BY <1>2, <1>3 DEF Stay

(* Steps that leave the workers alone.                                     *)
LEMMA WorkersStay ==
    ASSUME WorkersFit, UNCHANGED worker
    PROVE  WorkersFit' /\ Stay' = Stay
BY DEF WorkersFit, Fits, Stay, Staying, W!Live, W!TaskOf

-----------------------------------------------------------------------------
(* One lemma per action of the registry.                                   *)

(* A worker has one task, and is one: None is not.                         *)
LEMMA StayTypes ==
    /\ Stay \in [Task -> SUBSET Worker]
    /\ \A t, u \in Task : \A w \in Stay[t] : w \in Stay[u] => t = u
BY DEF Stay, Staying, W!Live, W!TaskOf

(* StartTask: the task was not known, so nothing is there for it.          *)
LEMMA StartTaskInv ==
    ASSUME IndInv, NEW h \in Handler, NEW t \in Task, StartTask(h, t)
    PROVE  IndInv'
<1> USE DEF IndInv, RegistryInv
<1>1. PICK w \in Free : /\ worker' = [worker EXCEPT ![w] = W!NewWorker(t)]
                       /\ stoppers' = [stoppers EXCEPT ![t] = w]
    BY DEF StartTask
<1>2. /\ WorkersFit' /\ w \in Worker /\ Stay' = [Stay EXCEPT ![t] = @ \cup {w}]
      /\ \A u \in Task : w \notin Stay[u]
    BY <1>1, Spawned DEF WorkersOK
<1>w. WorkersOK'
    BY <1>2, TreesStay DEF WorkersOK, StatusOK, W!Status, StartTask
<1>3. /\ t \notin known /\ known' = known \cup {t} /\ restore = Restored
      /\ status' = [status EXCEPT ![t] = "STARTING"] /\ stoppers' = [stoppers EXCEPT ![t] = w]
      /\ UNCHANGED <<request, restore, raced>>
      /\ w # None /\ "STARTING" # None /\ Stay \in [Task -> SUBSET Worker]
      /\ status \in [Task -> W!Status \cup {None}]
    BY <1>1, <1>2 DEF StartTask, Accepting, W!Status, Stay, Staying, W!Live, WorkersOK, StatusOK
<1>c1. RegistryOK'
    BY <1>2, <1>3 DEF RegistryOK, Request, Restore, Restored
<1>c2. RequestsInOrder'
    BY <1>2, <1>3 DEF RegistryOK, RequestsInOrder, Busy, Request
<1>c3. Owned'
    BY <1>2, <1>3 DEF RegistryOK, Owned, Holds, Busy, Request, Restore
<1>c4. Apart'
    BY <1>2, <1>3 DEF RegistryOK, Apart, Holds, Busy, Request, Owned
<1>c5. Kept'
    BY <1>2, <1>3 DEF RegistryOK, Kept, Holds, Busy, Request, Restore, KnownOnly
<1>c6. Restoring'
    BY <1>2, <1>3 DEF RegistryOK, Restoring, Restored, Busy, Restore
<1>c7. KnownOnly'
    BY <1>2, <1>3 DEF RegistryOK, KnownOnly
<1>c8. Served'
    BY <1>2, <1>3 DEF RegistryOK, Served, Busy, Request
<1>c9. NotRaced'
    BY <1>2, <1>3 DEF RegistryOK, NotRaced, On, Busy, Request, KnownOnly, RequestsInOrder
<1> QED
    BY <1>w, <1>c1, <1>c2, <1>c3, <1>c4, <1>c5, <1>c6, <1>c7, <1>c8, <1>c9

(* A restart of a task that is not registered ends its worker, if any.     *)
LEMMA RestartOfNothingInv ==
    ASSUME IndInv, NEW h \in Handler, NEW t \in Task, RestartTakes(h, t), status[t] = None
    PROVE  IndInv'
<1> USE DEF IndInv, RegistryInv
<1>1. /\ worker' = TellAny(stoppers[t], worker) /\ stoppers' = [stoppers EXCEPT ![t] = None]
      /\ raced' = raced \/ raced' = raced \cup {t}
      /\ t \in known /\ restore = Restored
      /\ UNCHANGED <<status, request, known, restore, origin, replica>>
    BY DEF RestartTakes, Race, Accepting
<1>2. WorkersFit' /\ Stay' = [u \in Task |-> Stay[u] \ {stoppers[t]}]
    BY <1>1, ToldLeaves DEF WorkersOK, RegistryOK
<1>w. WorkersOK'
    BY <1>1, <1>2, StatusStays, TreesStay DEF WorkersOK
<1>c1. RegistryOK'
    BY <1>1, <1>2, StayTypes DEF RegistryOK, Request, Restore, Restored
<1>c2. RequestsInOrder'
    BY <1>1, <1>2, StayTypes DEF RegistryOK, RequestsInOrder, Busy, Request
<1>c3. Owned'
    BY <1>1, <1>2, StayTypes DEF RegistryOK, Owned, Holds, Busy, Request, Restore, Apart, Restored
<1>c4. Apart'
    BY <1>1, <1>2, StayTypes DEF RegistryOK, Apart, Holds, Busy, Request
<1>c5. Kept'
    BY <1>1, <1>2, StayTypes DEF RegistryOK, Kept, Holds, Busy, Request, Restore, Owned
<1>c6. Restoring'
    BY <1>1, <1>2, StayTypes DEF RegistryOK, Restoring, Restored, Busy, Restore
<1>c7. KnownOnly'
    BY <1>1, <1>2, StayTypes DEF RegistryOK, KnownOnly
<1>c8. Served'
    BY <1>1, <1>2, StayTypes DEF RegistryOK, Served, Busy, Request, StatusOK
<1>c9. NotRaced'
    BY <1>1, <1>2, StayTypes DEF RegistryOK, NotRaced, On, Busy, Request
<1> QED
    BY <1>w, <1>c1, <1>c2, <1>c3, <1>c4, <1>c5, <1>c6, <1>c7, <1>c8, <1>c9

(* A restart takes the stopper from the registry.                          *)
LEMMA RestartTakesInv ==
    ASSUME IndInv, NEW h \in Handler, NEW t \in Task, RestartTakes(h, t), status[t] # None
    PROVE  IndInv'
<1> USE DEF IndInv, RegistryInv
<1> DEFINE r == [op |-> "restart", task |-> t, step |-> "tell", stopper |-> stoppers[t]]
<1>1. /\ request' = [request EXCEPT ![h] = r] /\ stoppers' = [stoppers EXCEPT ![t] = None]
      /\ request[h] = None /\ restore = Restored /\ t \in known
      /\ raced' = raced \/ raced' = raced \cup {t}
      /\ t \notin raced' => \A g \in Handler : ~On(g, t, "stop")
      /\ UNCHANGED <<worker, status, known, restore, origin, replica>>
    BY DEF RestartTakes, Race, Accepting, Overlap, On, Busy
<1>2. r \in Request /\ r # None
    BY DEF Request, RegistryOK
<1>3. WorkersFit' /\ Stay' = Stay
    BY <1>1, WorkersStay DEF WorkersOK
<1>w. WorkersOK'
    BY <1>1, <1>3, StatusStays, TreesStay DEF WorkersOK
<1> HIDE DEF r
<1>4. r.op = "restart" /\ r.task = t /\ r.step = "tell" /\ r.stopper = stoppers[t]
    BY DEF r
<1>c1. RegistryOK'
    BY <1>1, <1>2, <1>3, <1>4, StayTypes DEF RegistryOK, Request, Restore, Restored
<1>c2. RequestsInOrder'
    BY <1>1, <1>2, <1>3, <1>4, StayTypes DEF RegistryOK, RequestsInOrder, Busy, Request
<1>c3. Owned'
    BY <1>1, <1>2, <1>3, <1>4, StayTypes DEF RegistryOK, Owned, Holds, Busy, Request, Restore
<1>c4. Apart'
    BY <1>1, <1>2, <1>3, <1>4, StayTypes DEF RegistryOK, Apart, Holds, Busy, Request, Owned
<1>c5. Kept'
    BY <1>1, <1>2, <1>3, <1>4, StayTypes DEF RegistryOK, Kept, Holds, Busy, Request, Restore
<1>c6. Restoring'
    BY <1>1, <1>2, <1>3, <1>4, StayTypes DEF RegistryOK, Restoring, Restored, Busy, Restore
<1>c7. KnownOnly'
    BY <1>1, <1>2, <1>3, <1>4, StayTypes DEF RegistryOK, KnownOnly
<1>c8. Served'
    BY <1>1, <1>2, <1>3, <1>4, StayTypes DEF RegistryOK, Served, Busy, Request
<1>c9. NotRaced'
    BY <1>1, <1>2, <1>3, <1>4, StayTypes DEF RegistryOK, NotRaced, On, Busy, Request
<1> QED
    BY <1>w, <1>c1, <1>c2, <1>c3, <1>c4, <1>c5, <1>c6, <1>c7, <1>c8, <1>c9

(* A worker that is told stays no longer, and is held no longer.            *)
LEMMA RestartTellsInv ==
    ASSUME IndInv, NEW h \in Handler, RestartTells(h)
    PROVE  IndInv'
<1> USE DEF IndInv, RegistryInv
<1> DEFINE q == request[h]
           r == [q EXCEPT !.step = "spawn"]
<1>1. /\ q # None /\ q.op = "restart" /\ q.step = "tell"
      /\ worker' = TellAny(q.stopper, worker) /\ request' = [request EXCEPT ![h] = r]
      /\ UNCHANGED <<status, origin, replica, stoppers, known, restore, raced>>
    BY DEF RestartTells, Kill, Step
<1>2. q \in Request
    BY <1>1 DEF RegistryOK
<1>3. /\ r \in Request /\ r # None /\ r.op = q.op /\ r.task = q.task /\ r.step = "spawn"
      /\ q.stopper \in Worker \cup {None} /\ restore = Restored
    BY <1>1, <1>2 DEF Request, Restoring, Busy
<1>4. WorkersFit' /\ Stay' = [u \in Task |-> Stay[u] \ {q.stopper}]
    BY <1>1, <1>3, ToldLeaves DEF WorkersOK
<1>w. WorkersOK'
    BY <1>1, <1>4, StatusStays, TreesStay DEF WorkersOK
<1> HIDE DEF r
<1>c1. RegistryOK'
    BY <1>1, <1>2, <1>3, <1>4, StayTypes DEF RegistryOK, Request, Restore, Restored
<1>c2. RequestsInOrder'
    BY <1>1, <1>2, <1>3, <1>4, StayTypes DEF RegistryOK, RequestsInOrder, Busy, Request
<1>c3. Owned'
    BY <1>1, <1>2, <1>3, <1>4, StayTypes DEF RegistryOK, Owned, Holds, Busy, Request, Restore, Apart, Restored
<1>c4. Apart'
    BY <1>1, <1>2, <1>3, <1>4, StayTypes DEF RegistryOK, Apart, Holds, Busy, Request, Owned
<1>c5. Kept'
    BY <1>1, <1>2, <1>3, <1>4, StayTypes DEF RegistryOK, Kept, Holds, Busy, Request, Restore, Owned, Restored
<1>c6. Restoring'
    BY <1>1, <1>2, <1>3, <1>4, StayTypes DEF RegistryOK, Restoring, Restored, Busy, Restore
<1>c7. KnownOnly'
    BY <1>1, <1>2, <1>3, <1>4, StayTypes DEF RegistryOK, KnownOnly
<1>c8. Served'
    BY <1>1, <1>2, <1>3, <1>4, StayTypes DEF RegistryOK, Served, Busy, Request
<1>c9. NotRaced'
    BY <1>1, <1>2, <1>3, <1>4, StayTypes DEF RegistryOK, NotRaced, On, Busy, Request
<1> QED
    BY <1>w, <1>c1, <1>c2, <1>c3, <1>c4, <1>c5, <1>c6, <1>c7, <1>c8, <1>c9

(* The new worker is held by the request.                                  *)
LEMMA RestartSpawnsInv ==
    ASSUME IndInv, NEW h \in Handler, RestartSpawns(h)
    PROVE  IndInv'
<1> USE DEF IndInv, RegistryInv
<1> DEFINE q == request[h]
<1>1. PICK w \in Free :
         /\ worker' = [worker EXCEPT ![w] = W!NewWorker(q.task)]
         /\ request' = [request EXCEPT ![h].step = "store", ![h].stopper = w]
    BY DEF RestartSpawns
<1> DEFINE r == [q EXCEPT !.step = "store", !.stopper = w]
<1>2. /\ q # None /\ q.step = "spawn" /\ request' = [request EXCEPT ![h] = r]
      /\ UNCHANGED <<status, origin, replica, stoppers, known, restore, raced>>
    BY <1>1 DEF RestartSpawns
<1>3. q \in Request /\ w \in Worker /\ w # None
    BY <1>2 DEF RegistryOK, Free
<1>4. /\ r \in Request /\ r # None /\ r.op = q.op /\ r.task = q.task
      /\ r.step = "store" /\ r.stopper = w /\ q.task \in Task /\ restore = Restored
    BY <1>2, <1>3 DEF Request, Restoring, Busy
<1>5. /\ WorkersFit' /\ Stay' = [Stay EXCEPT ![q.task] = @ \cup {w}]
      /\ \A u \in Task : w \notin Stay[u]
    BY <1>1, <1>4, Spawned DEF WorkersOK
<1>w. WorkersOK'
    BY <1>2, <1>5, StatusStays, TreesStay DEF WorkersOK
<1> HIDE DEF r
<1>c1. RegistryOK'
    BY <1>2, <1>3, <1>4, <1>5, StayTypes DEF RegistryOK, Request, Restore, Restored
<1>c2. RequestsInOrder'
    BY <1>2, <1>3, <1>4, <1>5, StayTypes DEF RegistryOK, RequestsInOrder, Busy, Request
<1>c3. Owned'
    BY <1>2, <1>3, <1>4, <1>5, StayTypes DEF RegistryOK, Owned, Holds, Busy, Request, Restore, Restored, RequestsInOrder
<1>c4. Apart'
    BY <1>2, <1>3, <1>4, <1>5, StayTypes DEF RegistryOK, Apart, Holds, Busy, Request, Owned
<1>c5. Kept'
    BY <1>2, <1>3, <1>4, <1>5, StayTypes DEF RegistryOK, Kept, Holds, Busy, Request, Restore, Restored, RequestsInOrder
<1>c6. Restoring'
    BY <1>2, <1>3, <1>4, <1>5, StayTypes DEF RegistryOK, Restoring, Restored, Busy, Restore
<1>c7. KnownOnly'
    BY <1>2, <1>3, <1>4, <1>5, StayTypes DEF RegistryOK, KnownOnly
<1>c8. Served'
    BY <1>2, <1>3, <1>4, <1>5, StayTypes DEF RegistryOK, Served, Busy, Request
<1>c9. NotRaced'
    BY <1>2, <1>3, <1>4, <1>5, StayTypes DEF RegistryOK, NotRaced, On, Busy, Request
<1> QED
    BY <1>w, <1>c1, <1>c2, <1>c3, <1>c4, <1>c5, <1>c6, <1>c7, <1>c8, <1>c9

(* The new stopper goes to the registry, and the one that was there, if    *)
(* another restart has stored it meanwhile, ends its worker.               *)
LEMMA RestartStoresInv ==
    ASSUME IndInv, NEW h \in Handler, RestartStores(h)
    PROVE  IndInv'
<1> USE DEF IndInv, RegistryInv
<1> DEFINE q == request[h]
<1>1. /\ q # None /\ q.op = "restart" /\ q.step = "store"
      /\ stoppers' = [stoppers EXCEPT ![q.task] = q.stopper]
      /\ worker' = TellAny(stoppers[q.task], worker)
      /\ W!UpdateStatus(q.task, "RESTARTING") /\ request' = [request EXCEPT ![h] = None]
      /\ UNCHANGED <<origin, replica, known, restore, raced>>
    BY DEF RestartStores, Store, Answer
<1>2. q \in Request
    BY <1>1 DEF RegistryOK
<1>3. /\ q.task \in Task /\ q.stopper # None /\ restore = Restored
      /\ q.stopper \in Worker /\ stoppers[q.task] \in Worker \cup {None}
    BY <1>1, <1>2 DEF Request, Restoring, RequestsInOrder, Busy, RegistryOK
<1>4. WorkersFit' /\ Stay' = [u \in Task |-> Stay[u] \ {stoppers[q.task]}]
    BY <1>1, <1>3, ToldLeaves DEF WorkersOK
<1>5. StatusOK' /\ SameRegistered
    BY <1>1, <1>3, StatusUpdate DEF WorkersOK, W!Status
<1>w. WorkersOK'
    BY <1>1, <1>4, <1>5, TreesStay DEF WorkersOK
<1>c1. RegistryOK'
    BY <1>1, <1>2, <1>3, <1>4, <1>5, StayTypes DEF RegistryOK, Request, Restore, Restored, SameRegistered
<1>c2. RequestsInOrder'
    BY <1>1, <1>2, <1>3, <1>4, <1>5, StayTypes DEF RegistryOK, RequestsInOrder, Busy, Request, SameRegistered
<1>c3. Owned'
    BY <1>1, <1>2, <1>3, <1>4, <1>5, StayTypes DEF RegistryOK, Owned, Holds, Busy, Request, Restore, SameRegistered, Apart, Restored
<1>c4. Apart'
    BY <1>1, <1>2, <1>3, <1>4, <1>5, StayTypes DEF RegistryOK, Apart, Holds, Busy, Request, SameRegistered, Owned
<1>c5. Kept'
    BY <1>1, <1>2, <1>3, <1>4, <1>5, StayTypes DEF RegistryOK, Kept, Holds, Busy, Request, Restore, SameRegistered, Owned, Restored
<1>c6. Restoring'
    BY <1>1, <1>2, <1>3, <1>4, <1>5, StayTypes DEF RegistryOK, Restoring, Restored, Busy, Restore, SameRegistered
<1>c7. KnownOnly'
    BY <1>1, <1>2, <1>3, <1>4, <1>5, StayTypes DEF RegistryOK, KnownOnly, SameRegistered, RequestsInOrder, Busy
<1>c8. Served'
    BY <1>1, <1>2, <1>3, <1>4, <1>5, StayTypes DEF RegistryOK, Served, Busy, Request, SameRegistered
<1>c9. NotRaced'
    BY <1>1, <1>2, <1>3, <1>4, <1>5, StayTypes DEF RegistryOK, NotRaced, On, Busy, Request, SameRegistered
<1> QED
    BY <1>w, <1>c1, <1>c2, <1>c3, <1>c4, <1>c5, <1>c6, <1>c7, <1>c8, <1>c9

(* A stop takes the stopper from the registry.                             *)
LEMMA StopTakesInv ==
    ASSUME IndInv, NEW h \in Handler, NEW t \in Task, StopTakes(h, t)
    PROVE  IndInv'
<1> USE DEF IndInv, RegistryInv
<1> DEFINE r == [op |-> "stop", task |-> t, step |-> "tell", stopper |-> stoppers[t]]
<1>1. /\ request' = [request EXCEPT ![h] = r] /\ stoppers' = [stoppers EXCEPT ![t] = None]
      /\ request[h] = None /\ restore = Restored /\ t \in known
      /\ raced' = raced \/ raced' = raced \cup {t}
      /\ t \notin raced' => \A g \in Handler : ~On(g, t, "restart")
      /\ UNCHANGED <<worker, status, known, restore, origin, replica>>
    BY DEF StopTakes, Race, Accepting, Overlap, On, Busy
<1>2. r \in Request /\ r # None
    BY DEF Request, RegistryOK
<1>3. WorkersFit' /\ Stay' = Stay
    BY <1>1, WorkersStay DEF WorkersOK
<1>w. WorkersOK'
    BY <1>1, <1>3, StatusStays, TreesStay DEF WorkersOK
<1> HIDE DEF r
<1>4. r.op = "stop" /\ r.task = t /\ r.step = "tell" /\ r.stopper = stoppers[t]
    BY DEF r
<1>c1. RegistryOK'
    BY <1>1, <1>2, <1>3, <1>4, StayTypes DEF RegistryOK, Request, Restore, Restored
<1>c2. RequestsInOrder'
    BY <1>1, <1>2, <1>3, <1>4, StayTypes DEF RegistryOK, RequestsInOrder, Busy, Request
<1>c3. Owned'
    BY <1>1, <1>2, <1>3, <1>4, StayTypes DEF RegistryOK, Owned, Holds, Busy, Request, Restore
<1>c4. Apart'
    BY <1>1, <1>2, <1>3, <1>4, StayTypes DEF RegistryOK, Apart, Holds, Busy, Request, Owned
<1>c5. Kept'
    BY <1>1, <1>2, <1>3, <1>4, StayTypes DEF RegistryOK, Kept, Holds, Busy, Request, Restore
<1>c6. Restoring'
    BY <1>1, <1>2, <1>3, <1>4, StayTypes DEF RegistryOK, Restoring, Restored, Busy, Restore
<1>c7. KnownOnly'
    BY <1>1, <1>2, <1>3, <1>4, StayTypes DEF RegistryOK, KnownOnly
<1>c8. Served'
    BY <1>1, <1>2, <1>3, <1>4, StayTypes DEF RegistryOK, Served, Busy, Request
<1>c9. NotRaced'
    BY <1>1, <1>2, <1>3, <1>4, StayTypes DEF RegistryOK, NotRaced, On, Busy, Request
<1> QED
    BY <1>w, <1>c1, <1>c2, <1>c3, <1>c4, <1>c5, <1>c6, <1>c7, <1>c8, <1>c9

(* A stop tells its worker in the same way.                                *)
LEMMA StopTellsInv ==
    ASSUME IndInv, NEW h \in Handler, StopTells(h)
    PROVE  IndInv'
<1> USE DEF IndInv, RegistryInv
<1> DEFINE q == request[h]
           r == [q EXCEPT !.step = "store"]
<1>1. /\ q # None /\ q.op = "stop" /\ q.step = "tell"
      /\ worker' = TellAny(q.stopper, worker) /\ request' = [request EXCEPT ![h] = r]
      /\ UNCHANGED <<status, origin, replica, stoppers, known, restore, raced>>
    BY DEF StopTells, Kill, Step
<1>2. q \in Request
    BY <1>1 DEF RegistryOK
<1>3. /\ r \in Request /\ r # None /\ r.op = q.op /\ r.task = q.task /\ r.step = "store"
      /\ q.stopper \in Worker \cup {None} /\ restore = Restored
    BY <1>1, <1>2 DEF Request, Restoring, Busy
<1>4. WorkersFit' /\ Stay' = [u \in Task |-> Stay[u] \ {q.stopper}]
    BY <1>1, <1>3, ToldLeaves DEF WorkersOK
<1>w. WorkersOK'
    BY <1>1, <1>4, StatusStays, TreesStay DEF WorkersOK
<1> HIDE DEF r
<1>c1. RegistryOK'
    BY <1>1, <1>2, <1>3, <1>4, StayTypes DEF RegistryOK, Request, Restore, Restored
<1>c2. RequestsInOrder'
    BY <1>1, <1>2, <1>3, <1>4, StayTypes DEF RegistryOK, RequestsInOrder, Busy, Request
<1>c3. Owned'
    BY <1>1, <1>2, <1>3, <1>4, StayTypes DEF RegistryOK, Owned, Holds, Busy, Request, Restore, Apart, Restored
<1>c4. Apart'
    BY <1>1, <1>2, <1>3, <1>4, StayTypes DEF RegistryOK, Apart, Holds, Busy, Request, Owned
<1>c5. Kept'
    BY <1>1, <1>2, <1>3, <1>4, StayTypes DEF RegistryOK, Kept, Holds, Busy, Request, Restore, Owned, Restored
<1>c6. Restoring'
    BY <1>1, <1>2, <1>3, <1>4, StayTypes DEF RegistryOK, Restoring, Restored, Busy, Restore
<1>c7. KnownOnly'
    BY <1>1, <1>2, <1>3, <1>4, StayTypes DEF RegistryOK, KnownOnly
<1>c8. Served'
    BY <1>1, <1>2, <1>3, <1>4, StayTypes DEF RegistryOK, Served, Busy, Request
<1>c9. NotRaced'
    BY <1>1, <1>2, <1>3, <1>4, StayTypes DEF RegistryOK, NotRaced, On, Busy, Request
<1> QED
    BY <1>w, <1>c1, <1>c2, <1>c3, <1>c4, <1>c5, <1>c6, <1>c7, <1>c8, <1>c9

(* The task goes; nothing was stored for it meanwhile, unless it raced.    *)
LEMMA StopRemovesInv ==
    ASSUME IndInv, NEW h \in Handler, StopRemoves(h)
    PROVE  IndInv'
<1> USE DEF IndInv, RegistryInv
<1> DEFINE q == request[h]
<1>1. /\ q # None /\ q.op = "stop" /\ q.step = "store"
      /\ status' = [status EXCEPT ![q.task] = None] /\ request' = [request EXCEPT ![h] = None]
      /\ UNCHANGED <<worker, origin, replica, stoppers, known, restore, raced>>
    BY DEF StopRemoves, Answer
<1>2. q \in Request
    BY <1>1 DEF RegistryOK
<1>3. q.task \in Task /\ restore = Restored /\ status \in [Task -> W!Status \cup {None}]
    BY <1>1, <1>2 DEF Request, Restoring, Busy, WorkersOK, StatusOK
<1>4. WorkersFit' /\ Stay' = Stay
    BY <1>1, WorkersStay DEF WorkersOK
<1>w. WorkersOK'
    BY <1>1, <1>3, <1>4, TreesStay DEF WorkersOK, StatusOK
<1>c1. RegistryOK'
    BY <1>1, <1>2, <1>3, <1>4, StayTypes DEF RegistryOK, Request, Restore, Restored
<1>c2. RequestsInOrder'
    BY <1>1, <1>2, <1>3, <1>4, StayTypes DEF RegistryOK, RequestsInOrder, Busy, Request
<1>c3. Owned'
    BY <1>1, <1>2, <1>3, <1>4, StayTypes DEF RegistryOK, Owned, Holds, Busy, Request, Restore
<1>c4. Apart'
    BY <1>1, <1>2, <1>3, <1>4, StayTypes DEF RegistryOK, Apart, Holds, Busy, Request
<1>c5. Kept'
    BY <1>1, <1>2, <1>3, <1>4, StayTypes DEF RegistryOK, Kept, Holds, Busy, Request, Restore
<1>c6. Restoring'
    BY <1>1, <1>2, <1>3, <1>4, StayTypes DEF RegistryOK, Restoring, Restored, Busy, Restore
<1>c7. KnownOnly'
    BY <1>1, <1>2, <1>3, <1>4, StayTypes DEF RegistryOK, KnownOnly
<1>c8. Served'
    BY <1>1, <1>2, <1>3, <1>4, StayTypes DEF RegistryOK, Served, Busy, Request
<1>c9. NotRaced'
    BY <1>1, <1>2, <1>3, <1>4, StayTypes DEF RegistryOK, NotRaced, On, Busy, Request
<1> QED
    BY <1>w, <1>c1, <1>c2, <1>c3, <1>c4, <1>c5, <1>c6, <1>c7, <1>c8, <1>c9

(* A kill leaves no worker, and a restore that has everything to do.       *)
LEMMA CrashInv ==
    ASSUME IndInv, Crash
    PROVE  IndInv'
<1> USE DEF IndInv, RegistryInv
<1>1. /\ worker' = [w \in Worker |-> None] /\ status' = [t \in Task |-> None]
      /\ stoppers' = [t \in Task |-> None] /\ request' = [h \in Handler |-> None]
      /\ raced' = {} /\ UNCHANGED <<origin, replica, known>>
    BY DEF Crash
<1>2. PICK saved \in SUBSET known : restore' = [todo |-> saved, task |-> None, stopper |-> None]
    BY DEF Crash, Restored
<1>3. WorkersFit'
    BY <1>1 DEF WorkersFit
<1>4. \A t \in Task : Stay'[t] = {}
    BY <1>1 DEF Stay, Staying, W!Live
<1>w. WorkersOK'
    BY <1>1, <1>3, TreesStay DEF WorkersOK, StatusOK
<1>c1. RegistryOK'
    BY <1>1, <1>2, <1>4 DEF RegistryOK, Request, Restore, Restored
<1>c2. RequestsInOrder'
    BY <1>1, <1>2, <1>4 DEF RegistryOK, RequestsInOrder, Busy, Request
<1>c3. Owned'
    BY <1>1, <1>2, <1>4 DEF RegistryOK, Owned, Holds, Busy, Request, Restore
<1>c4. Apart'
    BY <1>1, <1>2, <1>4 DEF RegistryOK, Apart, Holds, Busy, Request
<1>c5. Kept'
    BY <1>1, <1>2, <1>4 DEF RegistryOK, Kept, Holds, Busy, Request, Restore
<1>c6. Restoring'
    BY <1>1, <1>2, <1>4 DEF RegistryOK, Restoring, Restored, Busy, Restore
<1>c7. KnownOnly'
    BY <1>1, <1>2, <1>4 DEF RegistryOK, KnownOnly
<1>c8. Served'
    BY <1>1, <1>2, <1>4 DEF RegistryOK, Served, Busy, Request
<1>c9. NotRaced'
    BY <1>1, <1>2, <1>4 DEF RegistryOK, NotRaced, On, Busy, Request
<1> QED
    BY <1>w, <1>c1, <1>c2, <1>c3, <1>c4, <1>c5, <1>c6, <1>c7, <1>c8, <1>c9

(* The restore holds the worker of the task at hand.                       *)
LEMMA RestoreSpawnsInv ==
    ASSUME IndInv, RestoreSpawns
    PROVE  IndInv'
<1> USE DEF IndInv, RegistryInv
<1>1. PICK t \in restore.todo, w \in Free :
         /\ worker' = [worker EXCEPT ![w] = W!NewWorker(t)]
         /\ restore' = [todo |-> restore.todo \ {t}, task |-> t, stopper |-> w]
    BY DEF RestoreSpawns
<1>2. /\ restore.task = None /\ restore.todo \subseteq Task
      /\ UNCHANGED <<status, origin, replica, stoppers, request, known, raced>>
    BY DEF RestoreSpawns, RegistryOK, Restore
<1>3. /\ WorkersFit' /\ Stay' = [Stay EXCEPT ![t] = @ \cup {w}]
      /\ w \in Worker /\ \A u \in Task : w \notin Stay[u]
    BY <1>1, <1>2, Spawned DEF WorkersOK
<1>4. restore # Restored /\ restore' # Restored /\ t # None
    BY <1>1, <1>2 DEF Restored
<1>w. WorkersOK'
    BY <1>2, <1>3, StatusStays, TreesStay DEF WorkersOK
<1>c1. RegistryOK'
    BY <1>1, <1>2, <1>3, <1>4, StayTypes DEF RegistryOK, Request, Restore, Restored
<1>c2. RequestsInOrder'
    BY <1>1, <1>2, <1>3, <1>4, StayTypes DEF RegistryOK, RequestsInOrder, Busy, Request
<1>c3. Owned'
    BY <1>1, <1>2, <1>3, <1>4, StayTypes DEF RegistryOK, Owned, Holds, Busy, Request, Restore
<1>c4. Apart'
    BY <1>1, <1>2, <1>3, <1>4, StayTypes DEF RegistryOK, Apart, Holds, Busy, Request, Owned
<1>c5. Kept'
    BY <1>1, <1>2, <1>3, <1>4, StayTypes DEF RegistryOK, Kept, Holds, Busy, Request, Restore
<1>c6. Restoring'
    BY <1>1, <1>2, <1>3, <1>4, StayTypes DEF RegistryOK, Restoring, Restored, Busy, Restore
<1>c7. KnownOnly'
    BY <1>1, <1>2, <1>3, <1>4, StayTypes DEF RegistryOK, KnownOnly
<1>c8. Served'
    BY <1>1, <1>2, <1>3, <1>4, StayTypes DEF RegistryOK, Served, Busy, Request
<1>c9. NotRaced'
    BY <1>1, <1>2, <1>3, <1>4, StayTypes DEF RegistryOK, NotRaced, On, Busy, Request
<1> QED
    BY <1>w, <1>c1, <1>c2, <1>c3, <1>c4, <1>c5, <1>c6, <1>c7, <1>c8, <1>c9

(* The task at hand is inserted with the stopper of its worker.            *)
LEMMA RestoreInsertsInv ==
    ASSUME IndInv, RestoreInserts
    PROVE  IndInv'
<1> USE DEF IndInv, RegistryInv
<1> DEFINE t == restore.task
           w == restore.stopper
<1>1. /\ t # None /\ stoppers' = [stoppers EXCEPT ![t] = w]
      /\ restore' = [restore EXCEPT !.task = None, !.stopper = None]
      /\ UNCHANGED <<worker, origin, replica, request, known, raced>>
    BY DEF RestoreInserts, Insert
<1>2. PICK s \in W!Status : status' = [status EXCEPT ![t] = s]
    BY DEF RestoreInserts
<1>3. /\ t \in known /\ t \in Task /\ w \in Worker /\ w # None /\ s # None
      /\ restore # Restored /\ stoppers[t] = None /\ t \notin restore.todo
      /\ \A g \in Handler : request[g] = None
      /\ status \in [Task -> W!Status \cup {None}]
  <2>1. t \in Task /\ restore # Restored
      BY <1>1 DEF RegistryOK, Restore, Restored
  <2>2. w \in Stay[t] /\ s # None
      BY <1>1, <1>2 DEF Owned
  <2> QED
      BY <2>1, <2>2, StayTypes DEF Restoring, Busy, WorkersOK, StatusOK
<1>4. WorkersFit' /\ Stay' = Stay
    BY <1>1, WorkersStay DEF WorkersOK
<1>5. /\ restore'.todo = restore.todo /\ restore'.task = None /\ restore'.stopper = None
      /\ restore' \in Restore
    BY <1>1 DEF RegistryOK, Restore
<1>w. WorkersOK'
    BY <1>1, <1>2, <1>3, <1>4, TreesStay DEF WorkersOK, StatusOK
<1>c1. RegistryOK'
    BY <1>1, <1>2, <1>3, <1>4, <1>5, StayTypes DEF RegistryOK, Request, Restore, Restored
<1>c2. RequestsInOrder'
    BY <1>1, <1>2, <1>3, <1>4, <1>5, StayTypes DEF RegistryOK, RequestsInOrder, Busy, Request
<1>c3. Owned'
    BY <1>1, <1>2, <1>3, <1>4, <1>5, StayTypes DEF RegistryOK, Owned, Holds, Busy, Request, Restore
<1>c4. Apart'
    BY <1>1, <1>2, <1>3, <1>4, <1>5, StayTypes DEF RegistryOK, Apart, Holds, Busy, Request
<1>c5. Kept'
    BY <1>1, <1>2, <1>3, <1>4, <1>5, StayTypes DEF RegistryOK, Kept, Holds, Busy, Request, Restore
<1>c6. Restoring'
    BY <1>1, <1>2, <1>3, <1>4, <1>5, StayTypes DEF RegistryOK, Restoring, Restored, Busy, Restore
<1>c7. KnownOnly'
    BY <1>1, <1>2, <1>3, <1>4, <1>5, StayTypes DEF RegistryOK, KnownOnly
<1>c8. Served'
    BY <1>1, <1>2, <1>3, <1>4, <1>5, StayTypes DEF RegistryOK, Served, Busy, Request
<1>c9. NotRaced'
    BY <1>1, <1>2, <1>3, <1>4, <1>5, StayTypes DEF RegistryOK, NotRaced, On, Busy, Request
<1> QED
    BY <1>w, <1>c1, <1>c2, <1>c3, <1>c4, <1>c5, <1>c6, <1>c7, <1>c8, <1>c9

-----------------------------------------------------------------------------
LEMMA WorkersInv ==
    ASSUME IndInv, Workers
    PROVE  IndInv'
<1> USE DEF IndInv, RegistryInv
<1>1. WorkersOK' /\ Stay' = Stay /\ SameRegistered
    BY WorkersGoOn DEF Unnoticed
<1>2. UNCHANGED <<stoppers, request, known, restore, raced>>
    BY DEF Workers, registry
<1>3. RegistryOK' /\ RequestsInOrder' /\ Owned' /\ Apart' /\ Kept'
    BY <1>1, <1>2 DEF RegistryOK, RequestsInOrder, Owned, Apart, Kept, Busy, Holds
<1>4. Restoring' /\ KnownOnly' /\ Served' /\ NotRaced'
    BY <1>1, <1>2 DEF SameRegistered, Restoring, KnownOnly, Served, NotRaced, Busy, On, RegistryOK
<1> QED
    BY <1>1, <1>3, <1>4

LEMMA InitInv == Init => IndInv
<1> SUFFICES ASSUME Init PROVE IndInv
    OBVIOUS
<1>1. WorkersOK
    BY DEF Init, WorkersOK, WorkersFit, StatusOK, TreesOK, W!Version
<1>2. Stay = [t \in Task |-> {}]
    BY DEF Init, Stay, Staying, W!Live
<1>3. RegistryOK /\ RequestsInOrder /\ Restoring /\ KnownOnly /\ Served
    BY DEF Init, RegistryOK, Restore, Restored, RequestsInOrder, Restoring, KnownOnly,
           Served, Busy
<1>4. Owned /\ Apart /\ Kept /\ NotRaced
    BY <1>2 DEF Init, Restored, Owned, Apart, Kept, NotRaced, Holds, On, Busy
<1> QED
    BY <1>1, <1>3, <1>4 DEF IndInv, RegistryInv

LEMMA UnchangedInv ==
    ASSUME IndInv, UNCHANGED vars
    PROVE  IndInv'
<1>1. WorkersOK' /\ Stay' = Stay
    BY WorkersStay, StatusStays, TreesStay DEF IndInv, WorkersOK, vars
<1>2. RegistryOK' /\ RequestsInOrder' /\ Owned' /\ Apart' /\ Kept'
    BY <1>1 DEF vars, registry, IndInv, RegistryInv, RegistryOK, RequestsInOrder, Owned,
                Apart, Kept, Busy, Holds
<1>3. Restoring' /\ KnownOnly' /\ Served' /\ NotRaced'
    BY DEF vars, registry, IndInv, RegistryInv, Restoring, KnownOnly, Served, NotRaced, Busy, On
<1> QED
    BY <1>1, <1>2, <1>3 DEF IndInv, RegistryInv

LEMMA NextInv ==
    ASSUME IndInv, [Next]_vars
    PROVE  IndInv'
<1>1. ASSUME NEW h \in Handler, Serve(h)
      PROVE  IndInv'
    BY <1>1, RestartTellsInv, RestartSpawnsInv, RestartStoresInv, StopTellsInv,
       StopRemovesInv DEF Serve
<1>2. ASSUME NEW h \in Handler, NEW t \in Task,
             StartTask(h, t) \/ RestartTakes(h, t) \/ StopTakes(h, t)
      PROVE  IndInv'
    BY <1>2, StartTaskInv, RestartOfNothingInv, RestartTakesInv, StopTakesInv
<1>3. CASE Workers \/ Crash \/ RestoreSpawns \/ RestoreInserts
    BY <1>3, WorkersInv, CrashInv, RestoreSpawnsInv, RestoreInsertsInv
<1>4. CASE UNCHANGED vars
    BY <1>4, UnchangedInv
<1> QED
    BY <1>1, <1>2, <1>3, <1>4 DEF Next

-----------------------------------------------------------------------------
(* Every worker that stays is held by exactly one who can tell it to stop, *)
(* and every registered task has a worker or a request that will give it   *)
(* one, for any interleaving of connections, kills and workers.            *)
THEOREM Invariance == Spec => []IndInv
<1>1. IndInv /\ [Next]_vars => IndInv'
    BY NextInv
<1> QED
    BY InitInv, <1>1, PTL DEF Spec

(* Every variable has its type, those of the workers included.             *)
THEOREM TypeCorrect == Spec => []TypeOK
<1>1. IndInv => TypeOK
    BY DEF IndInv, RegistryInv, TypeOK, W!TypeOK, WorkersOK, WorkersFit, StatusOK, TreesOK,
           RegistryOK
<1> QED
    BY <1>1, Invariance, PTL

(* When all is answered a registered task has one worker that stays, and   *)
(* the registry can stop it.                                               *)
THEOREM TasksAreServed == Spec => []EveryTaskIsServed
<1>1. IndInv => EveryTaskIsServed
  <2> SUFFICES ASSUME IndInv, NoRequest, NEW t \in W!Registered
               PROVE  Staying(t) = {stoppers[t]}
      BY DEF EveryTaskIsServed
  <2>1. t \in Task /\ status[t] # None /\ Stay[t] = Staying(t)
      BY DEF W!Registered, Stay
  <2>2. stoppers[t] \in Stay[t]
      BY <2>1 DEF IndInv, RegistryInv, Served, Owned, NoRequest, Busy
  <2>3. \A w \in Stay[t] : w = stoppers[t]
      BY <2>1 DEF IndInv, RegistryInv, Kept, NoRequest, Holds, Busy, Restored
  <2> QED
      BY <2>1, <2>2, <2>3
<1> QED
    BY <1>1, Invariance, PTL

(* When all is answered no worker stays for a task that is gone, unless a  *)
(* stop and a restart of it raced.                                         *)
THEOREM OnlyTasksServed == Spec => []OnlyTasksAreServed
<1>1. IndInv => OnlyTasksAreServed
  <2> SUFFICES ASSUME IndInv, NoRequest, NEW t \in (Task \ W!Registered) \ raced
               PROVE  Staying(t) = {}
      BY DEF OnlyTasksAreServed
  <2>1. t \in Task \ raced /\ status[t] = None /\ Stay[t] = Staying(t)
      BY DEF W!Registered, Stay
  <2>2. stoppers[t] = None
      BY <2>1 DEF IndInv, RegistryInv, NotRaced
  <2>3. \A w \in Stay[t] : w = stoppers[t]
      BY <2>1 DEF IndInv, RegistryInv, Kept, NoRequest, Holds, Busy, Restored
  <2> QED
      BY <2>1, <2>2, <2>3, StayTypes
<1> QED
    BY <1>1, Invariance, PTL

-----------------------------------------------------------------------------
(* Without RestartTask a task never has two workers.                       *)

OneEach ==
    /\ restore.todo \subseteq known
    /\ \A h \in Handler : Busy(h) => request[h].op = "stop"
    /\ \A w \in W!Live : W!TaskOf(w) \in known \ restore.todo
    /\ \A u, w \in W!Live : W!TaskOf(u) = W!TaskOf(w) => u = w

(* Nobody starts working, and nobody changes their task.                   *)
NoNewWork == \A w \in Worker : worker'[w] # None =>
    worker[w] # None /\ worker'[w].task = worker[w].task

(* A step that gives a worker the record r.                                *)
LEMMA NewRecord ==
    ASSUME WorkersFit, NEW w \in Worker, worker[w] # None, NEW r, r.task = worker[w].task,
           worker' = [worker EXCEPT ![w] = r]
    PROVE  NoNewWork
BY DEF WorkersFit, NoNewWork

LEMMA RoundKeepsTasks ==
    ASSUME WorkersFit, NEW w \in Worker, W!Round(w)
    PROVE  NoNewWork
<1> DEFINE old == worker[w]
<1>1. old # None /\ old \in W!WorkerState
    BY DEF WorkersFit, W!Round, W!RsyncStart, W!RsyncReaped, W!SuccessSeen, W!Retry,
           W!GiveUp, W!BackoffOver, W!At
<1>2. CASE W!RsyncStart(w)
    BY <1>1, <1>2 DEF WorkersFit, NoNewWork, W!WorkerState, W!RsyncStart
<1>3. CASE W!RsyncReaped(w)
    BY <1>1, <1>3 DEF WorkersFit, NoNewWork, W!WorkerState, W!RsyncReaped
<1>4. CASE W!SuccessSeen(w) \/ W!GiveUp(w)
  <2>1. W!AfterRound(w).task = old.task
      BY <1>1 DEF W!WorkerState, W!AfterRound
  <2> QED
      BY <1>1, <1>4, <2>1, NewRecord DEF W!SuccessSeen, W!GiveUp
<1>5. CASE W!Retry(w) \/ W!BackoffOver(w)
    BY <1>1, <1>5 DEF WorkersFit, NoNewWork, W!WorkerState, W!Retry, W!BackoffOver
<1> QED
    BY <1>2, <1>3, <1>4, <1>5 DEF W!Round

LEMMA LoopKeepsTasks ==
    ASSUME WorkersFit, NEW w \in Worker,
           W!FileChanged(w) \/ W!TimerExpired(w) \/ W!SignaturePolled(w)
    PROVE  NoNewWork
<1> DEFINE old == worker[w]
<1>1. old # None /\ old \in W!WorkerState
    BY DEF WorkersFit, W!FileChanged, W!TimerExpired, W!SignaturePolled, W!At
<1>2. CASE W!FileChanged(w)
    BY <1>1, <1>2 DEF WorkersFit, NoNewWork, W!WorkerState, W!FileChanged, W!Debounce
<1>3. W!NewRound(w).task = old.task
    BY <1>1 DEF W!WorkerState, W!NewRound
<1>4. [W!NewRound(w) EXCEPT !.signature = origin[W!TaskOf(w)]].task = old.task
    BY <1>1 DEF W!WorkerState, W!NewRound
<1> QED
    BY <1>1, <1>2, <1>3, <1>4, NewRecord DEF W!TimerExpired, W!SignaturePolled

LEMMA WatcherKeepsTasks ==
    ASSUME WorkersFit, NEW w \in Worker, W!SetUp(w) \/ W!Watcher(w)
    PROVE  NoNewWork
<1>1. worker[w] # None /\ worker[w] \in W!WorkerState
    BY DEF WorkersFit, W!SetUp, W!Watcher, W!SetUpPush, W!SetUpPull, W!WatcherStarts,
           W!WatcherFails, W!WatcherPolls, W!At
<1>2. CASE W!SetUp(w)
    BY <1>1, <1>2 DEF WorkersFit, NoNewWork, W!WorkerState, W!SetUp, W!SetUpPush, W!SetUpPull
<1>3. CASE W!Watcher(w)
    BY <1>1, <1>3 DEF WorkersFit, NoNewWork, W!WorkerState, W!Watcher, W!WatcherStarts,
                      W!WatcherFails, W!WatcherPolls
<1> QED
    BY <1>2, <1>3

LEMMA ChildKeepsTasks ==
    ASSUME WorkersFit, NEW w \in Worker,
           W!RsyncReads(w) \/ W!RsyncEnds(w) \/ W!ReaderReports(w) \/ W!ReaderEnds(w)
    PROVE  NoNewWork
<1>1. worker[w] # None /\ worker[w] \in W!WorkerState
    BY DEF WorkersFit, W!RsyncReads, W!RsyncEnds, W!RsyncSucceeds, W!RsyncFails,
           W!ReaderReports, W!ReaderEnds, W!RsyncRunning
<1> QED
    BY <1>1 DEF WorkersFit, NoNewWork, W!WorkerState, W!RsyncReads, W!RsyncEnds,
                W!RsyncSucceeds, W!RsyncFails, W!ReaderReports, W!ReaderEnds

LEMMA WorkersKeepTasks ==
    ASSUME WorkersFit, Workers
    PROVE  NoNewWork
<1>1. ASSUME NEW w \in Worker, W!WorkerStep(w)
      PROVE  NoNewWork
  <2>1. CASE W!Stopped(w)
      BY <2>1 DEF WorkersFit, NoNewWork, W!Stopped
  <2> QED
      BY <1>1, <2>1, RoundKeepsTasks, LoopKeepsTasks, WatcherKeepsTasks, ChildKeepsTasks
         DEF W!WorkerStep
<1>2. ASSUME NEW t \in Task, W!Edit(t)
      PROVE  NoNewWork
    BY <1>2 DEF NoNewWork, W!Edit
<1> QED
    BY <1>1, <1>2 DEF Workers

LEMMA TellingKeepsTasks ==
    ASSUME WorkersFit, NEW s \in Worker \cup {None}, worker' = TellAny(s, worker)
    PROVE  NoNewWork
<1> SUFFICES ASSUME NEW w \in Worker, worker'[w] # None
             PROVE  worker[w] # None /\ worker'[w].task = worker[w].task
    BY DEF NoNewWork
<1>1. worker'[w] = IF w = s /\ worker[w] # None
                     THEN [worker[w] EXCEPT !.told = TRUE] ELSE worker[w]
    BY DEF TellAny
<1>2. worker[w] # None /\ worker[w] \in W!WorkerState
    BY <1>1 DEF WorkersFit
<1> QED
    BY <1>1, <1>2 DEF W!WorkerState

(* Where nobody starts working, one worker each remains one worker each.   *)
LEMMA NoNewWorkOneEach ==
    ASSUME OneEach, NoNewWork,
           known' = known, restore'.todo = restore.todo,
           \A h \in Handler : Busy(h)' => request'[h].op = "stop"
    PROVE  OneEach'
<1>1. \A w \in W!Live' : w \in W!Live /\ W!TaskOf(w)' = W!TaskOf(w)
    BY DEF NoNewWork, W!Live, W!TaskOf
<1> QED
    BY <1>1 DEF OneEach

(* A worker that is spawned for a task that nobody works on.               *)
LEMMA SpawnedOneEach ==
    ASSUME WorkersFit, OneEach, NEW t \in Task, NEW w \in Free,
           t \notin known \/ t \in restore.todo,
           worker' = [worker EXCEPT ![w] = W!NewWorker(t)],
           t \in known', known \subseteq known', restore'.todo = restore.todo \ {t},
           \A h \in Handler : Busy(h)' => request'[h].op = "stop"
    PROVE  OneEach'
<1>1. w \in Worker /\ w \notin W!Live
    BY DEF Free
<1>2. W!NewWorker(t).task = t
    BY DEF W!NewWorker
<1>3. \A u \in W!Live' : \/ u = w /\ W!TaskOf(u)' = t
                         \/ u # w /\ u \in W!Live /\ W!TaskOf(u)' = W!TaskOf(u)
    BY <1>1, <1>2 DEF WorkersFit, W!Live, W!TaskOf
<1>4. \A u \in W!Live : W!TaskOf(u) # t
    BY DEF OneEach
<1> QED
    BY <1>3, <1>4 DEF OneEach

LEMMA ServeOneEach ==
    ASSUME IndInv, OneEach, NEW h \in Handler, Serve(h)
    PROVE  OneEach'
<1> USE DEF IndInv, RegistryInv, WorkersOK
<1>1. Busy(h) /\ request[h].op = "stop" /\ request[h].step # "spawn" /\ request[h] \in Request
    BY DEF Serve, RestartTells, RestartSpawns, RestartStores, StopTells, StopRemoves, Busy,
           OneEach, RequestsInOrder, RegistryOK
<1>2. CASE StopTells(h)
  <2>1. NoNewWork
      BY <1>1, <1>2, TellingKeepsTasks DEF StopTells, Kill, Request
  <2>2. \A g \in Handler : Busy(g)' => request'[g].op = "stop"
      BY <1>1, <1>2 DEF StopTells, Step, Busy, OneEach, RegistryOK, Request
  <2> QED
      BY <1>2, <2>1, <2>2, NoNewWorkOneEach DEF StopTells
<1>3. CASE StopRemoves(h)
  <2>1. \A g \in Handler : Busy(g)' => request'[g].op = "stop"
      BY <1>3 DEF StopRemoves, Answer, Busy, OneEach, RegistryOK
  <2>2. NoNewWork
      BY <1>3 DEF NoNewWork, StopRemoves
  <2> QED
      BY <1>3, <2>1, <2>2, NoNewWorkOneEach DEF StopRemoves
<1> QED
    BY <1>1, <1>2, <1>3 DEF Serve, RestartTells, RestartSpawns, RestartStores

LEMMA NextOneEach ==
    ASSUME IndInv, OneEach, ~MayRestart, [Next]_vars
    PROVE  OneEach'
<1> USE DEF IndInv, RegistryInv, WorkersOK
<1>1. ASSUME NEW h \in Handler, NEW t \in Task, StartTask(h, t)
      PROVE  OneEach'
  <2>1. restore.todo = {} /\ t \notin known
      BY <1>1 DEF StartTask, Accepting, Restored
  <2> QED
      BY <1>1, <2>1, SpawnedOneEach DEF StartTask, OneEach, Busy
<1>2. ASSUME NEW h \in Handler, NEW t \in Task, StopTakes(h, t)
      PROVE  OneEach'
  <2>1. \A g \in Handler : Busy(g)' => request'[g].op = "stop"
      BY <1>2 DEF StopTakes, Busy, OneEach, RegistryOK
  <2> QED
      BY <1>2, <2>1, NoNewWorkOneEach DEF StopTakes, NoNewWork
<1>3. CASE Workers
  <2>1. \A g \in Handler : Busy(g)' => request'[g].op = "stop"
      BY <1>3 DEF Workers, registry, Busy, OneEach
  <2> QED
      BY <1>3, <2>1, WorkersKeepTasks, NoNewWorkOneEach DEF Workers, registry
<1>4. CASE Crash
  <2>1. W!Live' = {} /\ \A h \in Handler : ~Busy(h)'
      BY <1>4 DEF Crash, W!Live, Busy
  <2>2. restore'.todo \subseteq known'
      BY <1>4 DEF Crash, Restored
  <2> QED
      BY <2>1, <2>2 DEF OneEach
<1>5. CASE RestoreSpawns
  <2>1. PICK t \in restore.todo, w \in Free :
            /\ worker' = [worker EXCEPT ![w] = W!NewWorker(t)]
            /\ restore' = [todo |-> restore.todo \ {t}, task |-> t, stopper |-> w]
      BY <1>5 DEF RestoreSpawns
  <2>2. t \in Task /\ t \in known
      BY <2>1 DEF OneEach, RegistryOK
  <2>3. restore'.todo = restore.todo \ {t}
      BY <2>1
  <2>4. \A h \in Handler : Busy(h)' => request'[h].op = "stop"
      BY <1>5 DEF RestoreSpawns, OneEach, Busy
  <2> QED
      BY <1>5, <2>1, <2>2, <2>3, <2>4, SpawnedOneEach DEF RestoreSpawns
<1>6. CASE RestoreInserts
  <2>1. restore'.todo = restore.todo /\ worker' = worker
      BY <1>6 DEF RestoreInserts, Insert, RegistryOK, Restore
  <2>2. \A h \in Handler : Busy(h)' => request'[h].op = "stop"
      BY <1>6 DEF RestoreInserts, OneEach, Busy
  <2> QED
      BY <1>6, <2>1, <2>2, NoNewWorkOneEach DEF RestoreInserts, NoNewWork
<1>7. CASE UNCHANGED vars
    BY <1>7 DEF vars, registry, OneEach, Busy, W!Live, W!TaskOf
<1>8. ASSUME NEW h \in Handler, NEW t \in Task, RestartTakes(h, t)
      PROVE  FALSE
    BY <1>8 DEF RestartTakes
<1> QED
    BY <1>1, <1>2, <1>3, <1>4, <1>5, <1>6, <1>7, <1>8, ServeOneEach DEF Next

(* Two rsyncs of one daemon process write one replica only after a         *)
(* RestartTask: StartTask refuses an id that is registered, and clients    *)
(* make each id once; StopTask starts nothing, and the restore starts      *)
(* every saved task once, before a connection is accepted.                 *)
THEOREM OneRsyncUnlessRestarted ==
    ASSUME ~MayRestart
    PROVE  Spec => []OneRsyncPerTask
<1>1. Init => OneEach
    BY DEF Init, OneEach, Busy, Restored, W!Live
<1>2. IndInv /\ OneEach /\ [Next]_vars => OneEach'
    BY NextOneEach
<1>3. OneEach => OneRsyncPerTask
    BY DEF OneEach, OneRsyncPerTask, W!RsyncRunning, W!Live
<1> QED
    BY <1>1, <1>2, <1>3, Invariance, PTL DEF Spec

-----------------------------------------------------------------------------
(* What SyncWorkerProofs shows of workers that are by themselves holds of  *)
(* those of a daemon, as long as no two of them share a task, with the     *)
(* tasks coming and going.                                                 *)
P == INSTANCE SyncWorkerProofs

LEMMA SameStates == P!WorkerState = W!WorkerState /\ P!Status = W!Status
BY Zenon DEF P!Status, P!WorkerState, P!Place, P!Version, P!MaxRetries,
             W!Status, W!WorkerState, W!Place, W!Version, W!MaxRetries

LEMMA AssumptionsHold == P!WorkerAssumption /\ P!NoneAssumption
<1>1. P!WorkerAssumption
    BY Zenon DEF DaemonAssumption, P!WorkerAssumption
<1>2. None \notin W!Status /\ None \notin W!WorkerState
    BY Zenon DEF DaemonAssumption
<1> QED
    BY <1>1, <1>2, SameStates, Zenon DEF P!NoneAssumption

(* The two instances say the same. *)
LEMMA SameRound ==
    ASSUME NEW w \in Worker, W!Round(w)
    PROVE  P!Round(w)
<1>1. CASE W!RsyncStart(w)
    BY <1>1, Zenon DEF W!RsyncStart, W!At, W!TaskOf, W!UpdateStatus, W!StatusUpdated,
        P!Round, P!RsyncStart, P!At, P!TaskOf, P!UpdateStatus, P!StatusUpdated
<1>2. CASE W!RsyncReaped(w)
    BY <1>2, Zenon DEF W!RsyncReaped, W!At, W!TaskOf, W!UpdateStatus, W!StatusUpdated, W!ExitStatus,
        P!Round, P!RsyncReaped, P!At, P!TaskOf, P!UpdateStatus, P!StatusUpdated, P!ExitStatus
<1>3. CASE W!SuccessSeen(w)
    BY <1>3, Zenon DEF W!SuccessSeen, W!At, W!TaskOf, W!AfterRound,
        P!Round, P!SuccessSeen, P!At, P!TaskOf, P!AfterRound
<1>4. CASE W!Retry(w)
    BY <1>4, Zenon DEF W!Retry, W!At, W!TaskOf, W!RetriesLeft, W!MaxRetries,
        P!Round, P!Retry, P!At, P!TaskOf, P!RetriesLeft, P!MaxRetries
<1>5. CASE W!GiveUp(w)
    BY <1>5, Zenon DEF W!GiveUp, W!At, W!TaskOf, W!RetriesLeft, W!MaxRetries, W!AfterRound,
        W!UpdateStatus, W!StatusUpdated, P!UpdateStatus, P!StatusUpdated,
        P!Round, P!GiveUp, P!At, P!TaskOf, P!RetriesLeft, P!MaxRetries, P!AfterRound
<1>6. CASE W!BackoffOver(w)
    BY <1>6, Zenon DEF W!BackoffOver, W!At, P!Round, P!BackoffOver, P!At
<1> QED
    BY <1>1, <1>2, <1>3, <1>4, <1>5, <1>6 DEF W!Round

LEMMA SameLoop ==
    ASSUME NEW w \in Worker,
           W!Stopped(w) \/ W!FileChanged(w) \/ W!TimerExpired(w) \/ W!SignaturePolled(w)
    PROVE  P!Stopped(w) \/ P!FileChanged(w) \/ P!TimerExpired(w) \/ P!SignaturePolled(w)
<1>1. CASE W!Stopped(w)
    BY <1>1, Zenon DEF W!Stopped, W!Listens, W!At, P!Stopped, P!Listens, P!At
<1>2. CASE W!FileChanged(w)
    BY <1>2, Zenon DEF W!FileChanged, W!FileEvent, W!Debounce, W!At, W!TaskOf, W!UpdateStatus, W!StatusUpdated,
        P!FileChanged, P!FileEvent, P!Debounce, P!At, P!TaskOf, P!UpdateStatus, P!StatusUpdated
<1>3. CASE W!TimerExpired(w)
    BY <1>3, Zenon DEF W!TimerExpired, W!NewRound, W!At, P!TimerExpired, P!NewRound, P!At
<1>4. CASE W!SignaturePolled(w)
    BY <1>4, Zenon DEF W!SignaturePolled, W!NewRound, W!At, W!TaskOf, W!UpdateStatus, W!StatusUpdated,
        P!SignaturePolled, P!NewRound, P!At, P!TaskOf, P!UpdateStatus, P!StatusUpdated
<1> QED
    BY <1>1, <1>2, <1>3, <1>4

LEMMA SameChild ==
    ASSUME NEW w \in Worker,
           W!RsyncReads(w) \/ W!RsyncEnds(w) \/ W!ReaderReports(w) \/ W!ReaderEnds(w)
    PROVE  P!RsyncReads(w) \/ P!RsyncEnds(w) \/ P!ReaderReports(w) \/ P!ReaderEnds(w)
<1>1. CASE W!RsyncReads(w)
    BY <1>1, Zenon DEF W!RsyncReads, W!RsyncRunning, W!TaskOf, P!RsyncReads, P!RsyncRunning, P!TaskOf
<1>2. CASE W!RsyncSucceeds(w)
    BY <1>2, Zenon DEF W!RsyncSucceeds, W!RsyncRunning, W!TaskOf,
        P!RsyncEnds, P!RsyncSucceeds, P!RsyncRunning, P!TaskOf
<1>3. CASE W!RsyncFails(w)
    BY <1>3, Zenon DEF W!RsyncFails, W!RsyncRunning, W!TaskOf, W!Mixed,
        P!RsyncEnds, P!RsyncFails, P!RsyncRunning, P!TaskOf, P!Mixed
<1>4. CASE W!ReaderReports(w)
    BY <1>4, Zenon DEF W!ReaderReports, W!TaskOf, W!UpdateStatus, W!StatusUpdated,
        P!ReaderReports, P!TaskOf, P!UpdateStatus, P!StatusUpdated
<1>5. CASE W!ReaderEnds(w)
    BY <1>5, Zenon DEF W!ReaderEnds, P!ReaderEnds
<1> QED
    BY <1>1, <1>2, <1>3, <1>4, <1>5 DEF W!RsyncEnds

LEMMA SameWatcher ==
    ASSUME NEW w \in Worker, W!SetUp(w) \/ W!Watcher(w)
    PROVE  P!SetUp(w) \/ P!Watcher(w)
<1>1. CASE W!SetUpPush(w)
    BY <1>1, Zenon DEF W!SetUpPush, W!At, W!TaskOf, P!SetUp, P!SetUpPush, P!At, P!TaskOf
<1>2. CASE W!SetUpPull(w)
    BY <1>2, Zenon DEF W!SetUpPull, W!At, W!TaskOf, W!Signatures,
        P!SetUp, P!SetUpPull, P!At, P!TaskOf, P!Signatures
<1>3. CASE W!WatcherStarts(w)
    BY <1>3, Zenon DEF W!WatcherStarts, W!TaskOf, P!Watcher, P!WatcherStarts, P!TaskOf
<1>4. CASE W!WatcherFails(w)
    BY <1>4, Zenon DEF W!WatcherFails, P!Watcher, P!WatcherFails
<1>5. CASE W!WatcherPolls(w)
    BY <1>5, Zenon DEF W!WatcherPolls, W!TaskOf, P!Watcher, P!WatcherPolls, P!TaskOf
<1> QED
    BY <1>1, <1>2, <1>3, <1>4, <1>5 DEF W!SetUp, W!Watcher

LEMMA SameEdit ==
    ASSUME NEW t \in Task, W!Edit(t)
    PROVE  P!Edit(t)
BY Zenon DEF W!Edit, W!IsWatched, W!Live, W!TaskOf, P!Edit, P!IsWatched, P!Live, P!TaskOf

LEMMA WorkersStepSound ==
    ASSUME P!WorkersInv, Workers
    PROVE  P!WorkersInv'
<1>1. ASSUME NEW w \in Worker, W!WorkerStep(w)
      PROVE  P!Next
    BY <1>1, SameRound, SameLoop, SameChild, SameWatcher DEF W!WorkerStep, P!WorkerStep, P!Next
<1>2. ASSUME NEW t \in Task, W!Edit(t)
      PROVE  P!Next
    BY <1>2, SameEdit DEF P!Next
<1> QED
    BY <1>1, <1>2, P!NextStep, AssumptionsHold DEF Workers

LEMMA ToldAlready ==
    ASSUME NEW r \in P!WorkerState, r.told = TRUE
    PROVE  [r EXCEPT !.told = TRUE] = r
BY DEF P!WorkerState

(* A worker that is told, or has been.                                     *)
LEMMA TellingSound ==
    ASSUME P!WorkersInv, NEW s \in Worker \cup {None}, worker' = TellAny(s, worker),
           UNCHANGED <<status, origin, replica>>
    PROVE  P!WorkersInv'
<1>0. worker \in [Worker -> P!WorkerState \cup {None}]
    BY Zenon DEF P!WorkersInv, P!TypeOK
<1>1. CASE s \in Worker /\ worker[s] # None /\ ~worker[s].told
  <2>1. worker' = [worker EXCEPT ![s] = IF @ = None THEN @ ELSE [@ EXCEPT !.told = TRUE]]
      BY <1>0, <1>1 DEF TellAny
  <2>2. P!Told(s)
      BY <1>1, <2>1, Zenon DEF P!Told, P!Tell
  <2> QED
      BY <1>1, <2>2, P!NextStep, AssumptionsHold DEF P!Next
<1>2. CASE ~(s \in Worker /\ worker[s] # None /\ ~worker[s].told)
  <2>1. \A w \in Worker : worker[w] # None => worker[w] \in P!WorkerState
      BY <1>0
  <2>2. \A w \in Worker : w = s /\ worker[w] # None =>
            [worker[w] EXCEPT !.told = TRUE] = worker[w]
    <3>1. ASSUME NEW w \in Worker, w = s, worker[w] # None
          PROVE  worker[w].told = TRUE
        BY <1>2, <2>1, <3>1 DEF P!WorkerState
    <3> QED
        BY <2>1, <3>1, ToldAlready
  <2>3. worker' = worker
      BY <1>0, <2>2 DEF TellAny
  <2> QED
      BY <2>3, P!StutterStep, AssumptionsHold DEF P!vars
<1> QED
    BY <1>1, <1>2

(* A task that is removed while its worker goes on.                        *)
LEMMA RemovalSound ==
    ASSUME P!WorkersInv, NEW t \in Task, status' = [status EXCEPT ![t] = None],
           UNCHANGED <<worker, origin, replica>>
    PROVE  P!WorkersInv'
<1>1. P!TypeOK'
    BY DEF P!WorkersInv, P!TypeOK
<1>2. P!Live' = P!Live /\ \A u : P!TaskOf(u)' = P!TaskOf(u)
    BY DEF P!Live, P!TaskOf
<1>3. ASSUME NEW u \in P!Live
      PROVE  P!Sound(worker[u], status[P!TaskOf(u)], origin[P!TaskOf(u)], replica[P!TaskOf(u)])'
  <2> DEFINE k == P!TaskOf(u)
  <2>1. P!Sound(worker[u], status[k], origin[k], replica[k])
      BY DEF P!WorkersInv
  <2>2. k \in Task /\ u \in Worker
      BY DEF P!WorkersInv, P!TypeOK, P!Live, P!TaskOf, P!WorkerState
  <2>3. status'[k] = status[k] \/ status'[k] = None
      BY <2>2 DEF P!WorkersInv, P!TypeOK
  <2>4. P!Sound(worker[u], None, origin[k], replica[k])
    <3>1. None # "IDLE" /\ ~P!IsShown(None)
        BY AssumptionsHold, Zenon DEF P!NoneAssumption, P!Status, P!IsShown
    <3> QED
        BY <2>1, <3>1, Zenon DEF P!Sound, P!IdleIsOwn, P!StatusIsOwn
  <2>5. P!Sound(worker'[u], status'[k], origin'[k], replica'[k])
      BY <2>1, <2>3, <2>4
  <2> QED
      BY <1>2, <2>5, P!SoundThen, AssumptionsHold
<1> QED
    BY <1>1, <1>2, <1>3 DEF P!WorkersInv

(* The worker of a new task.                                               *)
LEMMA StartedSound ==
    ASSUME P!WorkersInv, NEW t \in Task, NEW w \in Worker, worker[w] = None,
           \A u \in P!Live : P!TaskOf(u) # t,
           worker' = [worker EXCEPT ![w] = W!NewWorker(t)],
           status' = [status EXCEPT ![t] = "STARTING"],
           UNCHANGED <<origin, replica>>
    PROVE  P!WorkersInv'
<1> DEFINE r == W!NewWorker(t)
<1>0. r \in P!WorkerState /\ r.task = t /\ r # None /\ "STARTING" \in P!Status
  <2>1. r \in P!WorkerState /\ r.task = t /\ "STARTING" \in P!Status
      BY DEF W!NewWorker, P!WorkerState, P!Place, P!Version, P!MaxRetries, P!Status
  <2> QED
      BY <2>1, AssumptionsHold DEF P!NoneAssumption
<1>1. P!TypeOK'
    BY <1>0 DEF P!WorkersInv, P!TypeOK
<1>2. \A u \in P!Live' : \/ u = w /\ P!TaskOf(u)' = t
                         \/ u # w /\ u \in P!Live /\ P!TaskOf(u)' = P!TaskOf(u)
    BY <1>0 DEF P!WorkersInv, P!TypeOK, P!Live, P!TaskOf
<1>3. P!Sound(r, "STARTING", origin[t], replica[t])
    BY DEF W!NewWorker, P!Sound, P!Counted, P!IdleIsOwn, P!StatusIsOwn, P!Copied, P!Watching,
           P!Heard, P!IsShown
<1>4. ASSUME NEW u \in P!Live'
      PROVE  P!Sound(worker[u], status[P!TaskOf(u)], origin[P!TaskOf(u)], replica[P!TaskOf(u)])'
  <2>1. CASE u = w /\ P!TaskOf(u)' = t
    <3>1. worker'[u] = r /\ status'[t] = "STARTING"
        BY <2>1 DEF P!WorkersInv, P!TypeOK
    <3> QED
        BY <1>3, <2>1, <3>1, P!SoundThen, AssumptionsHold
  <2>2. CASE u # w /\ u \in P!Live /\ P!TaskOf(u)' = P!TaskOf(u)
    <3> DEFINE k == P!TaskOf(u)
    <3>1. P!Sound(worker[u], status[k], origin[k], replica[k]) /\ k # t
        BY <2>2 DEF P!WorkersInv
    <3>2. k \in Task /\ u \in Worker
        BY <2>2 DEF P!WorkersInv, P!TypeOK, P!Live, P!TaskOf, P!WorkerState
    <3>3. worker'[u] = worker[u] /\ status'[k] = status[k]
        BY <2>2, <3>1, <3>2 DEF P!WorkersInv, P!TypeOK
    <3>4. P!Sound(worker'[u], status'[k], origin'[k], replica'[k])
        BY <3>1, <3>3
    <3> QED
        BY <2>2, <3>4, P!SoundThen, AssumptionsHold
  <2> QED
    BY <1>2, <2>1, <2>2
<1>5. \A u, v \in P!Live' : P!TaskOf(u)' = P!TaskOf(v)' => u = v
    BY <1>2 DEF P!WorkersInv
<1> QED
    BY <1>1, <1>4, <1>5 DEF P!WorkersInv

(* Every worker of the daemon is sound: the tasks of its workers differ,   *)
(* and nothing that was saved is left to be restored.                      *)
SoundInv == P!WorkersInv /\ restore = Restored

LEMMA ServeSound ==
    ASSUME IndInv, OneEach, SoundInv, NEW h \in Handler, Serve(h)
    PROVE  SoundInv'
<1>1. Busy(h) /\ request[h].op = "stop" /\ request[h].step # "spawn" /\ request[h] \in Request
    BY DEF Serve, RestartTells, RestartSpawns, RestartStores, StopTells, StopRemoves, Busy,
           IndInv, RegistryInv, OneEach, RequestsInOrder, RegistryOK
<1>2. CASE StopTells(h)
    BY <1>1, <1>2, TellingSound DEF StopTells, Kill, Request, SoundInv
<1>3. CASE StopRemoves(h)
    BY <1>1, <1>3, RemovalSound DEF StopRemoves, Request, SoundInv
<1> QED
    BY <1>1, <1>2, <1>3 DEF Serve, RestartTells, RestartSpawns, RestartStores

LEMMA NextSound ==
    ASSUME IndInv, OneEach, SoundInv, ~MayRestart, ~MayCrash, [Next]_vars
    PROVE  SoundInv'
<1>1. ASSUME NEW h \in Handler, NEW t \in Task, StartTask(h, t)
      PROVE  SoundInv'
  <2>1. PICK w \in Free : worker' = [worker EXCEPT ![w] = W!NewWorker(t)]
      BY <1>1 DEF StartTask
  <2>2. w \in Worker /\ worker[w] = None
      BY DEF Free, W!Live
  <2>3. \A u \in P!Live : P!TaskOf(u) # t
      BY <1>1 DEF StartTask, OneEach, W!Live, W!TaskOf, P!Live, P!TaskOf
  <2> QED
      BY <1>1, <2>1, <2>2, <2>3, StartedSound DEF StartTask, SoundInv
<1>2. ASSUME UNCHANGED <<status, worker, origin, replica, restore>>
      PROVE  SoundInv'
    BY <1>2, P!StutterStep, AssumptionsHold DEF P!vars, SoundInv
<1>3. CASE Workers
    BY <1>3, WorkersStepSound DEF Workers, registry, SoundInv
<1>4. ~RestoreSpawns /\ ~RestoreInserts /\ ~Crash
    BY DEF SoundInv, Restored, RestoreSpawns, RestoreInserts, Crash
<1>5. ASSUME NEW h \in Handler, NEW t \in Task, RestartTakes(h, t) \/ StopTakes(h, t)
      PROVE  SoundInv'
    BY <1>2, <1>5 DEF RestartTakes, StopTakes
<1>6. CASE UNCHANGED vars
    BY <1>2, <1>6 DEF vars, registry
<1> QED
    BY <1>1, <1>3, <1>4, <1>5, <1>6, ServeSound DEF Next

LEMMA WorkersAreSound ==
    ASSUME ~MayRestart, ~MayCrash
    PROVE  Spec => [](P!WorkersInv /\ OneEach)
<1>1. Init => OneEach
    BY DEF Init, OneEach, Busy, Restored, W!Live
<1>2. IndInv /\ OneEach /\ [Next]_vars => OneEach'
    BY NextOneEach
<1>3. Init => SoundInv
    BY DEF Init, SoundInv, P!WorkersInv, P!TypeOK, P!Live, P!Version
<1>4. IndInv /\ OneEach /\ SoundInv /\ [Next]_vars => SoundInv'
    BY NextSound
<1>5. SoundInv => P!WorkersInv
    BY DEF SoundInv
<1> QED
    BY <1>1, <1>2, <1>3, <1>4, <1>5, Invariance, PTL DEF Spec

(* The worker of a task ends a round as a success only after a successful  *)
(* rsync of its own, also while other tasks come and go and its own is     *)
(* removed under it.  With a RestartTask two workers read one status, and  *)
(* a restore puts back a saved one.                                        *)
THEOREM SuccessIsOwnUnlessRestarted ==
    ASSUME ~MayRestart, ~MayCrash
    PROVE  Spec => W!SuccessIsItsOwn
<1>1. ASSUME P!WorkersInv, NEW w \in Worker, W!SuccessSeen(w)
      PROVE  worker[w].rsync = "ok"
  <2>1. P!SuccessSeen(w)
      BY <1>1, Zenon DEF W!SuccessSeen, W!At, W!TaskOf, W!AfterRound,
          P!SuccessSeen, P!At, P!TaskOf, P!AfterRound
  <2> QED
      BY <1>1, <2>1, P!SuccessOfARound, AssumptionsHold
<1>2. P!WorkersInv => \A w \in Worker : W!SuccessSeen(w) => worker[w].rsync = "ok"
    BY <1>1
<1> QED
    BY <1>2, WorkersAreSound, PTL DEF W!SuccessIsItsOwn

(* The worker of a registered task gives up only after three attempts that *)
(* all failed.  Of a task that was removed under it no success is read     *)
(* back, so that it retries whatever comes of it.                          *)
THEOREM GivesUpAfterThreeUnlessRestarted ==
    ASSUME ~MayRestart, ~MayCrash, ~LateReader
    PROVE  Spec => [][\A w \in Worker : W!GiveUp(w) /\ W!TaskOf(w) \in W!Registered =>
                                            worker[w].failures = W!MaxRetries]_vars
<1>1. ASSUME P!WorkersInv, NEW w \in Worker, W!GiveUp(w), W!TaskOf(w) \in W!Registered
      PROVE  worker[w].failures = W!MaxRetries
  <2> DEFINE r == worker[w]
             s == status[W!TaskOf(w)]
  <2>1. /\ r # None /\ r.at = "check" /\ s # "IDLE" /\ s # None
        /\ ~(r.tries + 1 < W!MaxRetries)
      BY <1>1, Zenon DEF W!GiveUp, W!At, W!RetriesLeft, W!Registered
  <2>2. r \in P!WorkerState /\ P!Sound(r, s, origin[W!TaskOf(w)], replica[W!TaskOf(w)])
    <3>1. P!TaskOf(w) = W!TaskOf(w)
        BY Zenon DEF P!TaskOf, W!TaskOf
    <3> QED
        BY <1>1, <2>1, <3>1, P!Known, AssumptionsHold
  <2>3. P!IdleIsOwn(r, s) /\ P!StatusIsOwn(r, s)
      BY <2>2 DEF P!Sound
  <2>4. r.rsync = "failed" /\ r.failures = r.tries + 1
      BY <2>1, <2>2, <2>3 DEF P!IdleIsOwn, P!StatusIsOwn, P!IsShown, P!WorkerState
  <2>5. r.tries \in 0..2
      BY <2>2 DEF P!WorkerState, P!MaxRetries
  <2> QED
      BY <2>1, <2>4, <2>5 DEF W!MaxRetries
<1>2. P!WorkersInv =>
        \A w \in Worker : W!GiveUp(w) /\ W!TaskOf(w) \in W!Registered =>
            worker[w].failures = W!MaxRetries
    BY <1>1
<1> QED
    BY <1>2, WorkersAreSound, PTL

(* IDLE of a task whose worker waits and has heard of every change means   *)
(* that the replica is a copy, for all tasks of the daemon at a time.      *)
THEOREM IdleMeansInSyncUnlessRestarted ==
    ASSUME ~MayRestart, ~MayCrash, ~EarlyEdits
    PROVE  Spec => []W!IdleIsInSync
<1>1. ASSUME P!WorkersInv, NEW w \in Worker, W!UpToDate(w), status[W!TaskOf(w)] = "IDLE"
      PROVE  replica[W!TaskOf(w)] = origin[W!TaskOf(w)]
  <2>1. P!UpToDate(w) /\ P!TaskOf(w) = W!TaskOf(w)
      BY <1>1, Zenon DEF W!UpToDate, W!At, W!TaskOf, P!UpToDate, P!At, P!TaskOf
  <2> QED
      BY <1>1, <2>1, P!WaitingInSync, AssumptionsHold
<1>2. P!WorkersInv => W!IdleIsInSync
    BY <1>1 DEF W!IdleIsInSync
<1> QED
    BY <1>2, WorkersAreSound, PTL

=============================================================================
