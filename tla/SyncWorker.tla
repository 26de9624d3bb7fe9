----------------------------- MODULE SyncWorker -----------------------------
(***************************************************************************)
(* The workers of the legacy daemon (src/src/server/worker.rs): one        *)
(* asynchronous task per synchronisation, with its watcher thread, its     *)
(* rsync child and the reader of that child's output.  They share the      *)
(* statuses of ServerState, which they lock for one access at a time.      *)
(*                                                                         *)
(* A tree is the number of the last change made to it.  A push watches the *)
(* local tree, a pull polls the signature of the remote one; both are the  *)
(* task's `origin` here, and the other side is its `replica`.              *)
(***************************************************************************)
EXTENDS Integers

CONSTANTS
    Task,          \* task ids
    PullTask,      \* those with SyncDirection::Pull
    Worker,        \* names for workers; one that has ended is used again
    None,
    MaxVersion     \* bound: changes made to an origin

CONSTANTS
    LateReader,    \* the stdout reader may run on after the child was reaped
    EarlyEdits,    \* changes are made before the worker watches for them
    MayFailRsync,  \* an rsync or an ssh may fail
    MayFailWatch   \* the watcher thread may end

ASSUME WorkerAssumption ==
    /\ PullTask \subseteq Task
    /\ MaxVersion \in Nat \ {0}
    /\ {LateReader, EarlyEdits, MayFailRsync, MayFailWatch} \subseteq BOOLEAN
    /\ None \notin 0..MaxVersion

VARIABLES
    status,    \* ServerState.tasks: the status of each registered task
    worker,    \* the state of each worker, its watcher, child and reader
    origin,    \* the tree that is watched
    replica    \* the tree that is written

vars == <<status, worker, origin, replica>>

-----------------------------------------------------------------------------
MaxRetries == 3

Version == 0..MaxVersion
Mixed   == -1     \* what an rsync --inplace that failed leaves behind

Status == {"STARTING", "SYNCING", "IDLE", "ERROR", "ERROR (Max Retries)",
           "PENDING", "RESTARTING"}

(* What the worker is at: a round of attempts, the set-up of its watcher,  *)
(* or the select! of its event loop.                                       *)
Place == {"attempt", "rsync", "check", "backoff", "watch", "select"}

WorkerState == [
    task: Task, at: Place,
    told: BOOLEAN,                        \* rx_kill.recv() is ready
    looping: BOOLEAN,                     \* the initial round is over
    tries: 0..(MaxRetries - 1),
    rsync: {"none", "running", "ok", "failed"},
    read: Version \cup {None},            \* what the rsync has read
    reading: BOOLEAN,                     \* a stdout reader is alive
    watcher: {"none", "starting", "on", "off"},
    watched: Version \cup {None},         \* what its last scan saw
    event: BOOLEAN,                       \* a message is in rx_file
    armed: BOOLEAN,                       \* debounce_deadline.is_some()
    signature: Version \cup {None},
    failures: 0..MaxRetries]              \* history: failed rsyncs of the round

(* None is neither a status nor a worker. *)
ASSUME NoneAssumption == None \notin Status \cup WorkerState

NewWorker(t) == [
    task |-> t, at |-> "attempt", told |-> FALSE, looping |-> FALSE, tries |-> 0,
    rsync |-> "none", read |-> None, reading |-> FALSE,
    watcher |-> "none", watched |-> None, event |-> FALSE, armed |-> FALSE,
    signature |-> None,
    failures |-> 0]

Live        == {w \in Worker : worker[w] # None}
At(w, l)    == worker[w] # None /\ worker[w].at = l
TaskOf(w)   == worker[w].task
Registered  == {t \in Task : status[t] # None}

(* update_status: a task that is no longer registered is left alone.       *)
StatusUpdated(t, s) == [status EXCEPT ![t] = IF @ = None THEN @ ELSE s]
UpdateStatus(t, s)  == status' = StatusUpdated(t, s)

-----------------------------------------------------------------------------
(* run_rsync and its child. *)

RsyncStart(w) ==
    /\ At(w, "attempt")
    /\ worker' = [worker EXCEPT ![w].at = "rsync", ![w].rsync = "running",
                                ![w].read = None, ![w].reading = TRUE]
    /\ UpdateStatus(TaskOf(w), "SYNCING")
    /\ UNCHANGED <<origin, replica>>

RsyncRunning(w) == worker[w] # None /\ worker[w].rsync = "running"

RsyncReads(w) ==
    /\ RsyncRunning(w)
    /\ worker[w].read = None
    /\ worker' = [worker EXCEPT ![w].read = origin[TaskOf(w)]]
    /\ UNCHANGED <<status, origin, replica>>

RsyncSucceeds(w) ==
    /\ RsyncRunning(w)
    /\ worker[w].read # None
    /\ replica' = [replica EXCEPT ![TaskOf(w)] = worker[w].read]
    /\ worker' = [worker EXCEPT ![w].rsync = "ok"]
    /\ UNCHANGED <<status, origin>>

RsyncFails(w) ==
    /\ MayFailRsync
    /\ RsyncRunning(w)
    /\ \E v \in {replica[TaskOf(w)]} \cup (IF worker[w].read = None THEN {} ELSE {Mixed}) :
          replica' = [replica EXCEPT ![TaskOf(w)] = v]
    /\ worker' = [worker EXCEPT ![w].rsync = "failed"]
    /\ UNCHANGED <<status, origin>>

(* A progress line becomes the status; run_rsync does not wait for the     *)
(* reader when it has reaped the child.                                    *)
ReaderReports(w) ==
    /\ worker[w] # None /\ worker[w].reading
    /\ UpdateStatus(TaskOf(w), "SYNCING")
    /\ UNCHANGED <<worker, origin, replica>>

ReaderEnds(w) ==
    /\ worker[w] # None /\ worker[w].reading
    /\ worker[w].rsync # "running"
    /\ worker' = [worker EXCEPT ![w].reading = FALSE]
    /\ UNCHANGED <<status, origin, replica>>

(* Mutant: the exit status is not looked at. *)
ExitStatusIgnored(w) == "IDLE"

ExitStatus(w) == IF worker[w].rsync = "ok" THEN "IDLE" ELSE "ERROR"

RsyncReaped(w) ==
    /\ At(w, "rsync")
    /\ worker[w].rsync \in {"ok", "failed"}
    /\ LateReader \/ ~worker[w].reading
    /\ UpdateStatus(TaskOf(w), ExitStatus(w))
    /\ worker' = [worker EXCEPT ![w].at = "check",
          ![w].failures = IF worker[w].rsync = "failed" THEN @ + 1 ELSE @]
    /\ UNCHANGED <<origin, replica>>

-----------------------------------------------------------------------------
(* retry_run_rsync. *)

(* Mutant: the last attempt is not made. *)
RetriesLeftTwo(w) == worker[w].tries + 2 < MaxRetries

(* Mutant: one attempt too many. *)
RetriesLeftFour(w) == worker[w].tries < MaxRetries

RetriesLeft(w) == worker[w].tries + 1 < MaxRetries

(* Mutant: events that came in meanwhile are thrown away. *)
AfterRoundDrained(w) == [worker[w] EXCEPT
    !.at = IF worker[w].looping THEN "select" ELSE "watch", !.tries = 0, !.event = FALSE]

AfterRound(w) == [worker[w] EXCEPT
    !.at = IF worker[w].looping THEN "select" ELSE "watch", !.tries = 0]

SuccessSeen(w) ==
    /\ At(w, "check")
    /\ status[TaskOf(w)] = "IDLE"
    /\ worker' = [worker EXCEPT ![w] = AfterRound(w)]
    /\ UNCHANGED <<status, origin, replica>>

(* Mutant: an attempt that is not counted. *)
RetryUncounted(w) ==
    /\ At(w, "check")
    /\ status[TaskOf(w)] # "IDLE"
    /\ RetriesLeft(w)
    /\ worker' = [worker EXCEPT ![w].at = "backoff"]
    /\ UNCHANGED <<status, origin, replica>>

Retry(w) ==
    /\ At(w, "check")
    /\ status[TaskOf(w)] # "IDLE"
    /\ RetriesLeft(w)
    /\ worker' = [worker EXCEPT ![w].at = "backoff", ![w].tries = @ + 1]
    /\ UNCHANGED <<status, origin, replica>>

GiveUp(w) ==
    /\ At(w, "check")
    /\ status[TaskOf(w)] # "IDLE"
    /\ ~RetriesLeft(w)
    /\ UpdateStatus(TaskOf(w), "ERROR (Max Retries)")
    /\ worker' = [worker EXCEPT ![w] = AfterRound(w)]
    /\ UNCHANGED <<origin, replica>>

BackoffOver(w) ==
    /\ At(w, "backoff")
    /\ worker' = [worker EXCEPT ![w].at = "attempt"]
    /\ UNCHANGED <<status, origin, replica>>

NewRound(w) == [worker[w] EXCEPT
    !.at = "attempt", !.failures = 0, !.armed = FALSE]

-----------------------------------------------------------------------------
(* spawn_sync_worker after its initial round. *)

(* The signature of the remote tree, or nothing if the ssh fails.          *)
Signatures(t) == {origin[t]} \cup (IF MayFailRsync THEN {None} ELSE {})

SetUpPush(w) ==
    /\ At(w, "watch") /\ TaskOf(w) \notin PullTask
    /\ worker' = [worker EXCEPT ![w].at = "select", ![w].looping = TRUE,
                                ![w].watcher = "starting"]
    /\ UNCHANGED <<status, origin, replica>>

SetUpPull(w) ==
    /\ At(w, "watch") /\ TaskOf(w) \in PullTask
    /\ \E s \in Signatures(TaskOf(w)) :
          worker' = [worker EXCEPT ![w].at = "select", ![w].looping = TRUE,
                                   ![w].signature = s]
    /\ UNCHANGED <<status, origin, replica>>

(* The watcher thread: the first scan, then one per poll_interval.         *)
WatcherStarts(w) ==
    /\ worker[w] # None /\ worker[w].watcher = "starting"
    /\ worker' = [worker EXCEPT ![w].watcher = "on", ![w].watched = origin[TaskOf(w)]]
    /\ UNCHANGED <<status, origin, replica>>

WatcherFails(w) ==
    /\ MayFailWatch
    /\ worker[w] # None /\ worker[w].watcher = "starting"
    /\ worker' = [worker EXCEPT ![w].watcher = "off"]
    /\ UNCHANGED <<status, origin, replica>>

WatcherPolls(w) ==
    /\ worker[w] # None /\ worker[w].watcher = "on"
    /\ worker[w].watched # origin[TaskOf(w)]
    /\ worker' = [worker EXCEPT ![w].watched = origin[TaskOf(w)], ![w].event = TRUE]
    /\ UNCHANGED <<status, origin, replica>>

(* The branches of the select!. *)

(* Mutant: only the worker of a push listens. *)
ListensPushOnly(w) == At(w, "select") /\ TaskOf(w) \notin PullTask

Listens(w) == At(w, "select")

Stopped(w) ==
    /\ Listens(w)
    /\ worker[w].told
    /\ worker' = [worker EXCEPT ![w] = None]
    /\ UNCHANGED <<status, origin, replica>>

(* rx_file.recv() is also ready, with None, once the watcher has ended.    *)
FileEvent(w) == worker[w].event \/ worker[w].watcher = "off"

(* Mutant: the message is taken and the timer is not started. *)
DebounceNever(w) == worker' = [worker EXCEPT ![w].event = FALSE]

(* A poll sends a message for every path that changed: more may be left.   *)
Debounce(w) ==
    \E more \in {FALSE, worker[w].event} :
        worker' = [worker EXCEPT ![w].event = more, ![w].armed = TRUE]

FileChanged(w) ==
    /\ At(w, "select")
    /\ FileEvent(w)
    /\ Debounce(w)
    /\ IF worker[w].armed THEN UNCHANGED status ELSE UpdateStatus(TaskOf(w), "PENDING")
    /\ UNCHANGED <<origin, replica>>

TimerExpired(w) ==
    /\ At(w, "select")
    /\ worker[w].armed
    /\ worker' = [worker EXCEPT ![w] = NewRound(w)]
    /\ UNCHANGED <<status, origin, replica>>

(* A poll that fails, or finds the same signature, changes nothing.        *)
SignaturePolled(w) ==
    /\ At(w, "select") /\ TaskOf(w) \in PullTask
    /\ worker[w].signature # origin[TaskOf(w)]
    /\ worker' = [worker EXCEPT ![w] = [NewRound(w) EXCEPT !.signature = origin[TaskOf(w)]]]
    /\ UpdateStatus(TaskOf(w), "PENDING")
    /\ UNCHANGED <<origin, replica>>

-----------------------------------------------------------------------------
(* The world around the workers. *)

(* The worker of t has its first scan, or polls signatures.                *)
IsWatched(t) == \A w \in Live : TaskOf(w) = t =>
    worker[w].watcher = "on" \/ (t \in PullTask /\ worker[w].looping)

Edit(t) ==
    /\ origin[t] < MaxVersion
    /\ EarlyEdits \/ IsWatched(t)
    /\ origin' = [origin EXCEPT ![t] = @ + 1]
    /\ UNCHANGED <<status, worker, replica>>

(* A message is sent on the kill channel, or its last sender is dropped.   *)
Tell(w) == worker' = [worker EXCEPT ![w] = IF @ = None THEN @ ELSE [@ EXCEPT !.told = TRUE]]

Told(w) ==
    /\ worker[w] # None /\ ~worker[w].told
    /\ Tell(w)
    /\ UNCHANGED <<status, origin, replica>>

RsyncEnds(w) == RsyncSucceeds(w) \/ RsyncFails(w)

Watcher(w) == WatcherStarts(w) \/ WatcherFails(w) \/ WatcherPolls(w)

Round(w) == RsyncStart(w) \/ RsyncReaped(w) \/ SuccessSeen(w) \/ Retry(w) \/ GiveUp(w)
              \/ BackoffOver(w)

SetUp(w) == SetUpPush(w) \/ SetUpPull(w)

WorkerStep(w) ==
    \/ Round(w) \/ SetUp(w) \/ Watcher(w)
    \/ Stopped(w) \/ FileChanged(w) \/ TimerExpired(w) \/ SignaturePolled(w)
    \/ RsyncReads(w) \/ RsyncEnds(w) \/ ReaderReports(w) \/ ReaderEnds(w)

(* The daemon alone: every worker has a task of its own.                   *)
Init ==
    /\ \E f \in [Worker -> Task] :
          /\ \A u, w \in Worker : f[u] = f[w] => u = w
          /\ worker = [w \in Worker |-> NewWorker(f[w])]
    /\ status = [t \in Task |-> "STARTING"]
    /\ origin = [t \in Task |-> 1]
    /\ replica = [t \in Task |-> 0]

Next == \/ \E w \in Worker : WorkerStep(w) \/ Told(w)
        \/ \E t \in Task : Edit(t)

Spec == Init /\ [][Next]_vars

(* A round and the set-up after it go on by a step of the worker, of its   *)
(* child or of the reader of its output.                                   *)
Proceed(w) == Round(w) \/ SetUp(w) \/ RsyncReads(w) \/ RsyncEnds(w) \/ ReaderEnds(w)

(* Tokio polls a task that can go on; a child that runs and ssh commands   *)
(* come to an end; select! polls its branches in a random order, so that   *)
(* no branch that is ready again and again is passed over for ever.        *)
Fairness(w) ==
    /\ WF_vars(Proceed(w)) /\ WF_vars(Watcher(w))
    /\ SF_vars(Stopped(w)) /\ SF_vars(FileChanged(w))
    /\ SF_vars(TimerExpired(w)) /\ SF_vars(SignaturePolled(w))

FairSpec == Spec /\ \A w \in Worker : Fairness(w)

-----------------------------------------------------------------------------
TypeOK ==
    /\ status \in [Task -> Status \cup {None}]
    /\ worker \in [Worker -> WorkerState \cup {None}]
    /\ origin \in [Task -> Version]
    /\ replica \in [Task -> Version \cup {Mixed}]

(* "ERROR (Max Retries)" is set only after three attempts that failed.     *)
ErrorMeansThreeFailures ==
    [][\A w \in Worker : GiveUp(w) => worker[w].failures = MaxRetries]_vars

(* A round that ends as a success ends with a success of its own rsync.    *)
SuccessIsItsOwn ==
    [][\A w \in Worker : SuccessSeen(w) => worker[w].rsync = "ok"]_vars

(* The status IDLE of a worker that waits and has heard of every change    *)
(* means that the replica is a copy of the origin.                         *)
UpToDate(w) ==
    /\ At(w, "select") /\ ~worker[w].event /\ ~worker[w].armed
    /\ origin[TaskOf(w)] \in {worker[w].watched, worker[w].signature}

IdleIsInSync ==
    \A w \in Worker : UpToDate(w) /\ status[TaskOf(w)] = "IDLE" =>
        replica[TaskOf(w)] = origin[TaskOf(w)]

InRound(w) == worker[w] # None /\ worker[w].at # "select"

(* The steps that are left of a round and the set-up after it, at most.    *)
AttemptLeft(r) ==
    CASE r.at = "backoff" -> 7
      [] r.at = "attempt" -> 6
      [] r.at = "check"   -> 1
      [] OTHER -> IF r.rsync # "running" THEN 2 ELSE IF r.read # None THEN 3 ELSE 4

StepsLeft(r) ==
    LET reader == IF r.reading THEN 1 ELSE 0
    IN CASE r.at = "select" -> 0
         [] r.at = "watch"  -> 1 + reader
         [] OTHER -> 1 + reader + AttemptLeft(r) + 7 * (MaxRetries - 1 - r.tries)

(* No step of anyone takes a round back, and each of its own, its child's  *)
(* and its reader's takes it on: what fails is not tried for ever.         *)
RoundsMoveOn ==
    [][\A w \in Worker : InRound(w) =>
          /\ StepsLeft(worker'[w]) <= StepsLeft(worker[w])
          /\ Proceed(w) => StepsLeft(worker'[w]) < StepsLeft(worker[w])]_vars

(* A worker never waits for what cannot come: a round can go on, whatever  *)
(* has become of its child, its reader and its watcher, and in the select! *)
(* every branch that is ready can be taken.                                *)
NeverStuck ==
    \A w \in Worker :
        /\ InRound(w) => ENABLED <<Proceed(w)>>_vars
        /\ At(w, "select") =>
              /\ worker[w].told => ENABLED <<Stopped(w)>>_vars
              /\ worker[w].event => ENABLED <<FileChanged(w)>>_vars
              /\ worker[w].armed => ENABLED <<TimerExpired(w)>>_vars
              /\ TaskOf(w) \in PullTask /\ worker[w].signature # origin[TaskOf(w)]
                    => ENABLED <<SignaturePolled(w)>>_vars
              /\ worker[w].watcher = "on" /\ worker[w].watched # origin[TaskOf(w)]
                    => ENABLED <<Watcher(w)>>_vars

(* Every change arrives, or the status says that it did not, or the worker *)
(* is told to stop.                                                        *)
ChangesAreHandled ==
    \A w \in Worker, t \in Task, v \in Version :
        worker[w] # None /\ TaskOf(w) = t /\ origin[t] = v
          ~> \/ replica[t] >= v
             \/ status[t] = "ERROR (Max Retries)"
             \/ worker[w] = None \/ worker[w].told

(* A worker that is told to stop ends.                                     *)
WorkerEnds == \A w \in Worker : worker[w] # None /\ worker[w].told ~> worker[w] = None

-----------------------------------------------------------------------------
(* The inductive invariant of the proofs: of each worker's record r, with  *)
(* the status s, the origin o and the replica c of its task.               *)

(* The attempts of the round that are counted, and those that failed.      *)
Counted(r) ==
    /\ r.at \in {"watch", "select"} => r.tries = 0
    /\ r.at \in {"attempt", "rsync", "backoff"} => r.failures <= r.tries
    /\ r.at = "check" => r.failures <= r.tries + 1

(* IDLE, after a round or to end it, is what its own rsync left.           *)
IdleIsOwn(r, s) ==
    /\ r.at # "rsync" => r.rsync # "running"
    /\ r.at \in {"check", "watch", "select"} => r.rsync # "none" /\ (s = "IDLE" => r.rsync = "ok")

(* The task is registered, so that its status can be read back.            *)
IsShown(s) == s # None

(* So is every other status a worker reads back, as long as the task is    *)
(* registered; no round loses count of a failure, and one that failed is   *)
(* shown until the next is due.                                            *)
StatusIsOwn(r, s) ==
    /\ r.at # "rsync" => ~r.reading
    /\ IsShown(s) =>
          /\ r.at = "check" => (s = "IDLE" <=> r.rsync = "ok")
          /\ r.at \in {"attempt", "rsync", "backoff"} => r.failures = r.tries
          /\ r.at = "check" =>
                r.failures = IF r.rsync = "failed" THEN r.tries + 1 ELSE r.tries
          /\ r.at \in {"watch", "select"} /\ r.rsync = "failed" /\ ~r.armed =>
                s = "ERROR (Max Retries)"

(* What a successful rsync has read is what the replica holds.             *)
Copied(r, c) == r.rsync = "ok" => r.read # None /\ c = r.read

(* The set-up of the watcher, and what it has seen.                        *)
Watching(r, o) ==
    /\ r.at = "watch" => ~r.looping
    /\ r.at = "select" => r.looping
    /\ ~r.looping => r.watcher = "none" /\ r.signature = None
    /\ r.watcher # "none" => r.task \notin PullTask
    /\ r.watcher # "on" => r.watched = None
    /\ \A v \in {r.read, r.watched, r.signature} : v # None => v <= o

(* What was read before the watcher was there is still so; what was heard  *)
(* of and is not pending has been read.                                    *)
Heard(r, o) ==
    r.read # None =>
        /\ r.watcher # "on" /\ ~(r.task \in PullTask /\ r.looping) => r.read = o
        /\ r.at \notin {"attempt", "backoff"} =>
              /\ r.watched # None /\ ~r.event /\ ~r.armed => r.watched <= r.read
              /\ r.signature # None => r.signature <= r.read

Sound(r, s, o, c) ==
    /\ Counted(r) /\ IdleIsOwn(r, s) /\ Copied(r, c) /\ Watching(r, o)
    /\ ~LateReader => StatusIsOwn(r, s)
    /\ ~EarlyEdits => Heard(r, o)

(* Of workers that have a task each, registered or not.                    *)
WorkersInv ==
    /\ TypeOK
    /\ \A u, w \in Live : TaskOf(u) = TaskOf(w) => u = w
    /\ \A w \in Live : LET t == TaskOf(w)
                      IN Sound(worker[w], status[t], origin[t], replica[t])

IndInv == WorkersInv /\ \A t \in Task : status[t] # None

=============================================================================
