------------------------------ MODULE HpcSync ------------------------------
(***************************************************************************)
(* One job of the one-shot `hpc-sync` CLI (src/src/hpc_sync).              *)
(*                                                                         *)
(* Every element of Proc is a slot in which invocations of plan, run and   *)
(* verify are started one after the other; several slots are several       *)
(* shells or schedulers that use the same job.  An invocation is a process *)
(* that moves from one call that touches shared state to the next: the job *)
(* lock, the audit files under state_dir, the rsync children it spawns.    *)
(* The children run by themselves, change the receiver, and outlive an     *)
(* invocation that is killed.                                              *)
(***************************************************************************)
EXTENDS Integers, FiniteSets

CONSTANTS
    Proc,             \* slots for concurrent invocations
    RunId,            \* run ids, ordered as their directory names sort
    Config,           \* the job sections the configuration file may hold
    VerifyingConfig,  \* those of them with verify_after_run = true
    File,             \* the files inside the job's scope
    Version,          \* what a file may contain
    Absent,           \* the content of a file that does not exist
    None              \* the null record

CONSTANTS
    RequireMarker,    \* source_complete_marker is configured
    QuietSource,      \* the producer waits until no invocation is running
    MayDelete,        \* the producer deletes files
    MayCrash,         \* an invocation may be killed at any point, or lose its child
    MayFailIO         \* a write under state_dir, or a spawn, may fail

ASSUME ConstantsAssumption ==
    /\ RunId \subseteq Nat
    /\ VerifyingConfig \subseteq Config
    /\ Absent \notin Version
    /\ {RequireMarker, QuietSource, MayDelete, MayCrash, MayFailIO} \subseteq BOOLEAN

VARIABLES
    config,     \* the job section of the configuration file
    source,     \* the source tree
    ready       \* the producer's completion marker is in place

VARIABLES
    lock,       \* the holder of the flock on locks/<job>.lock
    dirs,       \* run ids whose directory exists
    request,    \* request.json: the config it was planned under
    plan,       \* plan.json
    completed,  \* run ids with a COMPLETED file
    result,     \* result.json: its status
    latest      \* latest/<job>.json

VARIABLES
    snapshot,   \* the tree under snapshots/<run-id>/ on the receiver
    marker      \* run ids whose .hpc-sync-complete.json is on the receiver

VARIABLES
    pc,         \* where the invocation in each slot is
    call,       \* its arguments and locals
    ret,        \* how it ended
    child,      \* the rsync process it started
    compared    \* history: run ids found clean by a run since their last transfer

env      == <<config, source, ready>>
audit    == <<dirs, request, plan, completed, result, latest>>
receiver == <<snapshot, marker>>
vars     == <<config, source, ready, lock, dirs, request, plan, completed, result,
              latest, snapshot, marker, pc, call, ret, child, compared>>

-----------------------------------------------------------------------------
Content == Version \cup {Absent}
Tree    == [File -> Content]
Empty   == [f \in File |-> Absent]

Status == {"success", "failed", "verification_failed"}

(* stable_hash is collision-free over what it is given, and the run id     *)
(* alone makes the inputs of two plans differ.                             *)
Hash == Config \X RunId \X (RunId \cup {None})
PlanHash(r) == <<plan[r].config, r, plan[r].prev>>

PC == {"idle", "base", "lock", "spawn", "wait", "request", "plan",
       "completed", "result", "latest", "crashed"}
Task == {"dry_run", "transfer", "compare", "marker"}
Exit == {"success", "rsync_failed", "verify_failed", "job_locked", "error", "killed"}

Call == [op: {"plan", "run", "verify"}, run: RunId, cfg: Config,
         base: RunId \cup {None}, approval: Hash \cup {None},
         task: Task, status: Status \cup {None}]

Child == [task: Task, run: RunId, todo: SUBSET File, got: Tree,
          diff: BOOLEAN, exit: {"running", "ok", "failed"}]

PlanRecord    == [config: Config, prev: RunId \cup {None}]
LatestRecords == [run: RunId, status: Status]

(* None is no record of any kind. *)
ASSUME NoneAssumption ==
    None \notin Proc \cup RunId \cup Config \cup Hash \cup Status \cup Exit
              \cup Call \cup Child \cup PlanRecord \cup LatestRecords

Alive(p)   == pc[p] \notin {"idle", "crashed"}
Running(p) == child[p] # None /\ child[p].exit = "running"

(* Mutant: any result will do. *)
SuccessfulAnyResult == {r \in RunId : result[r] # None}

Successful == {r \in RunId : result[r] = "success"}
IsLatestSuccessful(b) ==
    \/ b = None /\ Successful = {}
    \/ b \in Successful /\ \A r \in Successful : r <= b

Init ==
    /\ config \in Config
    /\ source \in Tree
    /\ ready = TRUE
    /\ lock = None
    /\ dirs = {} /\ completed = {} /\ latest = None
    /\ request = [r \in RunId |-> None]
    /\ plan = [r \in RunId |-> None]
    /\ result = [r \in RunId |-> None]
    /\ snapshot = [r \in RunId |-> Empty]
    /\ marker = {} /\ compared = {}
    /\ pc = [p \in Proc |-> "idle"]
    /\ call = [p \in Proc |-> None]
    /\ ret = [p \in Proc |-> None]
    /\ child = [p \in Proc |-> None]

-----------------------------------------------------------------------------
(* Control of an invocation. *)

Goto(p, l) == pc' = [pc EXCEPT ![p] = l] /\ UNCHANGED ret

(* The function returns: its JobLock, if it has one, is dropped, and the   *)
(* process exits.  The slot is free for the next invocation.               *)
Return(p, x) ==
    /\ pc' = [pc EXCEPT ![p] = "idle"]
    /\ ret' = [ret EXCEPT ![p] = x]
    /\ call' = [call EXCEPT ![p] = None]
    /\ lock' = IF lock = p THEN None ELSE lock

Begin(p, op, r, b, a, task, l) ==
    /\ pc' = [pc EXCEPT ![p] = l]
    /\ ret' = [ret EXCEPT ![p] = None]
    /\ call' = [call EXCEPT ![p] =
          [op |-> op, run |-> r, cfg |-> config, base |-> b, approval |-> a,
           task |-> task, status |-> None]]

-----------------------------------------------------------------------------
(* plan_job, up to the lock. *)

SourceComplete == RequireMarker => ready

(* Mutant: the id has the resolution of the clock, and is used again. *)
FreshIdsOfClock == RunId

(* new_run_id: the time and a hash of the nanoseconds and the process id.  *)
(* Ids made within a second sort in any order.                             *)
FreshIds == RunId \ dirs

PlanStart(p) ==
    /\ pc[p] = "idle"
    /\ SourceComplete
    /\ \E r \in FreshIds :
          /\ dirs' = dirs \cup {r}
          /\ Begin(p, "plan", r, None, None, "dry_run", "base")
    /\ UNCHANGED <<env, lock, request, plan, completed, result, latest, receiver,
                   child, compared>>

PlanRefused(p) ==
    /\ pc[p] = "idle"
    /\ ~SourceComplete
    /\ Return(p, "error")
    /\ UNCHANGED <<env, audit, receiver, child, compared>>

ChooseBase(p) ==
    /\ pc[p] = "base"
    /\ \E b \in RunId \cup {None} :
          /\ IsLatestSuccessful(b)
          /\ call' = [call EXCEPT ![p].base = b]
    /\ Goto(p, "lock")
    /\ UNCHANGED <<env, lock, audit, receiver, child, compared>>

-----------------------------------------------------------------------------
(* run_job, up to the lock.  result.json is read before plan.json, and a   *)
(* plan never changes, so that reading them in one step loses no outcome.  *)

Approvals == {PlanHash(q) : q \in {r \in RunId : plan[r] # None}} \cup {None}

(* Mutant: the configuration is not compared. *)
ApprovedUnderAnyConfig(r, a) ==
    plan[r] # None /\ request[r] # None /\ a = PlanHash(r)

Approved(r, a) ==
    /\ plan[r] # None /\ request[r] # None
    /\ a = PlanHash(r)
    /\ config = plan[r].config /\ config = request[r]

(* Mutant: the early return is missing. *)
AlreadyDoneNever(r) == FALSE

AlreadyDone(r) == result[r] = "success"

RunAlreadyDone(p, r) ==
    /\ pc[p] = "idle"
    /\ AlreadyDone(r)
    /\ Return(p, "success")
    /\ UNCHANGED <<env, audit, receiver, child, compared>>

RunRefused(p, r, a) ==
    /\ pc[p] = "idle"
    /\ ~AlreadyDone(r)
    /\ ~Approved(r, a)
    /\ Return(p, "error")
    /\ UNCHANGED <<env, audit, receiver, child, compared>>

RunStart(p, r, a) ==
    /\ pc[p] = "idle"
    /\ ~AlreadyDone(r)
    /\ Approved(r, a)
    /\ Begin(p, "run", r, plan[r].prev, a, "transfer", "lock")
    /\ UNCHANGED <<env, lock, audit, receiver, child, compared>>

-----------------------------------------------------------------------------
(* verify_job, up to the lock. *)

VerifyStart(p, r) ==
    /\ pc[p] = "idle"
    /\ plan[r] # None /\ request[r] = config
    /\ Begin(p, "verify", r, None, None, "compare", "lock")
    /\ UNCHANGED <<env, lock, audit, receiver, child, compared>>

VerifyRefused(p, r) ==
    /\ pc[p] = "idle"
    /\ plan[r] = None \/ request[r] # config
    /\ Return(p, "error")
    /\ UNCHANGED <<env, audit, receiver, child, compared>>

-----------------------------------------------------------------------------
(* JobLock::acquire and execute: common to the three operations. *)

(* Mutant: opening the file is taken for holding it. *)
TryLockAlways(p) == lock' = p

TryLock(p) == lock = None /\ lock' = p

AcquireLock(p) ==
    /\ pc[p] = "lock"
    /\ TryLock(p)
    /\ Goto(p, "spawn")
    /\ UNCHANGED <<env, audit, receiver, call, child, compared>>

(* Mutant: a lock that is held is waited for. *)
LockBusyWaits(p) == pc[p] = "lock" /\ lock # None /\ UNCHANGED vars

LockBusy(p) ==
    /\ pc[p] = "lock"
    /\ lock # None
    /\ Return(p, "job_locked")
    /\ UNCHANGED <<env, audit, receiver, child, compared>>

Spawn(p) ==
    /\ pc[p] = "spawn"
    /\ child' = [child EXCEPT ![p] =
          [task |-> call[p].task, run |-> call[p].run,
           todo |-> IF call[p].task \in {"transfer", "compare"} THEN File ELSE {},
           got |-> Empty, diff |-> FALSE, exit |-> "running"]]
    /\ compared' = IF call[p].task = "transfer" THEN compared \ {call[p].run} ELSE compared
    /\ Goto(p, "wait")
    /\ UNCHANGED <<env, lock, audit, receiver, call>>

-----------------------------------------------------------------------------
(* The rsync children.  rsync reads each file once, in any order, while    *)
(* the source may change.                                                  *)

RsyncRead(p, f) ==
    /\ Running(p)
    /\ f \in child[p].todo
    /\ LET c == child[p]
           differs == source[f] \notin {Absent, snapshot[c.run][f]}
       IN child' = [child EXCEPT ![p] =
             [c EXCEPT !.todo = @ \ {f},
                       !.got[f] = IF c.task = "transfer" THEN source[f] ELSE @,
                       !.diff = @ \/ (c.task = "compare" /\ differs)]]
    /\ UNCHANGED <<env, lock, audit, receiver, pc, call, ret, compared>>

(* The files of S are renamed into place; no file is ever removed.         *)
Install(c, S) ==
    snapshot' = [snapshot EXCEPT ![c.run] =
        [f \in File |-> IF f \in S /\ c.got[f] # Absent THEN c.got[f] ELSE @[f]]]

RsyncSucceeds(p) ==
    /\ Running(p)
    /\ child[p].todo = {}
    /\ Install(child[p], File)
    /\ marker' = IF child[p].task = "marker" THEN marker \cup {child[p].run} ELSE marker
    /\ child' = [child EXCEPT ![p].exit = "ok"]
    /\ compared' = IF child[p].task = "compare" /\ Alive(p) /\ call[p].op = "run" /\ ~child[p].diff
                     THEN compared \cup {child[p].run} ELSE compared
    /\ UNCHANGED <<env, lock, audit, pc, call, ret>>

(* With --delay-updates nothing is in place until the end, but a child may *)
(* stop while it renames, or after the marker arrived.                     *)
RsyncStops(p) ==
    /\ Running(p)
    /\ \E S \in SUBSET (File \ child[p].todo) : Install(child[p], S)
    /\ marker' \in {marker} \cup
          (IF child[p].task = "marker" THEN {marker \cup {child[p].run}} ELSE {})
    /\ child' = [child EXCEPT ![p].exit = "failed"]
    /\ UNCHANGED <<env, lock, audit, pc, call, ret, compared>>

RsyncFails(p) == RsyncStops(p)

(* Mutant: only a run has a deadline. *)
DeadlineOfRun(p) == pc[p] = "wait" /\ call[p].op = "run" /\ RsyncStops(p)

(* max_runtime_seconds is over: the invocation kills its child.            *)
Deadline(p) == pc[p] = "wait" /\ RsyncStops(p)

-----------------------------------------------------------------------------
(* What each operation does with the exit of its child. *)

Finished(p, task) ==
    /\ pc[p] = "wait"
    /\ call[p].task = task
    /\ child[p].exit # "running"

(* Mutant: the exit code is ignored. *)
OkAnyExit(p) == child[p].exit # "running"

Ok(p) == child[p].exit = "ok"

(* Mutant: the itemized changes are ignored. *)
CleanAnyDiff(p) == Ok(p)

Clean(p) == Ok(p) /\ ~child[p].diff

Reap(p) == child' = [child EXCEPT ![p] = None]

(* The next command of the run. *)
Execute(p, task) == call' = [call EXCEPT ![p].task = task] /\ Goto(p, "spawn")

(* Mutant: the status is not recorded. *)
ConcludeUnrecorded(p, s, l) == UNCHANGED call /\ Goto(p, l)

(* The outcome that persist_result will write. *)
Conclude(p, s, l) == call' = [call EXCEPT ![p].status = s] /\ Goto(p, l)

PlanReap(p) ==
    /\ Finished(p, "dry_run")
    /\ Reap(p)
    /\ IF Ok(p) THEN Goto(p, "request") /\ UNCHANGED <<lock, call>>
                ELSE Return(p, "rsync_failed")
    /\ UNCHANGED <<env, audit, receiver, compared>>

(* Mutant: a transfer that failed is made again at once. *)
TransferReapAgain(p) ==
    /\ Finished(p, "transfer")
    /\ Reap(p)
    /\ IF ~Ok(p) THEN Execute(p, "transfer")
       ELSE IF call[p].cfg \in VerifyingConfig THEN Execute(p, "compare")
       ELSE Execute(p, "marker")
    /\ UNCHANGED <<env, lock, audit, receiver, compared>>

TransferReap(p) ==
    /\ Finished(p, "transfer")
    /\ Reap(p)
    /\ IF ~Ok(p) THEN Conclude(p, "failed", "result")
       ELSE IF call[p].cfg \in VerifyingConfig THEN Execute(p, "compare")
       ELSE Execute(p, "marker")
    /\ UNCHANGED <<env, lock, audit, receiver, compared>>

CompareReap(p) ==
    /\ Finished(p, "compare") /\ call[p].op = "run"
    /\ Reap(p)
    /\ IF Clean(p)
         THEN Execute(p, "marker")
         ELSE Conclude(p, "verification_failed", "result")
    /\ UNCHANGED <<env, lock, audit, receiver, compared>>

MarkerReap(p) ==
    /\ Finished(p, "marker")
    /\ Reap(p)
    /\ IF Ok(p) THEN Conclude(p, "success", "completed")
                ELSE Conclude(p, "failed", "result")
    /\ UNCHANGED <<env, lock, audit, receiver, compared>>

(* verify-<suffix>.json is written here too; nothing reads it back.        *)
VerifyReap(p) ==
    /\ Finished(p, "compare") /\ call[p].op = "verify"
    /\ Reap(p)
    /\ Return(p, IF Clean(p) THEN "success" ELSE "verify_failed")
    /\ UNCHANGED <<env, audit, receiver, compared>>

-----------------------------------------------------------------------------
(* The durable writes; each is a write to a temporary file and a rename.   *)

WriteRequest(p) ==
    /\ pc[p] = "request"
    /\ request' = [request EXCEPT ![call[p].run] = call[p].cfg]
    /\ Goto(p, "plan")
    /\ UNCHANGED <<env, lock, dirs, plan, completed, result, latest, receiver,
                   call, child, compared>>

WritePlan(p) ==
    /\ pc[p] = "plan"
    /\ plan' = [plan EXCEPT ![call[p].run] =
                   [config |-> call[p].cfg, prev |-> call[p].base]]
    /\ Return(p, "success")
    /\ UNCHANGED <<env, dirs, request, completed, result, latest, receiver,
                   child, compared>>

WriteCompleted(p) ==
    /\ pc[p] = "completed"
    /\ completed' = completed \cup {call[p].run}
    /\ Goto(p, "result")
    /\ UNCHANGED <<env, lock, dirs, request, plan, result, latest, receiver,
                   call, child, compared>>

WriteResult(p) ==
    /\ pc[p] = "result"
    /\ result' = [result EXCEPT ![call[p].run] = call[p].status]
    /\ Goto(p, "latest")
    /\ UNCHANGED <<env, lock, dirs, request, plan, completed, latest, receiver,
                   call, child, compared>>

(* Mutant: only successes reach latest/<job>.json. *)
LatestRecordOfSuccess(p) ==
    IF call[p].status = "success" THEN [run |-> call[p].run, status |-> "success"] ELSE latest

LatestRecord(p) == [run |-> call[p].run, status |-> call[p].status]

WriteLatest(p) ==
    /\ pc[p] = "latest"
    /\ latest' = LatestRecord(p)
    /\ Return(p, IF call[p].status = "success" THEN "success" ELSE "rsync_failed")
    /\ UNCHANGED <<env, dirs, request, plan, completed, result, receiver,
                   child, compared>>

(* What the two queries return; they take no lock. *)
status_job  == latest
history_job == {[run |-> r, status |-> result[r]] : r \in {x \in RunId : result[x] # None}}

(* A `?` with no child running: the lock file, a command's output file, a  *)
(* spawn or an atomic write fails, and the invocation reports the error.   *)
Abort(p) ==
    /\ MayFailIO
    /\ Alive(p) /\ ~Running(p)
    /\ Return(p, "error")
    /\ Reap(p)
    /\ UNCHANGED <<env, audit, receiver, compared>>

-----------------------------------------------------------------------------
(* The invocation is killed: the kernel drops its lock, its child goes on. *)
(* The same comes of a `?` on try_wait, kill or wait (process.rs:61-69),   *)
(* which returns and drops the lock with the child alive.  The slot stays  *)
(* taken until the orphan has ended too.                                   *)
Crash(p) ==
    /\ MayCrash
    /\ Alive(p)
    /\ \/ ~Running(p) /\ Return(p, "killed") /\ Reap(p)
       \/ /\ Running(p)
          /\ lock' = IF lock = p THEN None ELSE lock
          /\ pc' = [pc EXCEPT ![p] = "crashed"]
          /\ call' = [call EXCEPT ![p] = None]
          /\ UNCHANGED <<ret, child>>
    /\ UNCHANGED <<env, audit, receiver, compared>>

OrphanEnds(p) ==
    /\ pc[p] = "crashed"
    /\ child[p].exit # "running"
    /\ Reap(p)
    /\ Return(p, "killed")
    /\ UNCHANGED <<env, audit, receiver, compared>>

-----------------------------------------------------------------------------
(* The producer of the source tree and the owner of the configuration.     *)

Quiet == \A p \in Proc : pc[p] = "idle"

SourceChanges(f) ==
    /\ RequireMarker => ~ready
    /\ QuietSource => Quiet
    /\ \E v \in Version \cup (IF MayDelete THEN {Absent} ELSE {}) :
          source' = [source EXCEPT ![f] = v]
    /\ UNCHANGED <<config, ready, lock, audit, receiver, pc, call, ret, child, compared>>

ProducerMarks ==
    /\ RequireMarker
    /\ QuietSource => Quiet
    /\ ready' = ~ready
    /\ UNCHANGED <<config, source, lock, audit, receiver, pc, call, ret, child, compared>>

ConfigChanges(c) ==
    /\ config' = c
    /\ UNCHANGED <<source, ready, lock, audit, receiver, pc, call, ret, child, compared>>

Invoke(p) ==
    \/ PlanStart(p) \/ PlanRefused(p)
    \/ \E r \in RunId :
          \/ VerifyStart(p, r) \/ VerifyRefused(p, r) \/ RunAlreadyDone(p, r)
          \/ \E a \in Approvals : RunStart(p, r, a) \/ RunRefused(p, r, a)

(* What the invocation does by itself once it has started. *)
Proceed(p) ==
    \/ ChooseBase(p) \/ AcquireLock(p) \/ LockBusy(p) \/ Spawn(p) \/ Deadline(p)
    \/ PlanReap(p) \/ TransferReap(p) \/ CompareReap(p) \/ MarkerReap(p) \/ VerifyReap(p)
    \/ WriteRequest(p) \/ WritePlan(p) \/ WriteCompleted(p)
    \/ WriteResult(p) \/ WriteLatest(p)

Rsync(p) == RsyncSucceeds(p) \/ RsyncFails(p) \/ \E f \in File : RsyncRead(p, f)

Producer == \/ ProducerMarks
            \/ \E f \in File : SourceChanges(f)
            \/ \E c \in Config : ConfigChanges(c)

Next ==
    \/ Producer
    \/ \E p \in Proc :
          Invoke(p) \/ Proceed(p) \/ Abort(p) \/ Crash(p) \/ Rsync(p)
            \/ OrphanEnds(p)

Spec == Init /\ [][Next]_vars

(* The scheduler runs an invocation that can take a step, which includes   *)
(* the poll that kills a child at its deadline.  rsync itself may hang.    *)
Fairness(p) == WF_vars(Proceed(p))

FairSpec == Spec /\ \A p \in Proc : Fairness(p)

-----------------------------------------------------------------------------
TypeOK ==
    /\ config \in Config /\ source \in Tree /\ ready \in BOOLEAN
    /\ lock \in Proc \cup {None}
    /\ dirs \subseteq RunId /\ completed \subseteq RunId
    /\ marker \subseteq RunId /\ compared \subseteq RunId
    /\ request \in [RunId -> Config \cup {None}]
    /\ plan \in [RunId -> PlanRecord \cup {None}]
    /\ result \in [RunId -> Status \cup {None}]
    /\ latest \in LatestRecords \cup {None}
    /\ snapshot \in [RunId -> Tree]
    /\ pc \in [Proc -> PC]
    /\ call \in [Proc -> Call \cup {None}]
    /\ ret \in [Proc -> Exit \cup {None}]
    /\ child \in [Proc -> Child \cup {None}]

(* The section of an invocation that the lock protects. *)
Locked == {"spawn", "wait", "request", "plan", "completed", "result", "latest"}

(* An invocation is between acquiring the job's lock and returning exactly *)
(* while it holds it: no two work on the job at once (state.rs, README).   *)
OneOperationAtATime == \A p \in Proc : (pc[p] \in Locked) <=> (lock = p)

(* A result that says success is backed by the COMPLETED file, by the      *)
(* marker on the receiver, and by a plan that can still be audited.        *)
SuccessIsBacked ==
    \A r \in RunId : result[r] = "success" =>
        r \in completed /\ r \in marker /\ plan[r] # None

(* What a run does to the receiver was approved as it is done: the hash    *)
(* the caller passed is that of the stored plan, and the configuration and *)
(* the link-dest base in use are the planned ones.                         *)
RunIsApproved ==
    \A p \in Proc : Alive(p) /\ call[p].op = "run" =>
        LET r == call[p].run
        IN /\ plan[r] # None
           /\ call[p].approval = PlanHash(r)
           /\ call[p].cfg = plan[r].config
           /\ call[p].base = plan[r].prev

(* The base a plan hard-links against is another run that was completed.   *)
BaseIsRecoveryPoint ==
    \A r \in RunId : plan[r] # None /\ plan[r].prev # None =>
        plan[r].prev \in (completed \cap marker) \ {r}

(* When the job is unlocked, `status` returns the outcome that the history *)
(* shows for that run, and it returns one as soon as there is any.         *)
StatusIsAuthoritative ==
    lock = None =>
        IF status_job = None THEN history_job = {} ELSE status_job \in history_job

(* No two rsync processes of the job run at the same time.                 *)
NoOverlap == \A p, q \in Proc : Running(p) /\ Running(q) => p = q

(* With verify_after_run, the marker goes up only after a comparison that  *)
(* was made after the latest transfer into that snapshot found no change.  *)
MarkedAfterComparison ==
    [][\A r \in marker' \ marker : plan[r].config \in VerifyingConfig => r \in compared]_vars

(* A recorded success is final: its result and its snapshot never change.  *)
RecoveryPointIsFinal ==
    [][\A r \in Successful : result'[r] = "success" /\ snapshot'[r] = snapshot[r]]_vars

Covers(r) == \A f \in File : source[f] \in {Absent, snapshot[r][f]}

(* While nobody edits the source during a run, a recovery point that is    *)
(* marked COMPLETED holds every file of the source.                        *)
CompletionCoversSource == [][\A r \in completed' \ completed : Covers(r)]_vars

(* A verification that reports `verified` has found every file of the      *)
(* source in the snapshot as it is.                                        *)
VerifiedCoversSource ==
    [][\A p \in Proc : VerifyReap(p) /\ ret'[p] = "success" =>
          Covers(call[p].run)]_vars

(* The steps of its own that an invocation has left at most: its commands  *)
(* are started, waited for and reaped in one order, none of them twice.    *)
StepsAfter == [transfer |-> 9, compare |-> 6, marker |-> 3, dry_run |-> 3]

StepsLeft(p) ==
    CASE pc[p] = "base"                -> 14
      [] pc[p] = "lock"                -> 13
      [] pc[p] = "spawn"               -> StepsAfter[call[p].task] + 3
      [] pc[p] = "wait"                -> StepsAfter[call[p].task] + IF Running(p) THEN 2 ELSE 1
      [] pc[p] = "completed"           -> 3
      [] pc[p] \in {"request", "result"} -> 2
      [] pc[p] \in {"plan", "latest"}    -> 1
      [] OTHER                         -> 0

(* Whatever children, other invocations and the producer do, no step takes *)
(* an invocation back, and each of its own steps takes it on: it makes     *)
(* fourteen at most, and has no loop that could run for ever.              *)
InvocationsMoveOn ==
    [][\A p \in Proc : Alive(p) /\ Alive(p)' =>
          /\ StepsLeft(p)' <= StepsLeft(p)
          /\ Proceed(p) => StepsLeft(p)' < StepsLeft(p)]_vars

(* An invocation that has begun always has a step to make: for the lock,   *)
(* which it does not wait for, for a child in any state, and for each of   *)
(* its exits.                                                              *)
NeverStuck == \A p \in Proc : Alive(p) => ENABLED <<Proceed(p)>>_vars

(* Every invocation ends, whatever its rsync children do.                  *)
InvocationEnds == \A p \in Proc : Alive(p) ~> ~Alive(p)

-----------------------------------------------------------------------------
(* The recovery points the audit files and the receiver's markers show.    *)

StageOf(r) == IF plan[r] = None       THEN "unused"
              ELSE IF r \in completed THEN "completed"
              ELSE IF r \in marker    THEN "marked"
              ELSE "planned"

Catalogue == INSTANCE RecoveryPoint WITH
    stage   <- [r \in RunId |-> StageOf(r)],
    base    <- [r \in RunId |-> IF plan[r] = None THEN None ELSE plan[r].prev],
    outcome <- result

(* Every invocation, however it ends, keeps the promises of RecoveryPoint. *)
KeepsThePromise == Catalogue!Spec

-----------------------------------------------------------------------------
(* The inductive invariant of the proofs, part by part. *)

(* An invocation's locals and its child exist when its program counter     *)
(* says so, and belong to the operation it performs.                       *)
Control ==
    \A p \in Proc :
        /\ call[p] = None <=> pc[p] \in {"idle", "crashed"}
        /\ child[p] = None <=> pc[p] \notin {"wait", "crashed"}
        /\ pc[p] = "wait" => child[p].task = call[p].task /\ child[p].run = call[p].run
        /\ call[p] # None =>
              /\ call[p].op = "plan" <=> call[p].task = "dry_run"
              /\ call[p].op = "verify" => call[p].task = "compare"
              /\ pc[p] \in {"base", "request", "plan"} => call[p].op = "plan"
              /\ pc[p] \in {"completed", "result", "latest"} => call[p].op = "run"
              /\ pc[p] = "completed" => call[p].status = "success"
              /\ pc[p] \in {"result", "latest"} => call[p].status \in Status

Planning(p) == call[p] # None /\ call[p].op = "plan"

(* A run id that is being planned is nobody else's and has no plan yet.    *)
IdsAreFresh ==
    /\ \A r \in RunId : plan[r] # None => r \in dirs
    /\ \A p \in Proc : Planning(p) => call[p].run \in dirs /\ plan[call[p].run] = None
    /\ \A p, q \in Proc : Planning(p) /\ Planning(q) /\ call[p].run = call[q].run => p = q

(* The evidence a run has gathered at each point of its way to success.    *)
EvidenceInOrder ==
    /\ completed \subseteq marker
    /\ \A r \in marker : plan[r] # None
    /\ \A p \in Proc :
          /\ child[p] # None /\ child[p].task = "marker" =>
                /\ plan[child[p].run] # None
                /\ child[p].exit = "ok" => child[p].run \in marker
          /\ pc[p] = "completed" => call[p].run \in marker
          /\ pc[p] \in {"result", "latest"} /\ call[p].status = "success" =>
                call[p].run \in completed

(* A base that has been chosen and not yet written is a recovery point.    *)
ChosenBase ==
    \A p \in Proc : Planning(p) /\ call[p].base # None =>
        call[p].base \in completed \ {call[p].run}

IndInv ==
    /\ TypeOK /\ Control /\ OneOperationAtATime
    /\ IdsAreFresh /\ RunIsApproved
    /\ EvidenceInOrder /\ SuccessIsBacked
    /\ ChosenBase /\ BaseIsRecoveryPoint

-----------------------------------------------------------------------------
(* What the proofs of the other properties add to the inductive invariant. *)

NobodyCrashed == \A p \in Proc : pc[p] # "crashed"

(* A run that verifies reaches the marker only after a comparison that     *)
(* found no change, with no transfer into that run since.                  *)
ComparedFirst ==
    \A p \in Proc : call[p] # None /\ call[p].op = "run" =>
        /\ pc[p] = "lock" => call[p].task = "transfer"
        /\ call[p].cfg \in VerifyingConfig =>
              /\ call[p].task = "marker" => call[p].run \in compared
              /\ pc[p] = "wait" /\ call[p].task = "compare" /\ Clean(p) =>
                    call[p].run \in compared

(* A result is ahead of latest/<job>.json only while its writer goes on.   *)
StatusFollows ==
    /\ \A p \in Proc : pc[p] = "latest" => result[call[p].run] = call[p].status
    /\ (\A p \in Proc : pc[p] # "latest") =>
          IF status_job = None THEN history_job = {} ELSE status_job \in history_job

(* The invocation in the slot runs r, or its transfer writes into r.       *)
WorksOn(p, r) ==
    \/ call[p] # None /\ call[p].op = "run" /\ call[p].run = r
    \/ child[p] # None /\ child[p].task = "transfer" /\ child[p].run = r

OneRunPerId == \A p, q \in Proc, r \in RunId : WorksOn(p, r) /\ WorksOn(q, r) => p = q

CarriesNothing ==
    \A p \in Proc : child[p] # None /\ child[p].task # "transfer" => child[p].got = Empty

(* Nobody works on a run that has its success, but to report it.           *)
NotYetDone ==
    \A p \in Proc : \A r \in Successful : WorksOn(p, r) => pc[p] = "latest"

(* What a child has read, or found equal, is what the source holds.        *)
ReadAsItIs ==
    \A p \in Proc : child[p] # None =>
        /\ child[p].exit = "ok" => child[p].todo = {}
        /\ child[p].task = "transfer" => \A f \in File :
              child[p].got[f] = IF f \in child[p].todo THEN Absent ELSE source[f]
        /\ child[p].task = "compare" /\ ~child[p].diff => \A f \in File \ child[p].todo :
              source[f] \in {Absent, snapshot[child[p].run][f]}

Transferred(p) ==
    /\ call[p] # None /\ call[p].op = "run"
    /\ \/ pc[p] \in {"spawn", "wait"} /\ call[p].task # "transfer"
       \/ pc[p] = "wait" /\ Ok(p)
       \/ pc[p] = "completed"

TransferCovers == \A p \in Proc : Transferred(p) => Covers(call[p].run)

(* What the proofs of the outcomes use, each part where it holds.          *)
OutcomeInv ==
    /\ CarriesNothing /\ ComparedFirst
    /\ ~MayCrash => NobodyCrashed
    /\ ~MayCrash /\ ~MayFailIO => StatusFollows
    /\ (\A p, q \in Proc : p = q) => NotYetDone
    /\ QuietSource => ReadAsItIs /\ TransferCovers

=============================================================================
