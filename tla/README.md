# A TLA+ model of hpc-sync

This directory holds the verification project of `hpc-sync` (`src/src/hpc_sync`)
and of the older sync daemon kept in the same crate (`src/src/server`,
`src/src/common`, `src/src/client`).  Paths below are relative to the repository.

## 1. Inventory

### hpc-sync, the one-shot CLI

An invocation is a process that performs one operation on one configured job and
exits.  Invocations share the audit files under `state_dir`, a lock file per job
and the remote receiver; nothing else keeps state.

| component | state | operations | must be true |
|---|---|---|---|
| operations (`operations/*.rs`) | `runs/<job>/<run-id>/{request,plan,result}.json`, `COMPLETED`, `latest/<job>.json` | `plan` picks a base, dry-runs and stores a plan; `run` transfers, compares, uploads the marker and records the outcome; `verify` compares; `status`, `history` read | a success is backed by its evidence; a run does what was approved; a plan's base is completed; a completed run never changes |
| lock and atomic files (`state.rs`) | the flock on `locks/<job>.lock` | `JobLock::acquire`, drop; `atomic_write` (temporary file, fsync, rename) | one operation of a job at a time, whatever is killed |
| process execution (`process.rs`) | a child process and its output files | spawn, poll, kill at the deadline, classify | every invocation ends; the exit is taken for what it says |
| rsync commands (`rsync.rs`) | none | builds the four command lines | no deletion; one snapshot directory per run id; the base as `--link-dest` |
| configuration (`config.rs`) | the TOML file | load, validate, hash | a plan made under one configuration is not run under another |
| exit classification, errors, records | none | rsync exit code to error code, retryability, exit code | the exit code tells success from the rest |
| command line (`cli.rs`) | none | parse, dispatch, print JSON, exit | |

What is hard: any number of invocations overlap; an invocation may be killed
anywhere while its rsync child goes on; each durable write can fail or be the
last one made; the source tree, its completion marker and the configuration
change under a running operation; decisions are taken before the lock is held
(the base of a plan, the early return of a repeated run, the approval) and used
after it.

### The legacy daemon and TUI

| component | state | operations | must be true |
|---|---|---|---|
| control (`main.rs`, `common/daemon.rs`) | pid file, socket | start, stop, restart, status | one daemon; stop stops it |
| requests (`server_main.rs`, `server/handler.rs`) | `ServerState`: tasks, stoppers | StartTask, StopTask, RestartTask, DryRun, GetState, GetTaskLog, directory listings | every task has one worker; a stopped task is not synchronised any more |
| worker (`server/worker.rs`) | debounce deadline, last remote signature, the task's status and log | initial sync, watcher, debounce, pull poll, rsync with three attempts | every change is eventually synchronised; the status is that of the last attempt |
| task file (`server/state.rs`) | `~/.sync_daemon_tasks.json` | save on start and stop, load at start-up | a restart finds the tasks that were there |
| ssh helpers (`server/ssh.rs`) | none | one remote command each | |
| TUI (`client_main.rs`, `client/*.rs`) | `App`: mode, saved hosts, pending host, port and password, source, remote path, listing, tasks as last fetched | one handler of keys per mode, requests over the socket with a time limit of 3 s, drawing | a browser shows the machine it is about; what is sent is what was chosen; a key finds the row it takes; every step can be left |

A client opens a connection per request; each is served by a task of its own that
locks `ServerState` for short sections and releases it around every `.await`.
Workers are told to end over a channel of capacity one and answer at their next
`select!`, that is, never while they synchronise.  The steps of the TUI's wizard share
one `App`, so that each finds what earlier steps, or an earlier wizard, have left there.

## 2. Modules

| module | models | extends or uses |
|---|---|---|
| `HpcSync` | the one-shot operations of one job, with lock, audit files, rsync children, source and configuration | |
| `RecoveryPoint` | what `HpcSync` promises about recovery points: the abstract specification | instantiated by `HpcSync` as `Catalogue` |
| `SyncWorker` | the daemon's workers with watcher thread, rsync child and output reader | |
| `SyncDaemon` | StartTask, RestartTask, StopTask over a registry of workers; kills of the daemon and the restore of saved tasks | composes `SyncWorker` (`W == INSTANCE`) |
| `TaskStore` | the daemon's task file, saves, kills and restarts | |
| `SavedTasks` | what `TaskStore` promises: the abstract specification | instantiated by `TaskStore` as `File` |
| `DaemonControl` | start, stop, restart and status, the pid file and its lock, the socket, servers starting up | |
| `Client` | the TUI's dashboard and its wizard, key by key, with the answers of the daemon | |
| `HpcSyncProofs`, `HpcSyncOutcomeProofs`, `HpcSyncRefinement`, `SyncWorkerProofs`, `SyncDaemonProofs`, `TaskStoreProofs`, `DaemonControlProofs`, `ClientProofs` | theorems | extend the module they prove about |
| `MCHpcSync`, `MCSyncWorker`, `MCSyncDaemon`, `MCTaskStore`, `MCDaemonControl`, `MCClient` | model values and symmetry for TLC | extend the module they instantiate |

### HpcSync and the code

State.  `lock` is the flock of `JobLock`; `dirs`, `request`, `plan`, `completed`,
`result`, `latest` are the files under `state_dir`; `snapshot` and `marker` are what
the receiver holds per run id; `source`, `ready`, `config` are what others may change.
For each slot `pc`, `call`, `child`, `ret` are where an invocation is, its locals, its
rsync and how the last one ended.  `compared` is a history variable.

Actions.  An invocation moves from one call that touches shared state to the next.

| code | actions |
|---|---|
| `check_job`, `plan_job` up to the lock | `PlanStart`, `PlanRefused`, `ChooseBase` |
| `run_job` up to the lock, `validate_approval` | `RunAlreadyDone`, `RunRefused`, `RunStart` |
| `verify_job` up to the lock | `VerifyStart`, `VerifyRefused` |
| `JobLock::acquire` | `AcquireLock`, `LockBusy`; the drop is in `Return` |
| `execute` | `Spawn`, `Deadline`, and the `...Reap` of each operation |
| rest of `plan_job` | `PlanReap`, `WriteRequest`, `WritePlan` |
| rest of `run_job`, `persist_result` | `TransferReap`, `CompareReap`, `MarkerReap`, `WriteCompleted`, `WriteResult`, `WriteLatest` |
| rest of `verify_job` | `VerifyReap` |
| any `?` with no child running; a kill, or a `?` on the child (`process.rs:61-69`) | `Abort`; `Crash`, `OrphanEnds` |
| rsync (outside `src/`) | `RsyncRead`, `RsyncSucceeds`, `RsyncStops` |
| producer and owner of the job | `SourceChanges`, `ProducerMarks`, `ConfigChanges` |

Abstractions.  A tree is a function from files to contents; quick and checksum
comparisons are one; `stable_hash` has no collisions; a failed rsync is a failed rsync,
whatever its exit code.  The staging name of the marker is one with the marker.
`latest_successful_run_id` reads the directory at one moment.  `plan.json` never changes
once written, so that reading it after `result.json` and reading both at once come to
the same.  The record of a verification is not kept: nothing reads it.  A kill is that
of a process; power loss, which may lose renames, is not modelled.  When `try_wait`, `kill` or
`wait` fails, the invocation returns an error and leaves a live rsync behind: that is `Crash`,
whose outcome "killed" no property tells from "error".  Results without kills thus are
results without these failures too.

### SyncWorker and SyncDaemon and the code

State.  `status` is the status of each registered task (`None`: not registered),
`stoppers` the stored kill channels, `worker` everything one `spawn_sync_worker` owns:
its place in `retry_run_rsync` or in the `select!`, its child, reader, watcher, debounce
timer and signature.  `origin` and `replica` are the two trees of a task, each the
number of the last change in it; `Mixed` is what a failed `--inplace` transfer leaves.
`request` is how far each connection has got, `restore` how far `run_server` has got with
the saved tasks, before it accepts connections.  A worker that has ended leaves its name
for another one.  `known` are the ids that have been used, `raced` (a history variable) the
tasks on which a restart and a stop were at work at the same time.

Actions.  `SyncWorker` has one per lock section or wait: `RsyncStart`, `RsyncReaped`,
`SuccessSeen`, `Retry`, `GiveUp`, `BackoffOver` (`run_rsync`, `retry_run_rsync`);
`SetUpPush`, `SetUpPull` (before the loop); `Stopped`, `FileChanged`, `TimerExpired`,
`SignaturePolled` (the branches of the `select!`); `WatcherStarts`, `WatcherFails`,
`WatcherPolls` (the thread); `ReaderReports`, `ReaderEnds` (the task that reads rsync's
output).  `SyncDaemon` cuts each handler where it gives the lock back: `StartTask`;
`RestartTakes`, `RestartTells`, `RestartSpawns`, `RestartStores`; `StopTakes`,
`StopTells`, `StopRemoves`.  A stopper that is dropped tells its worker to stop as a
message would, since `recv()` then returns.  `Crash` is a kill of the daemon, between any
two of these, and the next start: `RestoreSpawns` spawns the worker of a saved task and
`RestoreInserts` inserts the task and its stopper (`server_main.rs:59`), once per task;
the worker runs in between.

Abstractions.  Delays have no length: a timer may expire whenever it is armed, an
attempt may follow its back-off at once.  All readers of one worker are one.  Task ids
are never made twice (the client makes them from the clock).  The password, the log
files and the texts are left out, and so is the status of a bad host, which StartTask
refuses.  Which tasks the file holds after a kill is the subject of `TaskStore`; here it is any
set of ids that were used.  An rsync that a killed daemon leaves running is left out.

### TaskStore and the code

A name refers to an inode: `tmp` and `json` are the two names, `data` the content.
`save_tasks` is `SaveOpens` (create and truncate), `SaveWrites`, `SaveRenames`,
`SaveFails`; the writer keeps its inode whatever its name has become.  `Start` and `Stop`
are the ends of the two handlers, which copy the tasks and spawn a save.  `Crash` is
a kill, in a write perhaps; `Load` is `load_tasks`.  Writes are not split below one
`write`; what a later, shorter write leaves behind is `Unreadable`.  `SavedTasks` is what all of
this is for: one list, replaced in one step by the daemon's own.  `KeepsOneList` says that
`TaskStore` implements it with `Stored`, what `load_tasks` would return, as that list.

### DaemonControl and the code

State.  `pidfile` is the inode that `~/.sync_daemon.pid` names, `content` the pid written
in each inode, `socket` who listens at the socket (`Stale`: a file left by a dead
server), `server` what each process has come to and the inode it has open, `command` what
each terminal is doing and the pid it has read.

Actions.  `Begin` reads the pid file, which is where every command starts
(`get_server_pid`).  `Check` is the rest of `is_server_running`; `CheckAndKill` and
`Remove` are `kill_server`, `Remove` also the clean-up of a stale file; `SpawnServer`
starts a process.  That process is `OpenPidFile`, `LockPidFile`, `WritePid` (the crate
daemonize, outside `src/`), `UnlinkSocket` and `Bind` (`run_server`), and serves.  It ends
if the file is locked or the socket's name is taken.  `Crash` is a kill by others.

Abstractions.  The sleeps of `ui` and `restart` have no length; that `exists` and
`remove_file` of the socket are two calls makes no difference to a server that holds the
only lock.  Pids are
used again, by servers only: another program that has got the pid in the file, and that
stop would kill, is left out.  `ui` begins as `start` does.

### Client and the code

State.  The variables are the fields of `App` (`client/state.rs`) with their names; rows are
counted from 1.  A path is modelled by where it comes from: `Local`, or the host and port
whose listing it was picked from; `listed` is where `dir_entries` comes from, which the
code does not keep.  `tasks` is the number of tasks in the last answer to GetState, or `None`
when the loop of `run_app` has to fetch and draw before it takes the next key.  `sent` is the
StartTask of the last step, if it was one.  Three history variables: `back`, in a pull, Esc was
pressed in HostSelect or LocalBrowser; `kept`, a load found no host and left `host_list_idx`
past the first row, and that row does not exist yet; `seen`, the rows that the dashboard had,
or was to have after a stop, when the selection was last put on one of them.

| code | actions |
|---|---|
| `run_app`, its fetch of the tasks; its start and end | `Fetch`; `Init`, `Quit` |
| `handle_dashboard_keys` | `DashboardMove`, `DashboardAdd` ('a'), `DashboardPull` ('p'), `DashboardStop` ('d'), `DashboardRestart` ('s'), `DashboardView` ('r', 'l'), `RestartServer` (Ctrl+R) |
| Esc in every mode | `Esc`, with its `EscTarget` |
| `handle_local_browser_keys` | `BrowserMove`, `LocalEnter`, `LocalSelect`, `NewDir` |
| `handle_remote_browser_keys` | `BrowserMove`, `RemoteEnter`, `RemoteSelect` (pull), `StartPush`, `NewDir` |
| `handle_local_mkdir_input_keys`, `handle_remote_mkdir_input_keys` | `CreateDir` |
| `handle_host_select_keys` | `HostMove`, `HostChosen`, `HostTyping` ('a', 'e'), `HostDeleted` |
| `handle_remote_host_input_keys`, `..._port_input_keys`, `handle_password_input_keys` | `HostEntered`, `PortEntered`, `PasswordEntered` |
| `handle_sync_mode_select_keys` | `ModeChosen` (push), `StartPull` |
| `send_req` and the daemon's answers | `ListLocal`, `ListRemote`, `RemoteHome`, `StartTask` |
| `load_hosts` | `Loaded`, in `Init`, `DashboardPull`, `LocalSelect` |

Abstractions.  Text is chosen when Enter ends it.  The browser's local path is always one
of this machine.  The sync mode, compression, scrolling and the positions of the cursor in a
text are left out.  `~/.sync_hosts` and the daemon are shared with other clients and with
editors, writes may fail, and a line that begins with `#` is saved but not loaded: a load
gives any list of lines, a fetch any number of tasks.  That includes what a daemon has left
that Ctrl+R restarted.  A key for a row that a list does not have panics; the model
has no step for it but `Quit`, which is what a panic leaves, and `KeysFindARow` says where
none can come.

## 3. Runs

Each run is one `.cfg`; `MC<module>_<name>.cfg`.  All passing runs finish within two
minutes.

### HpcSync

| run | instance | shows |
|---|---|---|
| `concurrent` | 2 slots, 2 run ids, 1 file, changing source | `OneOperationAtATime`, `NoOverlap`, `StatusIsAuthoritative`, `MarkedAfterComparison`, `InvocationsMoveOn`, `TypeOK` |
| `crashes` | 2 slots, 2 run ids, kills and failing I/O, no files | `NeverStuck`, `SuccessIsBacked`, `BaseIsRecoveryPoint`, and that `HpcSync` implements `RecoveryPoint` (`KeepsThePromise`) |
| `one_slot` | 1 slot, 2 files with 2 versions that change and vanish between invocations, marker required, 2 configurations, kills, failing I/O, children that hang, fairness | `RunIsApproved`, `RecoveryPointIsFinal`, `CompletionCoversSource`, `VerifiedCoversSource`, `InvocationEnds` |
| `orphan`, `rerun` | 2 slots, as small as shows it | findings, section 5 |

`concurrent` has no kills and no failing writes: with kills `NoOverlap` is false (`orphan`), and
so is `MarkedAfterComparison` (section 4); after either of them, between
`result.json` and `latest/<job>.json`, `status` is behind until the next run, so that
`StatusIsAuthoritative` would not hold.  `RecoveryPointIsFinal` holds for one invocation
at a time only (`rerun`).  `InvocationEnds` takes fairness and so is checked for one slot;
`InvocationsMoveOn` and `NeverStuck` are the two halves of its proof and are checked for two, which
meet in the lock.

Bounds.  The operations of one job meet in the lock, one run's files and one base,
which two slots and two run ids exercise: every pair of operations at every pair of
points, a base and the run that builds on it.  A third slot only adds another loser of
the lock.  Invocations are not counted; each slot starts as many as it likes.  Two files
are needed for a transfer that reads one before and one after a change or installs one
of two.  `crashes` has no files because its properties are about records only.  The
theorems of section 4 hold without these bounds.

### SyncWorker, SyncDaemon, TaskStore, DaemonControl and Client

| run | instance | shows |
|---|---|---|
| `worker_watched` | 1 worker, push or pull, 3 versions of a tree, failures of rsync, ssh and watcher, fairness | `IdleIsInSync`, `ErrorMeansThreeFailures`, `SuccessIsItsOwn`, `RoundsMoveOn`, `NeverStuck`, `ChangesAreHandled`, `WorkerEnds`, `TypeOK` |
| `daemon_registry` | 2 connections, 3 workers, a pull, kills of the daemon | `EveryTaskIsServed`, `OnlyTasksAreServed`, `TypeOK` |
| `store_serial` | 2 tasks, 2 saves, 4 inodes, saves do not overlap, failing I/O, kills | `IndInv`, `FileIsReadable`, `RestartFindsRecent`, and that `TaskStore` implements `SavedTasks` (`KeepsOneList`) |
| `control_calm` | 2 terminals, 3 pids, 3 inodes, one command at a time, kills, fairness | `OneServer`, `ServerIsInReach`, `NeverStuck`, `SpawnServes` |
| `client_wizard` | 2 hosts, 1 port, at most 2 saved hosts and 2 tasks, any of them at each load and fetch, listings and StartTasks that fail | `BrowsersShowTheirSide`, `EveryTaskIsChosen`, `KeysFindARow`, `OnlyOthersUnhighlight`, `EscLeadsHome`, `TypeOK` |
| `daemon_two_rsyncs`, `store_torn` | as small as shows it | findings, section 5 |

What passing runs assume, as constants, since the code does not hold without it (section
5): `LateReader = FALSE` (the reader ends before the child is reaped) and `EarlyEdits =
FALSE` (no change before the watcher's first scan); `Serial` in `store_serial`; `Calm` in
`control_calm`: a command begins when the one before is done, and stop, restart and kills
find no server that is still starting up (`start`, `status` and `ui` may).  These runs say what holds as long as those
races do not happen.  Some properties make their exception themselves:
`OnlyTasksAreServed` that of a task on which a stop and a restart overlapped, the first three
of `client_wizard` that of a pull in which the user went back (`Straight`), the third also that
of an index kept when no host was loaded (`kept`), and `OnlyOthersUnhighlight` that of a list
of tasks which others cut short; section 5 has them all.  In `daemon_registry` rsyncs do not fail, which `worker_watched` covers for each
worker.  That a stopped task's worker ends is `OnlyTasksAreServed`, by which it has been
told to, and `WorkerEnds`.

Bounds.  Changes beyond the second bring nothing new: one that is being copied and one
that comes in meanwhile.  Three workers let two requests overlap with a worker that has
been told and goes on.  Four inodes are enough for two names and two open files.
In `control_calm` a server serves, one starts up and loses, and a third pid is free to be
used next; a server keeps the inode it has open, so three servers never hold more than three.
In `client_wizard` two hosts are the one that was and the one that is; a second port
gives the same races, since port and host are compared together; two saved hosts let a
list shrink under its last row, be edited, or be loaded shorter or empty; two tasks let others
take the last row away from under the selection.
All runs but `worker_watched` check for deadlock; there all workers may have ended and
all changes been made.

### Fairness

- `InvocationEnds`: weak fairness of what an invocation does by itself (`Proceed`).  It
  is a process that the kernel schedules; its loop in `execute` polls every few
  milliseconds and kills at the deadline, so that `Deadline` is one of its own steps.
  rsync has no fairness: it may hang.
- Workers: weak fairness of the round and the set-up (`Proceed`: the worker, its child, its
  reader), which one after the other Tokio or the kernel runs, and of the watcher thread.
  Among them is that an rsync ends, for which nothing in the daemon provides: with one that
  hangs neither `ChangesAreHandled` nor `WorkerEnds` would hold.
- The branches of the `select!` have strong fairness: Tokio polls them in a random order,
  so that a branch that is ready again and again is taken in the end.  For
  `SignaturePolled` this includes that the ssh of a poll succeeds in the end.
- `SpawnServes`: weak fairness of each command and of each server that starts up
  (`CommandFairness`, `ServerFairness`), which are processes that the kernel schedules.

## 4. Proofs

All are checked by TLAPS for every value of the constants that satisfies the named
assumptions of the module (`ConstantsAssumption`, `NoneAssumption`; `StoreAssumption`;
`ControlAssumption`; `ClientAssumption`; `WorkerAssumption`; `DaemonAssumption`, which includes
`WorkerAssumption`).  The `NoneAssumption`s say that `None` is not one of the values it stands
beside.  A theorem that needs more has it in its statement: each such condition is the
negation of a finding of section 5 or of a kind of failure that a run leaves out too, and
TLC finds a counterexample without it.

`HpcSyncProofs`.  `SuccessIsBacked` is not inductive: that `WriteResult` may write
`success` depends on where the invocation has come from.  `IndInv` adds what makes it so:

- `Control`: locals and child exist and belong together as the program counter says;
- `OneOperationAtATime`: what an invocation in its locked section knows of the audit
  files no other one changes;
- `IdsAreFresh`: a run id being planned is nobody else's and has no plan, so a plan,
  once there, stays;
- `EvidenceInOrder`: a marker follows its plan, COMPLETED its marker, the decision to
  report success its COMPLETED, for children in flight, orphans included, too;
- `ChosenBase`: a base that is chosen and not yet written down is completed.

`Invariance` proves `Spec => []IndInv` with one lemma per action; `TypeCorrect`,
`MutualExclusion`, `SuccessHasEvidence`, `RunsAreApproved`, `BasesAreCompleted` follow.

`HpcSyncOutcomeProofs`.  What a caller relies on, each under the condition that the
findings leave.  The parts of `OutcomeInv` are what the properties need beside `IndInv`:

- `OverlapNeedsAKill`, without kills (`NobodyCrashed`): every child has a slot in its
  locked section, which by `OneOperationAtATime` is one; so `orphan` has no other cause.
- `MarkersAreVerified`, without kills, failing writes allowed.  `MarkedAfterComparison`
  looks at the step that uploads the marker, long after the comparison: `ComparedFirst`
  carries it through the program counter.  An orphan of a killed transfer would still
  write after the comparison.
- `StatusAgreesWithHistory`, without kills and failing writes.  `StatusFollows` says that
  status and history differ only while somebody is between the two writes.
- `SuccessIsFinalApart`, if no two slots work on one run id at a time
  (`[]OneRunPerId`, a condition on the behaviour), with kills and failing writes:
  nobody works on a run that has its success, but to report it (`NotYetDone`), and a
  child that does not transfer has nothing to install (`CarriesNothing`).
  `SuccessIsFinal` is the case of one slot; without the condition there is `rerun`.
- `CompletionsCoverTheSource`, `VerificationsCoverTheSource`, for a source that changes only
  between invocations (`QuietSource`), with kills, failures and any number of slots and files.
  `ReadAsItIs` says what a child in the middle of its work has read, `TransferCovers` that
  its outcome lasts until COMPLETED is written.

- `EveryStepIsProgress` and `EveryInvocationEnds`: see liveness, below.

`HpcSyncRefinement`.  `Refinement` proves `Spec => KeepsThePromise`: `WritePlan` is
`Plan` (its base is completed by `ChosenBase`), the success of a marker upload or an
interrupted one is `Mark` (its run is planned by `EvidenceInOrder`), `WriteCompleted` is
`Complete`, `WriteResult` is `Report`, everything else stutters.

`TaskStoreProofs`.  For saves that do not overlap, `IndInv` says that there is at most
one save, that it writes the current list to the inode named `tmp`, which is not the one
named `json`, and that its content is the list when it renames.  From this
`AlwaysReadable` and `RestartsFindRecent`; and `OneListIsKept`, that `SavedTasks` is
implemented: a rename is `Settle`, since it stores the list that the daemon has then, a
request is `Change`, a kill with any torn write is `Kill`, `Load` is `Restart`, and every other step of
a save, a failing one too, stutters.  Serial requests are needed: without them all three
are false (`store_torn`).

`DaemonControlProofs`.  `Calm /\ Spec => []IndInv`, and from it `AtMostOneServer` and
`ServerAlwaysInReach`.  `OneServer` rests on the lock, but the lock is that of an inode, so
that all servers must have opened the same one (`OneInode`): the name is removed only
when there is no server, which stop and start know from the pid in the file only if it is
the lock holder's or nobody's (`PidIsCurrent`), and from what they have read earlier only
if nothing has happened since (`CommandInOrder`).  `Calm` is needed for the last two.  What
remains without it is `AnyOrder`: one lock per inode, and a socket whose listener serves.  From
it `TypeCorrect`, `ListenersServe` and `TwoServersTwoFiles`: two servers serve at a time only
with the locks of two inodes, so that `remove_file` on the pid file (`daemon.rs:60`), and no race
of two starts, is behind every second server.

`ClientProofs`.  A StartTask is made of what up to eight steps have left in `App`, so
`EveryTaskIsChosen` is not inductive.  `IndInv` says what each mode may count on, as long
as the user did not go back in a pull (`Straight`):

- `BrowsersFilled`: an open browser has a listing of its own side with the cursor on a
  row; the remote one is of the host and port at hand, and so is the password;
- `PushSoFar`, `PullSoFar`: what has been chosen before each mode, which differs since a
  pull begins with the remote side.  In a push the local listing stays until the remote
  one has come, as Esc may lead back to it;
- `HostsInOrder`: the selected line is one of the list, or the list is empty, or the index was
  kept by a load that found no host.

`Invariance` proves it, one lemma per action, whatever requests fail and whatever is loaded;
`BrowsersAreRight`, `TasksAreChosen`, `KeysFindRows` follow.  `EscIsProgress` needs no
invariant.  `KeysHighlight` rests on `BoardInv`: the selection never passes `seen`, so a list
that is not shorter than that has it on a row.

`SyncWorkerProofs`.  The properties of a worker speak of what it reads back from the
shared status, and of trees, while child, reader and watcher go on by themselves.  `IndInv`
relates one worker's record to the status, the origin and the replica of its task, which is
nobody else's.  Its part `WorkersInv` holds of tasks that are registered or not, so that it can be
used in the daemon, where a task may be removed while its worker goes on:

- `Counted`: no round counts more failures than attempts, which `TypeCorrect` needs (no
  assumption on what fails or comes late);
- `IdleIsOwn`: IDLE, after a round or to end it, is the exit of its own child.  A late
  reader reports no IDLE, so that `SuccessIsOwn` needs no assumption;
- `StatusIsOwn`, without `LateReader`: so is every other status that `retry_run_rsync` reads
  of a task that is registered, and no failure is lost.  With `IdleIsOwn`, `GivesUpAfterThree` follows;
- `Copied`, `Watching`: the replica is what a successful rsync has read, and nothing has
  been read or heard of that is later than the origin;
- `Heard`, without `EarlyEdits`: what was read before the watcher is there is still so, and
  what was heard of and is not pending has been read.  `IdleMeansInSync` follows, with late
  reports too: the last
  change heard of is the origin, no more than what was read, which is no more than the
  origin.

One lemma per action (`Goes` does what they share) has one step per part.  Neither condition
can be dropped: section 5 has what happens with `LateReader` and with `EarlyEdits`.

`SyncDaemonProofs`.  The registry depends on its workers only through `Stay`, the workers
of each task that have not been told to stop; `WorkersGoOn` shows that no step of a worker
changes it, nor which tasks are registered.  A stopper is on its way through several
places, so `IndInv` follows it: whatever the registry, a request or the restore holds is a
worker that stays for that task (`Owned`), nobody else holds it (`Apart`), and every worker
that stays is held (`Kept`).  `Served` and `NotRaced` say what an open request will do for
its task, `Restoring` that nobody is at work during a restore.  From these
`TasksAreServed`, `OnlyTasksServed`, and `TypeCorrect`, which needs that a round counts no
more failures than attempts (`Fits`).  Kills and the other requests may come anywhere.
`OneRsyncUnlessRestarted` adds that without RestartTask the workers' tasks differ
(`OneEach`): `daemon_two_rsyncs` needs a restart, and neither a stop, an overlap of requests nor the
restore after a kill leads to it.

`OneEach` is also what the proofs about workers rest on, so that their results hold in the whole
daemon.  `P == INSTANCE SyncWorkerProofs` brings its lemmas; each step of `SyncDaemon` is
one of its workers (`WorkersStepSound`), the telling of one (`TellingSound`), the removal of a
task (`RemovalSound`) or a new worker with a new task (`StartedSound`), and all keep `WorkersInv`.
From it `SuccessIsOwnUnlessRestarted`, `GivesUpAfterThreeUnlessRestarted` and
`IdleMeansInSyncUnlessRestarted`.  They need `~MayRestart`, since two workers share a status
after a restart, and `~MayCrash`, since a restore inserts the saved status over that of a worker
that runs already; TLC finds all three false with restarts.  The second is about registered tasks: of one
that was removed no success can be read back.

Liveness.  `EveryInvocationEnds`, `EveryStopIsHeard`, `EveryChangeIsHandled` and `EverySpawnServes`
are of the form `FairSpec /\ []NeverStuck => ...`.  Weak fairness says that a step is taken if
it stays `ENABLED`; the prover treats `ENABLED A` as a formula it knows nothing of, so that
where the code has a step to make is said by an invariant, `NeverStuck`, which has the `ENABLED`
of each component in one place and which the runs check.  What then remains is proved for
every value of the constants:

- `EveryInvocationEnds`.  `StepsLeft` bounds the steps of its own that an invocation has left:
  14 from the choice of a base, since a run has up to three commands one after the other.
  `EveryStepIsProgress` is that each of its steps lowers it and nobody's raises it, so
  fairness brings it to an end, one step at a time (`OneStepNearer`).
- `EveryStopIsHeard`.  `StepsLeft` of a worker's record bounds what is left of a round: seven
  steps per attempt, three attempts.  `RoundsAreProgress` is the step, `RoundEnds` the end of
  a round; in the `select!`, the strong fairness of `Stopped` finds it ready each time that a
  round of another branch is over (`ToldEnds`).
- `EveryChangeIsHandled`, without `LateReader` and `EarlyEdits`.  A round that has not read yet, or
  has read the change (`Fresh`), ends with a copy or the error status.  A worker that waits
  and has not copied it has something left (`SomethingIsLeft`, from `Heard`): an armed timer, a
  message, a watcher that has not looked, or a signature that differs, each a step from the next, and the
  last a fresh round.
- `EverySpawnServes`, when `Calm`.  A server that starts up gets the lock and comes to serve, or
  ends because another holds it, which then comes to serve in turn (`LockHolderServes`); kills
  do not come in between, as `Calm` says.

Only model-checked: the three invariants `NeverStuck`, which are about `ENABLED`, and so the
last hypothesis of the four liveness theorems.  Every other property of a passing run is a
theorem.  Not proved either: anything about a worker's statuses under a daemon with
restarts, where it is false (section 5).

## 5. Where the code and its documentation differ

Each is a run that TLC finds violated; PROJECT.json quotes the line it contradicts.

| run | what happens |
|---|---|
| `orphan` | hpc-sync is killed, its rsync goes on without a lock, another operation's rsync starts |
| `rerun` | two runs of one plan: the second passed the early return before the first was done, and transfers into the completed snapshot |
| `daemon_two_rsyncs` | RestartTask does not wait: two rsyncs write one tree |
| `store_torn` | two saves share a temporary name: the task file may be unreadable |

Met while modelling, and not among the runs.  The first six and, of the client's, those of `Straight` and `kept`
were found by TLC, with a constant of a passing run changed, the exception of a property
dropped, or a worker's property checked in the daemon; the others are read off the actions.

- `EarlyEdits = TRUE` in `worker_watched`: the watcher takes its baseline after the initial
  sync (`worker.rs:101`), so that a change between the two is never synchronised and the
  task stays IDLE (`IdleIsInSync`).
- `Calm = FALSE` in `control_calm`: two starts, and both servers have opened the pid file
  when a restart kills the one that got the lock and removes the file (`daemon.rs:60`).  The
  other one goes on with an inode that has no name; the server of the restart locks a new
  one, and both serve (`OneServer`).  Stop knows only one of them (`ServerIsInReach`).
- `LateReader = TRUE` in `worker_watched`: `run_rsync` does not wait for the task that
  reads rsync's output (`worker.rs:459`).  A late progress line overwrites IDLE, so that
  a success is retried up to ERROR (Max Retries), or overwrites that status in turn, so
  that `ErrorMeansThreeFailures` and `ChangesAreHandled` fail.
- Without `raced` in `OnlyTasksAreServed`: RestartTask stores the new worker's stopper
  (`handler.rs:143`) without looking whether a StopTask has removed the task meanwhile;
  the worker stays, and a client no longer sees a task to stop.
- After RestartTask, with failing rsyncs: two workers of one task share its status, and one may
  read the other's IDLE after its own rsync failed (`worker.rs:217`).  `SuccessIsItsOwn`,
  `ErrorMeansThreeFailures` and `IdleIsInSync` are false then.
- After a restart of the daemon: a restored worker runs before its task is inserted, with the status
  that was saved (`server_main.rs:59`).  A saved IDLE may be read as the success of an rsync that
  failed.
- Requests that overlap (`Serial = FALSE`): of two saves the older copy may be renamed last
  (`handler.rs:111`).
- A worker told to stop goes on with its attempts, and a task that is gone never counts
  as a success (`worker.rs:210`), so that rsync is started for it again.
- A watcher thread that cannot watch leaves a closed channel, which `rx_file.recv()` takes
  for a change again and again (`worker.rs:155`).
- A run killed between `result.json` and `latest/<job>.json`: repeating it returns at once
  (`run.rs:21`), and `status` never learns of the success.
- `verify` compares without `--delete` (`rsync.rs:50`) and so says nothing of files that
  the source no longer has; `VerifiedCoversSource` is what it does establish.
- An operation that finds the lock held exits with 0 (`state.rs:35`), the code that
  `cli.rs:246` calls success.
- `run` does not look at the source's completion marker; only `plan` does
  (`check_plan.rs:36`).

The client (`client/handler.rs`):

- Without `Straight`: Esc in the HostSelect of a pull leads to LocalBrowser (346), whose
  listing has not been asked for.  It is empty, and Enter takes a row that is not there;
  or it is an old one, and the wizard goes on to a task whose remote path was never
  selected, though the comment at 716 says that both are.  Esc in the LocalBrowser of a pull
  leads to RemoteBrowser (219), which shows the local rows: Enter asks the host for
  a path of this machine.
- HostSelect takes a saved line as the host (363) and keeps the port of the wizard before;
  a line of the form host:port, which RemoteHostInput splits, is not a valid host here.
- `is_editing_host` is set by 'e' (382) and cleared only where a new host is begun.  A user
  who later chooses another line and presses Esc from the password back to
  RemoteHostInput edits that line (420) without having asked for it.
- Without `kept`: save the hosts `#a` and `#b` and leave the cursor on the second.  A 'p' loads none
  (`config.rs:8` drops lines that begin with `#`) and keeps the index (94-99); type another host,
  Enter, and Esc twice: HostSelect has one row and the index of a second one, and
  Enter (363), 'e' (380) or 'd' (388) panics.
- `run_app` does not clamp the selection when it fetches (`client_main.rs:138-141`).  After a stop
  by another client, or a restart from a shorter task file, the dashboard may have rows of
  which none is highlighted, until 'd', 's', 'r', 'l' (109, 131, 156, 179) or enough Up.
- The answer to a failed ssh is a row (`ssh.rs:176`), which can be selected like a directory.
- When the listing of a directory does not come, its path is already the current one (811)
  and the old rows are shown under it.
- The daemon may accept a StartTask whose answer is lost after 3 s; the wizard stays where
  it was, and the next Enter makes a second task of the same paths.

## 6. Not modelled

- argument text of the commands, output files, JSON, printing, log files, keyring: I/O;
- `config.rs` and `exit_class.rs`: pure, planned;
- `ui.rs`: it draws what is in `App`, and only the scroll offsets depend on it;
- text editing in the TUI: the cursor position that all inputs share is not reset
  everywhere, which may leave it past the end of another text; a byte index into Unicode
  text is beyond this model;
- `DryRun`, `GetTaskLog` and the ssh command lines: they read and answer; what the
  answers of `GetState` and the listings do to a client is in `Client`;
- `ServerState` and `Client` together: of the daemon's state the client of the model
  gets a number of tasks, any at each fetch, since no property relates a wizard to a worker;
- a request that does not fit into one read of 4096 bytes: up to the kernel.

## 7. Plan

Done: 1. `HpcSync`, `RecoveryPoint` with their proofs.  2. `SyncWorker`, `SyncDaemon`,
`TaskStore` with the proofs of the last.  3. `DaemonControl` with its proofs.  4. Kills of
the daemon and the restore of `server_main.rs` in `SyncDaemon`, with its proofs.
5. `Client` with its proofs.  6. The theorems of `SyncWorkerProofs` and
`HpcSyncOutcomeProofs`, `SavedTasks` and its refinement, and what holds of `DaemonControl`
without `Calm`.  7. The progress of invocations and rounds, the liveness theorems, and the
properties of workers in the whole daemon.

Left: pure parts (rsync exit classification, path and job validation,
`count_itemized_changes`) as operators against reference definitions.
