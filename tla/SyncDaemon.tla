----------------------------- MODULE SyncDaemon -----------------------------
(***************************************************************************)
(* The task registry of the legacy daemon (src/src/server/handler.rs) and  *)
(* its workers.  A request is served by a task of its own: it takes what   *)
(* it needs from ServerState, works without the lock, and takes the lock   *)
(* again to store the outcome.                                             *)
(***************************************************************************)
EXTENDS Integers, FiniteSets

CONSTANTS Task, PullTask, Worker, None, MaxVersion,
          LateReader, EarlyEdits, MayFailRsync, MayFailWatch

CONSTANTS
    Handler,     \* connections served at the same time
    MayRestart,  \* clients send RestartTask
    MayCrash     \* the daemon is killed and started again

VARIABLES status, worker, origin, replica   \* of SyncWorker

VARIABLES
    stoppers,    \* ServerState.stoppers: whose kill channel is stored
    request,     \* what each connection is doing
    known,       \* the ids that clients have made; none is made twice
    restore,     \* how far run_server has got with the saved tasks
    raced        \* history: tasks that were restarted and stopped at a time

registry == <<stoppers, request, known, restore, raced>>
vars == <<status, worker, origin, replica, registry>>

W == INSTANCE SyncWorker

Request == [op: {"restart", "stop"}, task: Task, step: {"tell", "spawn", "store"},
            stopper: Worker \cup {None}]

ASSUME DaemonAssumption ==
    /\ W!WorkerAssumption
    /\ {MayRestart, MayCrash} \subseteq BOOLEAN
    /\ None \notin Task \cup Worker \cup Request \cup W!Status \cup W!WorkerState

(* The saved tasks that are to come, the one at hand and its worker.       *)
Restore == [todo: SUBSET Task, task: Task \cup {None}, stopper: Worker \cup {None}]
Restored == [todo |-> {}, task |-> None, stopper |-> None]

(* run_server accepts connections once it has restored the tasks.          *)
Accepting(h) == request[h] = None /\ restore = Restored

(* Connections are at work on a restart and on a stop of t at a time.      *)
Overlap(t, op) == \E h \in Handler :
    request[h] # None /\ request[h].task = t /\ request[h].op = op
Race(t, op) == raced' = IF Overlap(t, op) THEN raced \cup {t} ELSE raced

Free == Worker \ W!Live

(* Told(w) that is used when w may be None.                                *)
TellAny(s, state) == [w \in Worker |->
    IF w = s /\ state[w] # None THEN [state[w] EXCEPT !.told = TRUE] ELSE state[w]]

Step(h, s) == request' = [request EXCEPT ![h].step = s]
Answer(h)  == request' = [request EXCEPT ![h] = None]

-----------------------------------------------------------------------------
(* StartTask: all of it under the lock. *)
StartTask(h, t) ==
    /\ Accepting(h)
    /\ t \notin known
    /\ known' = known \cup {t}
    /\ \E w \in Free :
          /\ worker' = [worker EXCEPT ![w] = W!NewWorker(t)]
          /\ stoppers' = [stoppers EXCEPT ![t] = w]
    /\ status' = [status EXCEPT ![t] = "STARTING"]
    /\ UNCHANGED <<origin, replica, request, restore, raced>>

-----------------------------------------------------------------------------
(* RestartTask. *)

RestartTakes(h, t) ==
    /\ MayRestart
    /\ Accepting(h) /\ t \in known
    /\ stoppers' = [stoppers EXCEPT ![t] = None]
    /\ IF status[t] = None
         THEN worker' = TellAny(stoppers[t], worker) /\ UNCHANGED request
         ELSE /\ request' = [request EXCEPT ![h] =
                    [op |-> "restart", task |-> t, step |-> "tell", stopper |-> stoppers[t]]]
              /\ UNCHANGED worker
    /\ Race(t, "stop")
    /\ UNCHANGED <<status, origin, replica, known, restore>>

(* Mutant: nothing is sent, and the sender lives on. *)
KillNone(h) == UNCHANGED worker

(* tx.send(()).await: the channel has room for it.                         *)
Kill(h) == worker' = TellAny(request[h].stopper, worker)

RestartTells(h) ==
    /\ request[h] # None /\ request[h].op = "restart" /\ request[h].step = "tell"
    /\ Kill(h)
    /\ Step(h, "spawn")
    /\ UNCHANGED <<status, origin, replica, stoppers, known, restore, raced>>

RestartSpawns(h) ==
    /\ request[h] # None /\ request[h].step = "spawn"
    /\ \E w \in Free :
          /\ worker' = [worker EXCEPT ![w] = W!NewWorker(request[h].task)]
          /\ request' = [request EXCEPT ![h].step = "store", ![h].stopper = w]
    /\ UNCHANGED <<status, origin, replica, stoppers, known, restore, raced>>

(* A stopper that is replaced is dropped, which ends its worker too.       *)
Store(h) ==
    LET t == request[h].task
    IN /\ stoppers' = [stoppers EXCEPT ![t] = request[h].stopper]
       /\ worker' = TellAny(stoppers[t], worker)

RestartStores(h) ==
    /\ request[h] # None /\ request[h].op = "restart" /\ request[h].step = "store"
    /\ Store(h)
    /\ W!UpdateStatus(request[h].task, "RESTARTING")
    /\ Answer(h)
    /\ UNCHANGED <<origin, replica, known, restore, raced>>

-----------------------------------------------------------------------------
(* StopTask. *)

StopTakes(h, t) ==
    /\ Accepting(h) /\ t \in known
    /\ request' = [request EXCEPT ![h] =
          [op |-> "stop", task |-> t, step |-> "tell", stopper |-> stoppers[t]]]
    /\ stoppers' = [stoppers EXCEPT ![t] = None]
    /\ Race(t, "restart")
    /\ UNCHANGED <<status, worker, origin, replica, known, restore>>

StopTells(h) ==
    /\ request[h] # None /\ request[h].op = "stop" /\ request[h].step = "tell"
    /\ Kill(h)
    /\ Step(h, "store")
    /\ UNCHANGED <<status, origin, replica, stoppers, known, restore, raced>>

StopRemoves(h) ==
    /\ request[h] # None /\ request[h].op = "stop" /\ request[h].step = "store"
    /\ status' = [status EXCEPT ![request[h].task] = None]
    /\ Answer(h)
    /\ UNCHANGED <<worker, origin, replica, stoppers, known, restore, raced>>

-----------------------------------------------------------------------------
(* The daemon is killed and started again: what its task file then holds   *)
(* is up to TaskStore.                                                     *)
Crash ==
    /\ MayCrash
    /\ worker' = [w \in Worker |-> None]
    /\ status' = [t \in Task |-> None]
    /\ stoppers' = [t \in Task |-> None]
    /\ request' = [h \in Handler |-> None]
    /\ \E saved \in SUBSET known : restore' = [Restored EXCEPT !.todo = saved]
    /\ raced' = {}
    /\ UNCHANGED <<origin, replica, known>>

(* The worker runs at once, and its task is inserted after that.           *)
RestoreSpawns ==
    /\ restore.task = None
    /\ \E t \in restore.todo, w \in Free :
          /\ worker' = [worker EXCEPT ![w] = W!NewWorker(t)]
          /\ restore' = [todo |-> restore.todo \ {t}, task |-> t, stopper |-> w]
    /\ UNCHANGED <<status, origin, replica, stoppers, request, known, raced>>

(* Mutant: the kill channel is dropped. *)
InsertTaskOnly(t, w) == worker' = TellAny(w, worker) /\ UNCHANGED stoppers

Insert(t, w) == stoppers' = [stoppers EXCEPT ![t] = w] /\ UNCHANGED worker

(* The status is the one that was saved, whatever the worker has done.     *)
RestoreInserts ==
    /\ restore.task # None
    /\ \E s \in W!Status : status' = [status EXCEPT ![restore.task] = s]
    /\ Insert(restore.task, restore.stopper)
    /\ restore' = [restore EXCEPT !.task = None, !.stopper = None]
    /\ UNCHANGED <<origin, replica, request, known, raced>>

-----------------------------------------------------------------------------
Init ==
    /\ status = [t \in Task |-> None]
    /\ worker = [w \in Worker |-> None]
    /\ origin = [t \in Task |-> 1]
    /\ replica = [t \in Task |-> 0]
    /\ stoppers = [t \in Task |-> None]
    /\ request = [h \in Handler |-> None]
    /\ known = {} /\ raced = {} /\ restore = Restored

Serve(h) == RestartTells(h) \/ RestartSpawns(h) \/ RestartStores(h)
              \/ StopTells(h) \/ StopRemoves(h)

Workers == /\ \/ \E w \in Worker : W!WorkerStep(w)
              \/ \E t \in Task : W!Edit(t)
           /\ UNCHANGED registry

Next ==
    \/ \E h \in Handler : Serve(h) \/ \E t \in Task :
          StartTask(h, t) \/ RestartTakes(h, t) \/ StopTakes(h, t)
    \/ Workers \/ Crash \/ RestoreSpawns \/ RestoreInserts

Spec == Init /\ [][Next]_vars

-----------------------------------------------------------------------------
TypeOK ==
    /\ W!TypeOK
    /\ stoppers \in [Task -> Worker \cup {None}]
    /\ request \in [Handler -> Request \cup {None}]
    /\ known \subseteq Task /\ raced \subseteq known
    /\ restore \in Restore

NoRequest == restore = Restored /\ \A h \in Handler : request[h] = None

(* The workers of t that go on for ever.                                   *)
Staying(t) == {w \in W!Live : W!TaskOf(w) = t /\ ~worker[w].told}

(* When every request is answered, also after a restart of the daemon, a   *)
(* task that is registered has exactly one worker that stays, and its kill *)
(* channel is the one that is stored.                                      *)
EveryTaskIsServed ==
    NoRequest => \A t \in W!Registered : Staying(t) = {stoppers[t]}

(* When every request is answered, no worker stays for a task that is not  *)
(* registered, where no client could stop it: unless a StopTask overlapped *)
(* a RestartTask, which stores its worker whether or not the task is there. *)
OnlyTasksAreServed ==
    NoRequest => \A t \in (Task \ W!Registered) \ raced : Staying(t) = {}

(* Two rsyncs never write one replica at the same time.                    *)
OneRsyncPerTask ==
    \A u, w \in Worker : W!RsyncRunning(u) /\ W!RsyncRunning(w)
                           /\ W!TaskOf(u) = W!TaskOf(w) => u = w

=============================================================================
