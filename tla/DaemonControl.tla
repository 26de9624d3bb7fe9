--------------------------- MODULE DaemonControl ---------------------------
(***************************************************************************)
(* The control of the legacy daemon (src/src/main.rs,                      *)
(* src/src/common/daemon.rs and the start of src/src/server_main.rs): the  *)
(* commands start, stop, restart and status, the pid file, the socket, and *)
(* the servers that are spawned.                                           *)
(*                                                                         *)
(* The pid file is a name for an inode.  A server opens it, locks the      *)
(* inode for as long as it lives and writes its pid there (the crate       *)
(* daemonize); the commands read and unlink the name and know nothing of   *)
(* the lock.                                                               *)
(***************************************************************************)
CONSTANTS
    Terminal,    \* where commands are given
    Pid,
    Inode,       \* the inodes that the pid file's name may have
    None,
    Stale,       \* a socket that nobody listens on
    Calm,        \* one command at a time, and no stop, restart or crash while
                 \* a server starts up
    MayCrash     \* a server may be killed by others than stop and restart

ASSUME ControlAssumption ==
    /\ None \notin Pid \cup Inode
    /\ Stale \notin Pid \cup {None}
    /\ {Calm, MayCrash} \subseteq BOOLEAN

VARIABLES
    command,   \* what each terminal is doing
    server,    \* the server process with each pid
    pidfile,   \* the inode called .sync_daemon.pid
    content,   \* the pid written in each inode
    socket     \* who listens at .sync_daemon.sock

vars == <<command, server, pidfile, content, socket>>

-----------------------------------------------------------------------------
Op      == {"start", "stop", "restart", "status"}
Command == [op: Op, at: {"check", "remove", "spawn"}, pid: Pid \cup {None}]

(* What a server does next.                                                *)
StartUp == {"open", "lock", "write", "unlink", "bind"}
Server  == [at: StartUp \cup {"serve"}, file: Inode \cup {None}]

(* None is no record of any kind.                                          *)
ASSUME NoneAssumption == None \notin Command \cup Server

Alive(p)   == server[p] # None
At(p, l)   == Alive(p) /\ server[p].at = l
Serving(p) == At(p, "serve")
Starting   == {p \in Pid : Alive(p) /\ ~Serving(p)}

HoldsLock(p, i) ==
    Alive(p) /\ server[p].file = i /\ server[p].at \notin {"open", "lock"}

Goto(p, l) == server' = [server EXCEPT ![p].at = l]

(* The process ends: its lock is free, its socket stays as a file.         *)
Ends(p) ==
    /\ server' = [server EXCEPT ![p] = None]
    /\ socket' = IF socket = p THEN Stale ELSE socket

-----------------------------------------------------------------------------
(* The commands.  The dashboard begins as start does. *)

Done(t)     == command' = [command EXCEPT ![t] = None]
Then(t, l)  == command' = [command EXCEPT ![t].at = l]
Doing(t, l) == command[t] # None /\ command[t].at = l

NoCommand == \A t \in Terminal : command[t] = None

(* get_server_pid: nothing when there is no file or no pid in it yet.      *)
ServerPid == IF pidfile = None THEN None ELSE content[pidfile]

Begin(t, op) ==
    /\ command[t] = None
    /\ Calm => NoCommand /\ (op \in {"stop", "restart"} => Starting = {})
    /\ IF ServerPid # None
         THEN command' = [command EXCEPT ![t] = [op |-> op, at |-> "check", pid |-> ServerPid]]
         ELSE IF op \in {"start", "restart"}
           THEN command' = [command EXCEPT ![t] = [op |-> op, at |-> "spawn", pid |-> None]]
           ELSE UNCHANGED command
    /\ UNCHANGED <<server, pidfile, content, socket>>

(* is_server_running looks for the process.                                *)
Check(t) ==
    /\ Doing(t, "check") /\ command[t].op \in {"start", "status"}
    /\ IF Alive(command[t].pid) THEN Done(t) ELSE Then(t, "remove")
    /\ UNCHANGED <<server, pidfile, content, socket>>

(* Mutant: the file is removed and the process left alone. *)
KillNothing(t) == UNCHANGED <<server, socket>>

Kill(t) == IF Alive(command[t].pid) THEN Ends(command[t].pid) ELSE UNCHANGED <<server, socket>>

(* kill_server looks for the process and kills it.                         *)
CheckAndKill(t) ==
    /\ Doing(t, "check") /\ command[t].op \in {"stop", "restart"}
    /\ Kill(t)
    /\ Then(t, "remove")
    /\ UNCHANGED <<pidfile, content>>

RemovePidFile == pidfile' = None

Remove(t) ==
    /\ Doing(t, "remove")
    /\ RemovePidFile
    /\ IF command[t].op \in {"start", "restart"} THEN Then(t, "spawn") ELSE Done(t)
    /\ UNCHANGED <<server, content, socket>>

SpawnServer(t) ==
    /\ Doing(t, "spawn")
    /\ \E p \in Pid :
          /\ ~Alive(p)
          /\ server' = [server EXCEPT ![p] = [at |-> "open", file |-> None]]
    /\ Done(t)
    /\ UNCHANGED <<pidfile, content, socket>>

-----------------------------------------------------------------------------
(* A server that starts up: Daemonize::start, then run_server. *)

Unused(i) == i # pidfile /\ \A p \in Pid : Alive(p) => server[p].file # i

OpenPidFile(p) ==
    /\ At(p, "open")
    /\ \E i \in Inode :
          /\ i = pidfile \/ (pidfile = None /\ Unused(i))
          /\ pidfile' = i
          /\ content' = IF pidfile = None THEN [content EXCEPT ![i] = None] ELSE content
          /\ server' = [server EXCEPT ![p] = [at |-> "lock", file |-> i]]
    /\ UNCHANGED <<command, socket>>

(* Mutant: the file is opened and not locked. *)
LockFree(p) == TRUE

Lockable(p) == \A q \in Pid : ~HoldsLock(q, server[p].file)

(* Mutant: a lock that waits until it gets the file.                       *)
LockPidFileWaits(p) ==
    /\ At(p, "lock")
    /\ Lockable(p)
    /\ Goto(p, "write")
    /\ UNCHANGED <<command, pidfile, content, socket>>

LockPidFile(p) ==
    /\ At(p, "lock")
    /\ IF Lockable(p) THEN Goto(p, "write") /\ UNCHANGED socket ELSE Ends(p)
    /\ UNCHANGED <<command, pidfile, content>>

WritePid(p) ==
    /\ At(p, "write")
    /\ content' = [content EXCEPT ![server[p].file] = p]
    /\ Goto(p, "unlink")
    /\ UNCHANGED <<command, pidfile, socket>>

(* Mutant: the socket of the server before stays. *)
LeaveSocket == UNCHANGED socket

RemoveSocket == socket' = None

UnlinkSocket(p) ==
    /\ At(p, "unlink")
    /\ RemoveSocket
    /\ Goto(p, "bind")
    /\ UNCHANGED <<command, pidfile, content>>

(* A socket file that is there makes bind fail, and the server ends.       *)
Bind(p) ==
    /\ At(p, "bind")
    /\ IF socket = None THEN socket' = p /\ Goto(p, "serve") ELSE Ends(p)
    /\ UNCHANGED <<command, pidfile, content>>

Crash(p) ==
    /\ MayCrash
    /\ Alive(p)
    /\ Calm => NoCommand /\ Starting = {}
    /\ Ends(p)
    /\ UNCHANGED <<command, pidfile, content>>

Init ==
    /\ command = [t \in Terminal |-> None]
    /\ server = [p \in Pid |-> None]
    /\ pidfile = None
    /\ content = [i \in Inode |-> None]
    /\ socket = None

CommandStep(t) == Check(t) \/ CheckAndKill(t) \/ Remove(t) \/ SpawnServer(t)

ServerStep(p) == OpenPidFile(p) \/ LockPidFile(p) \/ WritePid(p) \/ UnlinkSocket(p) \/ Bind(p)

Step ==
    \/ \E t \in Terminal : CommandStep(t) \/ \E op \in Op : Begin(t, op)
    \/ \E p \in Pid : ServerStep(p) \/ Crash(p)

Spec == Init /\ [][Step]_vars

(* Commands and servers are processes that the kernel schedules.           *)
CommandFairness(t) == WF_vars(CommandStep(t))
ServerFairness(p)  == WF_vars(ServerStep(p))

FairSpec ==
    /\ Spec
    /\ \A t \in Terminal : CommandFairness(t)
    /\ \A p \in Pid : ServerFairness(p)

-----------------------------------------------------------------------------
TypeOK ==
    /\ command \in [Terminal -> Command \cup {None}]
    /\ server \in [Pid -> Server \cup {None}]
    /\ pidfile \in Inode \cup {None}
    /\ content \in [Inode -> Pid \cup {None}]
    /\ socket \in Pid \cup {None, Stale}

(* No two servers serve at the same time: each would start a worker for    *)
(* every task of the task file, and its rsyncs.                            *)
OneServer == \A p, q \in Pid : Serving(p) /\ Serving(q) => p = q

(* A server that serves is the one that clients reach through the socket   *)
(* and that stop finds through the pid file, except while a command that   *)
(* has killed it or replaces it is under way.                              *)
ServerIsInReach ==
    \A p \in Pid : Serving(p) => ServerPid = p /\ socket = p

(* A server that starts up never waits, for the lock or for the socket,    *)
(* and no more does a command, at least while no server starts up.         *)
NeverStuck ==
    /\ \A p \in Starting : ENABLED <<ServerStep(p)>>_vars
    /\ Starting = {} =>
          \A t \in Terminal : command[t] # None => ENABLED <<CommandStep(t)>>_vars

(* A start or restart that comes to spawning is followed by a server that  *)
(* serves.                                                                 *)
SpawnServes ==
    \A t \in Terminal : Doing(t, "spawn") ~> \E p \in Pid : Serving(p)

-----------------------------------------------------------------------------
(* The inductive invariant behind OneServer, when all is calm.             *)

Locked(p) == Alive(p) /\ server[p].at \notin {"open", "lock"}

(* No name is taken away from under a server, so that all of them contend  *)
(* for the lock of one inode.                                              *)
OneInode == \A p \in Pid : Alive(p) /\ ~At(p, "open") =>
    pidfile # None /\ server[p].file = pidfile

OneLock == \A p, q \in Pid : Locked(p) /\ Locked(q) => p = q

NoServer == \A p \in Pid : ~Alive(p)

(* The pid in the file is that of the server that has written it, or is    *)
(* left from one that was killed and then there is no server at all.       *)
PidIsCurrent ==
    /\ \A p \in Pid : At(p, "unlink") \/ At(p, "bind") \/ Serving(p) => ServerPid = p
    /\ ServerPid # None => NoServer \/ Locked(ServerPid)

SocketIsCurrent == \A p \in Pid :
    (Serving(p) => socket = p) /\ (At(p, "bind") => socket = None)

CommandInOrder ==
    /\ \A t, u \in Terminal : command[t] # None /\ command[u] # None => t = u
    /\ \A t \in Terminal :
          /\ Doing(t, "check") => ServerPid = command[t].pid /\ command[t].pid # None
          /\ Doing(t, "check") /\ command[t].op \in {"stop", "restart"} => Starting = {}
          /\ Doing(t, "remove") => NoServer
          /\ Doing(t, "spawn") => ServerPid = None \/ Locked(ServerPid)

IndInv ==
    /\ TypeOK /\ OneInode /\ OneLock /\ PidIsCurrent /\ SocketIsCurrent
    /\ CommandInOrder

=============================================================================
