------------------------ MODULE DaemonControlProofs ------------------------
(***************************************************************************)
(* Proofs about DaemonControl: when commands come one at a time, and stop, *)
(* restart and crashes find no server that starts up, at most one server   *)
(* serves, and it is in reach of clients and of stop, for every set of     *)
(* terminals, pids and inodes and however many servers are spawned; and    *)
(* what remains of that when commands and kills come at any time.          *)
(***************************************************************************)
EXTENDS DaemonControl, TLAPS

USE ControlAssumption

(* What a server is after a step to its next place.                        *)
LEMMA GotoMoves ==
    ASSUME TypeOK, NEW p \in Pid, Alive(p), NEW l \in {"write", "unlink", "bind", "serve"}, Goto(p, l)
    PROVE  /\ server' \in [Pid -> Server \cup {None}]
           /\ server'[p].at = l /\ server'[p].file = server[p].file /\ server'[p] # None
           /\ \A q \in Pid \ {p} : server'[q] = server[q]
<1>1. server[p] \in Server
    BY DEF TypeOK, Alive
<1>2. server'[p] = [server[p] EXCEPT !.at = l]
    BY DEF TypeOK, Goto
<1>3. [server[p] EXCEPT !.at = l] \in Server
    BY <1>1 DEF Server, StartUp
<1>4. \A q \in Pid \ {p} : server'[q] = server[q]
    BY DEF TypeOK, Goto
<1>5. server' \in [Pid -> Server \cup {None}]
    BY <1>2, <1>3 DEF TypeOK, Goto
<1>6. server'[p].at = l /\ server'[p].file = server[p].file
    BY <1>1, <1>2 DEF Server
<1> QED
    BY <1>2, <1>3, <1>4, <1>5, <1>6, NoneAssumption

(* What is left when a server has ended.                                   *)
LEMMA EndsLeaves ==
    ASSUME TypeOK, NEW p \in Pid, Ends(p)
    PROVE  /\ server' \in [Pid -> Server \cup {None}] /\ socket' \in Pid \cup {None, Stale}
           /\ server'[p] = None
           /\ \A q \in Pid \ {p} : server'[q] = server[q]
           /\ socket # p => socket' = socket
BY DEF TypeOK, Ends

(* Nothing is there yet.                                                   *)
LEMMA InitIndInv == Init => IndInv
<1> SUFFICES ASSUME Init PROVE IndInv
    OBVIOUS
<1>1. TypeOK
    BY DEF Init, TypeOK
<1>2. NoServer /\ ServerPid = None
    BY DEF Init, NoServer, Alive, ServerPid
<1>3. OneInode /\ OneLock /\ PidIsCurrent /\ SocketIsCurrent
    BY <1>2 DEF NoServer, OneInode, OneLock, PidIsCurrent, SocketIsCurrent, Locked, Serving, At
<1>4. CommandInOrder
    BY DEF Init, CommandInOrder, Doing
<1> QED
    BY <1>1, <1>3, <1>4 DEF IndInv

(* A command begins while no other is under way; what it has read is the   *)
(* pid in the file.                                                        *)
LEMMA BeginInv ==
    ASSUME IndInv, Calm, NEW t \in Terminal, NEW op \in Op, Begin(t, op)
    PROVE  IndInv'
<1>1. /\ UNCHANGED <<server, pidfile, content, socket>>
      /\ NoCommand /\ (op \in {"stop", "restart"} => Starting = {})
    BY DEF Begin
<1>2. ServerPid \in Pid \cup {None}
    BY DEF IndInv, TypeOK, ServerPid
<1>3. /\ OneInode' /\ OneLock' /\ PidIsCurrent' /\ SocketIsCurrent'
    BY <1>1 DEF IndInv, OneInode, OneLock, PidIsCurrent, SocketIsCurrent, Locked, Serving,
                At, Alive, ServerPid, NoServer
<1>4. CASE command' = command
  <2> QED
    BY <1>1, <1>3, <1>4 DEF IndInv, TypeOK, CommandInOrder, Doing, NoCommand
<1>5. CASE ServerPid # None /\
           command' = [command EXCEPT ![t] = [op |-> op, at |-> "check", pid |-> ServerPid]]
  <2>1. [op |-> op, at |-> "check", pid |-> ServerPid] \in Command
    BY <1>2, <1>5 DEF Command
  <2>2. TypeOK'
    BY <1>1, <1>5, <2>1 DEF IndInv, TypeOK
  <2>3. /\ command'[t] = [op |-> op, at |-> "check", pid |-> ServerPid]
        /\ \A u \in Terminal \ {t} : command'[u] = None
    BY <1>1, <1>5 DEF IndInv, TypeOK, NoCommand
  <2>4. ServerPid' = ServerPid /\ Starting' = Starting
    BY <1>1 DEF ServerPid, Starting, Alive, Serving, At
  <2>5. CommandInOrder'
    BY <1>1, <1>5, <2>3, <2>4 DEF CommandInOrder, Doing
  <2> QED
    BY <1>3, <2>2, <2>5 DEF IndInv
<1>6. CASE ServerPid = None /\
           command' = [command EXCEPT ![t] = [op |-> op, at |-> "spawn", pid |-> None]]
  <2>1. [op |-> op, at |-> "spawn", pid |-> None] \in Command
    BY DEF Command
  <2>2. TypeOK'
    BY <1>1, <1>6, <2>1 DEF IndInv, TypeOK
  <2>3. /\ command'[t] = [op |-> op, at |-> "spawn", pid |-> None]
        /\ \A u \in Terminal \ {t} : command'[u] = None
    BY <1>1, <1>6 DEF IndInv, TypeOK, NoCommand
  <2>4. ServerPid' = None
    BY <1>1, <1>6 DEF ServerPid
  <2>5. CommandInOrder'
    BY <2>3, <2>4 DEF CommandInOrder, Doing
  <2> QED
    BY <1>3, <2>2, <2>5 DEF IndInv
<1> QED
    BY <1>4, <1>5, <1>6 DEF Begin

(* A command that goes on is where it goes, and the others stay away.      *)
LEMMA ThenMoves ==
    ASSUME TypeOK, NEW t \in Terminal, command[t] # None,
           NEW l \in {"check", "remove", "spawn"}, Then(t, l)
    PROVE  /\ command' \in [Terminal -> Command \cup {None}]
           /\ command'[t].at = l /\ command'[t].op = command[t].op
           /\ command'[t].pid = command[t].pid
           /\ \A u \in Terminal \ {t} : command'[u] = command[u]
<1>1. command[t] \in Command
    BY DEF TypeOK
<1>2. command'[t] = [command[t] EXCEPT !.at = l]
    BY DEF TypeOK, Then
<1>3. [command[t] EXCEPT !.at = l] \in Command
    BY <1>1 DEF Command
<1>4. command' \in [Terminal -> Command \cup {None}]
    BY <1>2, <1>3 DEF TypeOK, Then
<1>5. \A u \in Terminal \ {t} : command'[u] = command[u]
    BY DEF TypeOK, Then
<1>6. command'[t].at = l /\ command'[t].op = command[t].op /\ command'[t].pid = command[t].pid
    BY <1>1, <1>2 DEF Command
<1> QED
    BY <1>4, <1>5, <1>6

(* The only command is done.                                               *)
LEMMA DoneLeaves ==
    ASSUME TypeOK, CommandInOrder, NEW t \in Terminal, command[t] # None, Done(t)
    PROVE  command' \in [Terminal -> Command \cup {None}] /\ NoCommand'
BY DEF TypeOK, CommandInOrder, Done, NoCommand

(* A pid in the file that is no process' means that there is no server.    *)
LEMMA DeadPidNoServer ==
    ASSUME PidIsCurrent, ServerPid # None, ~Alive(ServerPid)
    PROVE  NoServer
BY DEF PidIsCurrent, Locked

LEMMA CheckInv ==
    ASSUME IndInv, NEW t \in Terminal, Check(t)
    PROVE  IndInv'
<1>1. /\ UNCHANGED <<server, pidfile, content, socket>>
      /\ command[t] # None /\ command[t].at = "check"
      /\ ServerPid = command[t].pid /\ command[t].pid # None
    BY DEF Check, Doing, IndInv, CommandInOrder
<1>2. /\ OneInode' /\ OneLock' /\ PidIsCurrent' /\ SocketIsCurrent'
    BY <1>1 DEF IndInv, OneInode, OneLock, PidIsCurrent, SocketIsCurrent, Locked, Serving,
                At, Alive, ServerPid, NoServer
<1>3. TypeOK' /\ CommandInOrder'
  <2>1. CASE Done(t)
    <3>1. command' \in [Terminal -> Command \cup {None}] /\ NoCommand'
        BY <1>1, <2>1, DoneLeaves DEF IndInv
    <3> QED
        BY <1>1, <3>1 DEF IndInv, TypeOK, NoCommand, CommandInOrder, Doing
  <2>2. CASE ~Alive(command[t].pid) /\ Then(t, "remove")
    <3>1. /\ command' \in [Terminal -> Command \cup {None}]
          /\ command'[t].at = "remove"
          /\ \A u \in Terminal \ {t} : command'[u] = command[u]
        BY <1>1, <2>2, ThenMoves DEF IndInv
    <3>2. \A u \in Terminal \ {t} : command'[u] = None
        BY <1>1, <3>1 DEF IndInv, CommandInOrder
    <3>3. NoServer'
        BY <1>1, <2>2, DeadPidNoServer DEF IndInv, NoServer, Alive
    <3> QED
        BY <1>1, <3>1, <3>2, <3>3 DEF IndInv, TypeOK, CommandInOrder, Doing
  <2> QED
    BY <2>1, <2>2 DEF Check
<1> QED
    BY <1>2, <1>3 DEF IndInv

(* Nobody starts up, so the server that is killed was the only one.        *)
LEMMA KillInv ==
    ASSUME IndInv, NEW t \in Terminal, CheckAndKill(t)
    PROVE  IndInv'
<1> DEFINE P == command[t].pid
<1>1. /\ UNCHANGED <<pidfile, content>>
      /\ command[t] # None /\ command[t].at = "check"
      /\ ServerPid = P /\ P # None /\ Starting = {}
    BY DEF CheckAndKill, Doing, IndInv, CommandInOrder
<1>2. P \in Pid
    BY <1>1 DEF IndInv, TypeOK, ServerPid
<1>3. /\ server' \in [Pid -> Server \cup {None}] /\ socket' \in Pid \cup {None, Stale}
      /\ NoServer'
  <2>1. CASE Alive(P)
    <3>1. Ends(P)
        BY <2>1 DEF CheckAndKill, Kill
    <3>2. \A q \in Pid : Alive(q) => q = P
        BY <1>1, <1>2, <2>1 DEF Starting, IndInv, OneLock, Locked, Serving, At
    <3> QED
        BY <1>2, <3>1, <3>2, EndsLeaves DEF IndInv, NoServer, Alive
  <2>2. CASE ~Alive(P)
    <3>1. UNCHANGED <<server, socket>>
        BY <2>2 DEF CheckAndKill, Kill
    <3> QED
        BY <1>1, <2>2, <3>1, DeadPidNoServer DEF IndInv, TypeOK, NoServer, Alive
  <2> QED
    BY <2>1, <2>2
<1>4. /\ command' \in [Terminal -> Command \cup {None}]
      /\ command'[t].at = "remove"
      /\ \A u \in Terminal \ {t} : command'[u] = command[u]
    BY <1>1, ThenMoves DEF IndInv, CheckAndKill
<1>5. \A u \in Terminal \ {t} : command'[u] = None
    BY <1>1, <1>4 DEF IndInv, CommandInOrder
<1>6. TypeOK'
    BY <1>1, <1>3, <1>4 DEF IndInv, TypeOK
<1>7. CommandInOrder'
    BY <1>3, <1>4, <1>5 DEF CommandInOrder, Doing
<1>8. OneInode' /\ OneLock' /\ PidIsCurrent' /\ SocketIsCurrent'
    BY <1>3 DEF NoServer, OneInode, OneLock, PidIsCurrent, SocketIsCurrent, Locked, Serving, At
<1> QED
    BY <1>6, <1>7, <1>8 DEF IndInv

LEMMA RemoveInv ==
    ASSUME IndInv, NEW t \in Terminal, Remove(t)
    PROVE  IndInv'
<1>1. /\ UNCHANGED <<server, content, socket>> /\ pidfile' = None
      /\ command[t] # None /\ command[t].at = "remove" /\ NoServer
    BY DEF Remove, RemovePidFile, Doing, IndInv, CommandInOrder
<1>2. NoServer' /\ ServerPid' = None
    BY <1>1 DEF NoServer, Alive, ServerPid
<1>3. OneInode' /\ OneLock' /\ PidIsCurrent' /\ SocketIsCurrent'
    BY <1>2 DEF NoServer, OneInode, OneLock, PidIsCurrent, SocketIsCurrent, Locked, Serving, At
<1>4. TypeOK' /\ CommandInOrder'
  <2>1. CASE Done(t)
    <3>1. command' \in [Terminal -> Command \cup {None}] /\ NoCommand'
        BY <1>1, <2>1, DoneLeaves DEF IndInv
    <3> QED
        BY <1>1, <3>1 DEF IndInv, TypeOK, NoCommand, CommandInOrder, Doing
  <2>2. CASE Then(t, "spawn")
    <3>1. /\ command' \in [Terminal -> Command \cup {None}]
          /\ command'[t].at = "spawn"
          /\ \A u \in Terminal \ {t} : command'[u] = command[u]
        BY <1>1, <2>2, ThenMoves DEF IndInv
    <3>2. \A u \in Terminal \ {t} : command'[u] = None
        BY <1>1, <3>1 DEF IndInv, CommandInOrder
    <3> QED
        BY <1>1, <1>2, <3>1, <3>2 DEF IndInv, TypeOK, CommandInOrder, Doing
  <2> QED
    BY <2>1, <2>2 DEF Remove
<1> QED
    BY <1>3, <1>4 DEF IndInv

(* A new server has no file yet.                                           *)
LEMMA SpawnInv ==
    ASSUME IndInv, NEW t \in Terminal, SpawnServer(t)
    PROVE  IndInv'
<1>1. PICK p \in Pid :
         ~Alive(p) /\ server' = [server EXCEPT ![p] = [at |-> "open", file |-> None]]
    BY DEF SpawnServer
<1>2. /\ UNCHANGED <<pidfile, content, socket>>
      /\ command[t] # None /\ command[t].at = "spawn"
      /\ ServerPid = None \/ Locked(ServerPid)
    BY DEF SpawnServer, Doing, IndInv, CommandInOrder
<1>3. command' \in [Terminal -> Command \cup {None}] /\ NoCommand'
    BY <1>2, DoneLeaves DEF IndInv, SpawnServer
<1>4. [at |-> "open", file |-> None] \in Server
    BY DEF Server, StartUp
<1>5. /\ server' \in [Pid -> Server \cup {None}]
      /\ server'[p] = [at |-> "open", file |-> None]
      /\ \A q \in Pid \ {p} : server'[q] = server[q]
    BY <1>1, <1>4 DEF IndInv, TypeOK
<1>6. TypeOK' /\ CommandInOrder'
    BY <1>2, <1>3, <1>5 DEF IndInv, TypeOK, NoCommand, CommandInOrder, Doing
<1>7. ServerPid' = ServerPid /\ ServerPid \in Pid \cup {None}
    BY <1>2 DEF ServerPid, IndInv, TypeOK
<1>8. server'[p].at = "open"
    BY <1>5
<1>9. OneInode' /\ OneLock' /\ SocketIsCurrent'
    BY <1>2, <1>5, <1>8 DEF IndInv, OneInode, OneLock, SocketIsCurrent, Locked, Serving, At, Alive
<1>10. PidIsCurrent'
    BY <1>1, <1>2, <1>5, <1>7 DEF IndInv, PidIsCurrent, Locked, Serving, At, Alive
<1> QED
    BY <1>6, <1>9, <1>10 DEF IndInv

(* A server that starts up writes only the pid that a command has read, if *)
(* one is in the file.                                                     *)
LEMMA StartUpKeepsCommand ==
    ASSUME CommandInOrder, NEW p \in Pid, Alive(p), ~Serving(p), UNCHANGED command,
           ServerPid # None => ServerPid' = ServerPid,
           ServerPid' = None \/ Locked(ServerPid)'
    PROVE  CommandInOrder'
<1>1. Starting # {} /\ ~NoServer
    BY DEF Starting, NoServer
<1> QED
    BY <1>1 DEF CommandInOrder, Doing

(* While a server is there, a pid in the file is that of the lock's holder.*)
LEMMA PidIsLocked ==
    ASSUME PidIsCurrent, NEW p \in Pid, Alive(p), ServerPid # None
    PROVE  Locked(ServerPid)
BY DEF PidIsCurrent, NoServer

(* A server opens the file of that name, or makes one when there is no     *)
(* server past that point.                                                 *)
LEMMA OpenInv ==
    ASSUME IndInv, NEW p \in Pid, OpenPidFile(p)
    PROVE  IndInv'
<1>1. PICK i \in Inode :
         /\ i = pidfile \/ (pidfile = None /\ Unused(i))
         /\ pidfile' = i
         /\ content' = IF pidfile = None THEN [content EXCEPT ![i] = None] ELSE content
         /\ server' = [server EXCEPT ![p] = [at |-> "lock", file |-> i]]
    BY DEF OpenPidFile
<1>2. UNCHANGED <<command, socket>> /\ Alive(p) /\ server[p].at = "open"
    BY DEF OpenPidFile, At
<1>3. [at |-> "lock", file |-> i] \in Server
    BY DEF Server, StartUp
<1>4. /\ server' \in [Pid -> Server \cup {None}]
      /\ server'[p] = [at |-> "lock", file |-> i] /\ server'[p] # None
      /\ \A q \in Pid \ {p} : server'[q] = server[q]
    BY <1>1, <1>3, NoneAssumption DEF IndInv, TypeOK
<1>5. server'[p].at = "lock" /\ server'[p].file = i
    BY <1>4
<1>6. TypeOK'
    BY <1>1, <1>2, <1>4 DEF IndInv, TypeOK
<1>7. \A q \in Pid : Alive(q) /\ ~At(q, "open") => server[q].file = i
    BY <1>1 DEF IndInv, OneInode
<1>8. OneInode'
    BY <1>1, <1>4, <1>5, <1>7 DEF OneInode, At, Alive
<1>9. \A q \in Pid : Locked(q)' <=> Locked(q)
    BY <1>2, <1>4, <1>5 DEF Locked, Alive
<1>10. OneLock' /\ SocketIsCurrent'
    BY <1>2, <1>4, <1>5, <1>9 DEF IndInv, OneLock, SocketIsCurrent, Serving, At, Alive
<1>11. ServerPid \in Pid \cup {None} /\ ServerPid' = ServerPid
  <2>1. CASE pidfile = None
        BY <1>1, <2>1 DEF ServerPid, IndInv, TypeOK
  <2>2. CASE pidfile # None
        BY <1>1, <2>2 DEF ServerPid, IndInv, TypeOK
  <2> QED
    BY <2>1, <2>2
<1>12. ServerPid' = None \/ Locked(ServerPid)'
  <2>1. ServerPid # None => Locked(ServerPid) /\ ServerPid \in Pid
        BY <1>2, <1>11, PidIsLocked DEF IndInv
  <2> QED
    BY <1>9, <1>11, <2>1
<1>13. PidIsCurrent'
    BY <1>2, <1>4, <1>5, <1>11, <1>12 DEF IndInv, PidIsCurrent, Serving, At, Alive
<1>14. CommandInOrder'
    BY <1>2, <1>11, <1>12, StartUpKeepsCommand DEF IndInv, Serving, At
<1> QED
    BY <1>6, <1>8, <1>10, <1>13, <1>14 DEF IndInv

(* The lock is free only when nobody has passed it, since all the servers  *)
(* that have opened the file have opened the same one.                     *)
LEMMA LockInv ==
    ASSUME IndInv, NEW p \in Pid, LockPidFile(p)
    PROVE  IndInv'
<1>1. UNCHANGED <<command, pidfile, content>> /\ Alive(p) /\ server[p].at = "lock"
    BY DEF LockPidFile, At
<1>2. ServerPid' = ServerPid /\ ServerPid \in Pid \cup {None}
    BY <1>1 DEF ServerPid, IndInv, TypeOK
<1>3. \A q \in Pid : Locked(q) => HoldsLock(q, server[p].file)
    BY <1>1 DEF IndInv, OneInode, Locked, HoldsLock, At
<1>4. CASE Lockable(p)
  <2>1. Goto(p, "write") /\ UNCHANGED socket /\ \A q \in Pid : ~Locked(q)
        BY <1>3, <1>4 DEF LockPidFile, Lockable
  <2>2. /\ server' \in [Pid -> Server \cup {None}]
        /\ server'[p].at = "write" /\ server'[p].file = server[p].file /\ server'[p] # None
        /\ \A q \in Pid \ {p} : server'[q] = server[q]
        BY <1>1, <2>1, GotoMoves DEF IndInv
  <2>3. ServerPid' = None
        BY <1>1, <1>2, <2>1, PidIsLocked DEF IndInv
  <2>4. TypeOK' /\ OneInode'
        BY <1>1, <2>1, <2>2 DEF IndInv, TypeOK, OneInode, At, Alive
  <2>5. OneLock' /\ SocketIsCurrent'
        BY <2>1, <2>2 DEF IndInv, OneLock, SocketIsCurrent, Locked, Serving, At, Alive
  <2>6. PidIsCurrent'
    <3>1. \A q \in Pid : ~(At(q, "unlink") \/ At(q, "bind") \/ Serving(q))'
        BY <2>1, <2>2 DEF Locked, Serving, At, Alive
    <3> QED
        BY <2>3, <3>1 DEF PidIsCurrent
  <2>7. CommandInOrder'
        BY <1>1, <1>2, <2>3, StartUpKeepsCommand DEF IndInv, Serving, At
  <2> QED
    BY <2>4, <2>5, <2>6, <2>7 DEF IndInv
<1>5. CASE ~Lockable(p)
  <2>1. Ends(p) /\ \E q \in Pid : Locked(q)
        BY <1>5 DEF LockPidFile, Lockable, HoldsLock, Locked
  <2>2. /\ server' \in [Pid -> Server \cup {None}] /\ socket' \in Pid \cup {None, Stale}
        /\ server'[p] = None
        /\ \A q \in Pid \ {p} : server'[q] = server[q]
        /\ socket # p => socket' = socket
        BY <2>1, EndsLeaves DEF IndInv
  <2>3. \A q \in Pid : Locked(q)' <=> Locked(q)
        BY <1>1, <2>2 DEF Locked, Alive
  <2>4. TypeOK' /\ OneInode' /\ OneLock'
        BY <1>1, <2>2, <2>3 DEF IndInv, TypeOK, OneInode, OneLock, At, Alive
  <2>5. SocketIsCurrent'
        BY <2>2 DEF IndInv, SocketIsCurrent, Serving, At, Alive
  <2>6. ServerPid' = None \/ Locked(ServerPid)'
        BY <1>1, <1>2, <2>3, PidIsLocked DEF IndInv
  <2>7. PidIsCurrent'
        BY <1>2, <2>2, <2>6 DEF IndInv, PidIsCurrent, Serving, At, Alive
  <2>8. CommandInOrder'
        BY <1>1, <1>2, <2>6, StartUpKeepsCommand DEF IndInv, Serving, At
  <2> QED
    BY <2>4, <2>5, <2>7, <2>8 DEF IndInv
<1> QED
    BY <1>4, <1>5

(* The holder of the lock writes its pid, and finds None or that pid there. *)
LEMMA WriteInv ==
    ASSUME IndInv, NEW p \in Pid, WritePid(p)
    PROVE  IndInv'
<1>1. /\ UNCHANGED <<command, pidfile, socket>> /\ Goto(p, "unlink")
      /\ Alive(p) /\ server[p].at = "write" /\ Locked(p)
      /\ content' = [content EXCEPT ![server[p].file] = p]
    BY DEF WritePid, At, Locked
<1>2. pidfile # None /\ server[p].file = pidfile
    BY <1>1 DEF IndInv, OneInode, At
<1>3. /\ server' \in [Pid -> Server \cup {None}]
      /\ server'[p].at = "unlink" /\ server'[p].file = server[p].file /\ server'[p] # None
      /\ \A q \in Pid \ {p} : server'[q] = server[q]
    BY <1>1, GotoMoves DEF IndInv
<1>4. ServerPid' = p
    BY <1>1, <1>2 DEF ServerPid, IndInv, TypeOK
<1>5. TypeOK' /\ OneInode'
    BY <1>1, <1>3 DEF IndInv, TypeOK, OneInode, At, Alive
<1>6. \A q \in Pid : Locked(q) => q = p
    BY <1>1 DEF IndInv, OneLock
<1>7. \A q \in Pid : Locked(q)' <=> Locked(q)
    BY <1>1, <1>3 DEF Locked, Alive
<1>8. \A q \in Pid : ~(At(q, "bind") \/ Serving(q))' /\ (At(q, "unlink")' => q = p)
    BY <1>3, <1>6 DEF Locked, Serving, At, Alive
<1>9. OneLock' /\ SocketIsCurrent' /\ PidIsCurrent'
    BY <1>1, <1>4, <1>6, <1>7, <1>8 DEF OneLock, SocketIsCurrent, PidIsCurrent
<1>10. ServerPid # None => ServerPid \in Pid /\ ServerPid' = ServerPid
    BY <1>1, <1>4, <1>6, PidIsLocked DEF IndInv, TypeOK, ServerPid
<1>11. CommandInOrder'
    BY <1>1, <1>4, <1>7, <1>10, StartUpKeepsCommand DEF IndInv, Serving, At
<1> QED
    BY <1>5, <1>9, <1>11 DEF IndInv

(* A step of the holder of the lock once its pid is written.               *)
LEMMA HolderInv ==
    ASSUME IndInv, NEW p \in Pid, Alive(p), server[p].at \in {"unlink", "bind"},
           NEW l \in {"bind", "serve"}, Goto(p, l), UNCHANGED <<command, pidfile, content>>,
           socket' \in Pid \cup {None, Stale},
           l = "bind" => socket' = None, l = "serve" => socket' = p
    PROVE  IndInv'
<1>1. Locked(p) /\ ServerPid = p /\ ~Serving(p)
    BY DEF Locked, Serving, At, IndInv, PidIsCurrent
<1>2. /\ server' \in [Pid -> Server \cup {None}]
      /\ server'[p].at = l /\ server'[p].file = server[p].file /\ server'[p] # None
      /\ \A q \in Pid \ {p} : server'[q] = server[q]
    BY GotoMoves DEF IndInv
<1>3. ServerPid' = p
    BY <1>1 DEF ServerPid
<1>4. TypeOK'
    BY <1>2 DEF IndInv, TypeOK
<1>5. OneInode'
    BY <1>2 DEF IndInv, OneInode, At, Alive
<1>6. \A q \in Pid : Locked(q)' <=> Locked(q)
    BY <1>1, <1>2 DEF Locked, Alive
<1>7. \A q \in Pid : Locked(q) => q = p
    BY <1>1 DEF IndInv, OneLock
<1>8. \A q \in Pid : (At(q, "unlink") \/ At(q, "bind") \/ Serving(q))' => q = p
    BY <1>6, <1>7 DEF Locked, Serving, At, Alive
<1>9. (Serving(p)' <=> l = "serve") /\ (At(p, "bind")' <=> l = "bind")
    BY <1>2 DEF Serving, At, Alive
<1>10. OneLock' /\ SocketIsCurrent' /\ PidIsCurrent'
    BY <1>1, <1>3, <1>6, <1>7, <1>8, <1>9 DEF OneLock, SocketIsCurrent, PidIsCurrent
<1>11. CommandInOrder'
    BY <1>1, <1>3, <1>6, StartUpKeepsCommand DEF IndInv
<1> QED
    BY <1>4, <1>5, <1>10, <1>11 DEF IndInv

(* No socket file is there when the holder of the lock binds.              *)
LEMMA BindInv ==
    ASSUME IndInv, NEW p \in Pid, UnlinkSocket(p) \/ Bind(p)
    PROVE  IndInv'
<1>1. CASE UnlinkSocket(p)
    BY <1>1, HolderInv DEF UnlinkSocket, RemoveSocket, At
<1>2. CASE Bind(p)
  <2>1. socket = None
        BY <1>2 DEF Bind, IndInv, SocketIsCurrent
  <2> QED
    BY <1>2, <2>1, HolderInv DEF Bind, At
<1> QED
    BY <1>1, <1>2

(* The server that crashes was the only one.                               *)
LEMMA CrashInv ==
    ASSUME IndInv, Calm, NEW p \in Pid, Crash(p)
    PROVE  IndInv'
<1>1. /\ UNCHANGED <<command, pidfile, content>> /\ NoCommand /\ Starting = {}
      /\ Alive(p) /\ Ends(p)
    BY DEF Crash
<1>2. \A q \in Pid : Alive(q) => q = p
    BY <1>1 DEF Starting, IndInv, OneLock, Locked, Serving, At
<1>3. /\ server' \in [Pid -> Server \cup {None}] /\ socket' \in Pid \cup {None, Stale}
      /\ NoServer'
    BY <1>1, <1>2, EndsLeaves DEF IndInv, NoServer, Alive
<1>4. TypeOK' /\ CommandInOrder'
    BY <1>1, <1>3 DEF IndInv, TypeOK, NoCommand, CommandInOrder, Doing
<1>5. OneInode' /\ OneLock' /\ PidIsCurrent' /\ SocketIsCurrent'
    BY <1>3 DEF NoServer, OneInode, OneLock, PidIsCurrent, SocketIsCurrent, Locked, Serving, At
<1> QED
    BY <1>4, <1>5 DEF IndInv

LEMMA StepInv ==
    ASSUME IndInv, Calm, [Step]_vars
    PROVE  IndInv'
<1>1. ASSUME NEW t \in Terminal, CommandStep(t) PROVE IndInv'
    BY <1>1, CheckInv, KillInv, RemoveInv, SpawnInv DEF CommandStep
<1>2. ASSUME NEW t \in Terminal, NEW op \in Op, Begin(t, op) PROVE IndInv'
    BY <1>2, BeginInv
<1>3. ASSUME NEW p \in Pid, ServerStep(p) PROVE IndInv'
    BY <1>3, OpenInv, LockInv, WriteInv, BindInv DEF ServerStep
<1>4. ASSUME NEW p \in Pid, Crash(p) PROVE IndInv'
    BY <1>4, CrashInv
<1>5. CASE UNCHANGED vars
    BY <1>5 DEF vars, IndInv, TypeOK, OneInode, OneLock, PidIsCurrent, SocketIsCurrent,
                CommandInOrder, Doing, Locked, Serving, At, Alive, ServerPid, NoServer, Starting
<1> QED
    BY <1>1, <1>2, <1>3, <1>4, <1>5 DEF Step

-----------------------------------------------------------------------------
(* The pid file, its lock and the socket stay in step with the server      *)
(* (the commands of main.rs 95-133, the start of server_main.rs 33-48).    *)
THEOREM Invariance == Calm /\ Spec => []IndInv
<1>1. Calm /\ IndInv /\ [Step]_vars => IndInv'
    BY StepInv
<1>2. CASE Calm
  <2>1. IndInv /\ [Step]_vars => IndInv'
        BY <1>1, <1>2
  <2> QED
    BY <2>1, InitIndInv, PTL DEF Spec
<1> QED
    BY <1>2

(* At most one server serves, however often it is started, stopped and     *)
(* killed.                                                                 *)
THEOREM AtMostOneServer == Calm /\ Spec => []OneServer
<1>1. IndInv => OneServer
    BY DEF IndInv, OneLock, OneServer, Locked, Serving, At
<1> QED
    BY <1>1, Invariance, PTL

(* The server that serves has its pid in the pid file and listens at the   *)
(* socket: stop and the clients find it.                                   *)
THEOREM ServerAlwaysInReach == Calm /\ Spec => []ServerIsInReach
<1>1. IndInv => ServerIsInReach
    BY DEF IndInv, PidIsCurrent, SocketIsCurrent, ServerIsInReach
<1> QED
    BY <1>1, Invariance, PTL

-----------------------------------------------------------------------------
(* What holds whatever the commands do to one another.                     *)

CommandsKnowPids == \A t \in Terminal : Doing(t, "check") => command[t].pid \in Pid

FilesAreOpen == \A p \in Pid : Alive(p) /\ ~At(p, "open") => server[p].file \in Inode

(* flock(2): one server holds the lock of an inode.                        *)
OneLockPerFile == \A p, q \in Pid :
    Locked(p) /\ Locked(q) /\ server[p].file = server[q].file => p = q

(* Who connects to the socket reaches a server that serves, or nobody.     *)
SocketIsServed == socket \in Pid => Serving(socket)

AnyOrder == TypeOK /\ CommandsKnowPids /\ FilesAreOpen /\ OneLockPerFile /\ SocketIsServed

LEMMA EndsAnyOrder ==
    ASSUME AnyOrder, NEW p \in Pid, Ends(p), UNCHANGED <<pidfile, content>>,
           CommandsKnowPids', command' \in [Terminal -> Command \cup {None}]
    PROVE  AnyOrder'
<1>1. /\ server' \in [Pid -> Server \cup {None}] /\ server'[p] = None
      /\ \A q \in Pid \ {p} : server'[q] = server[q]
    BY DEF Ends, AnyOrder, TypeOK
<1>2. socket' \in Pid \cup {None, Stale} /\ (socket' \in Pid => socket' = socket /\ socket # p)
    BY DEF Ends, AnyOrder, TypeOK
<1>3. TypeOK'
    BY <1>1, <1>2 DEF AnyOrder, TypeOK
<1>4. FilesAreOpen' /\ OneLockPerFile' /\ SocketIsServed'
    BY <1>1, <1>2 DEF AnyOrder, FilesAreOpen, OneLockPerFile, SocketIsServed, Locked,
                      Serving, At, Alive
<1> QED
    BY <1>3, <1>4 DEF AnyOrder

LEMMA CommandAnyOrder ==
    ASSUME AnyOrder, NEW t \in Terminal,
           CommandStep(t) \/ \E op \in Op : Begin(t, op)
    PROVE  AnyOrder'
<1>1. CASE \E op \in Op : Begin(t, op)
  <2>1. PICK op \in Op : Begin(t, op)
      BY <1>1
  <2>2. ServerPid \in Pid \cup {None}
      BY DEF AnyOrder, TypeOK, ServerPid
  <2>3. command' \in [Terminal -> Command \cup {None}] /\ CommandsKnowPids'
      BY <2>1, <2>2 DEF Begin, AnyOrder, TypeOK, Command, CommandsKnowPids, Doing
  <2>4. UNCHANGED <<server, pidfile, content, socket>>
      BY <2>1 DEF Begin
  <2> QED
      BY <2>3, <2>4 DEF AnyOrder, TypeOK, FilesAreOpen, OneLockPerFile, SocketIsServed,
                        Locked, Serving, At, Alive
<1>2. ASSUME CommandStep(t)
      PROVE  command' \in [Terminal -> Command \cup {None}] /\ CommandsKnowPids'
  <2>1. command[t] # None /\ command[t] \in Command
      BY <1>2 DEF CommandStep, Check, CheckAndKill, Remove, SpawnServer, Doing, AnyOrder, TypeOK
  <2>2. \/ command' = [command EXCEPT ![t] = None]
        \/ command' = [command EXCEPT ![t].at = "remove"]
        \/ command' = [command EXCEPT ![t].at = "spawn"]
      BY <1>2 DEF CommandStep, Check, CheckAndKill, Remove, SpawnServer, Done, Then
  <2>3. /\ [command[t] EXCEPT !.at = "remove"] \in Command
        /\ [command[t] EXCEPT !.at = "spawn"] \in Command
      BY <2>1 DEF Command
  <2> QED
      BY <2>1, <2>2, <2>3 DEF AnyOrder, TypeOK, CommandsKnowPids, Doing, Command
<1>3. CASE CheckAndKill(t)
  <2>1. command[t].pid \in Pid
      BY <1>3 DEF CheckAndKill, AnyOrder, CommandsKnowPids
  <2>2. CASE Alive(command[t].pid)
      BY <1>2, <1>3, <2>1, <2>2, EndsAnyOrder DEF CheckAndKill, CommandStep, Kill
  <2>3. CASE ~Alive(command[t].pid)
    <3>1. UNCHANGED <<server, pidfile, content, socket>>
        BY <1>3, <2>3 DEF CheckAndKill, Kill
    <3> QED
        BY <1>2, <1>3, <3>1
           DEF CommandStep, AnyOrder, TypeOK, FilesAreOpen, OneLockPerFile, SocketIsServed,
               Locked, Serving, At, Alive
  <2> QED
      BY <2>2, <2>3
<1>4. CASE Check(t) \/ Remove(t)
  <2>1. UNCHANGED <<server, content, socket>> /\ pidfile' \in Inode \cup {None}
      BY <1>4 DEF Check, Remove, RemovePidFile, AnyOrder, TypeOK
  <2> QED
      BY <1>2, <1>4, <2>1
         DEF CommandStep, AnyOrder, TypeOK, FilesAreOpen, OneLockPerFile, SocketIsServed,
             Locked, Serving, At, Alive
<1>5. CASE SpawnServer(t)
  <2>1. PICK p \in Pid :
            ~Alive(p) /\ server' = [server EXCEPT ![p] = [at |-> "open", file |-> None]]
      BY <1>5 DEF SpawnServer
  <2>2. UNCHANGED <<pidfile, content, socket>>
      BY <1>5 DEF SpawnServer
  <2>3. /\ server'[p] = [at |-> "open", file |-> None]
        /\ \A q \in Pid \ {p} : server'[q] = server[q]
      BY <2>1 DEF AnyOrder, TypeOK
  <2>4. server' \in [Pid -> Server \cup {None}]
      BY <2>1 DEF AnyOrder, TypeOK, Server, StartUp
  <2>5. TypeOK' /\ CommandsKnowPids'
      BY <1>2, <1>5, <2>2, <2>4 DEF CommandStep, AnyOrder, TypeOK
  <2>6. FilesAreOpen' /\ OneLockPerFile'
      BY <2>3 DEF AnyOrder, FilesAreOpen, OneLockPerFile, Locked, At, Alive
  <2>7. SocketIsServed'
      BY <2>1, <2>2, <2>3 DEF AnyOrder, SocketIsServed, Serving, At, Alive
  <2> QED
      BY <2>5, <2>6, <2>7 DEF AnyOrder
<1> QED
    BY <1>1, <1>3, <1>4, <1>5 DEF CommandStep

LEMMA ServerAnyOrder ==
    ASSUME AnyOrder, NEW p \in Pid, ServerStep(p)
    PROVE  AnyOrder'
<1>1. command' = command /\ CommandsKnowPids' /\ command' \in [Terminal -> Command \cup {None}]
    BY DEF ServerStep, OpenPidFile, LockPidFile, WritePid, UnlinkSocket, Bind, AnyOrder,
           CommandsKnowPids, Doing, TypeOK
<1>2. Alive(p) /\ server[p] \in Server
    BY DEF ServerStep, OpenPidFile, LockPidFile, WritePid, UnlinkSocket, Bind, At, Alive,
           AnyOrder, TypeOK
<1>3. ASSUME NEW r \in Server, server' = [server EXCEPT ![p] = r],
             r.file \in Inode, r.at \notin {"lock", "open"} => r.file = server[p].file,
             r.at \notin {"lock", "open"} /\ server[p].at \in {"lock", "open"} => Lockable(p),
             socket' \in {socket, None} \/ (socket' = p /\ r.at = "serve"),
             r.at = "serve" => socket' = p,
             server[p].at = "serve" => FALSE,
             pidfile' \in Inode \cup {None}, content' \in [Inode -> Pid \cup {None}]
      PROVE  AnyOrder'
  <2>1. r # None /\ server'[p] = r /\ \A q \in Pid \ {p} : server'[q] = server[q]
      BY <1>3, NoneAssumption DEF AnyOrder, TypeOK
  <2>2. TypeOK'
      BY <1>1, <1>3 DEF AnyOrder, TypeOK
  <2>3. FilesAreOpen'
      BY <1>3, <2>1 DEF AnyOrder, FilesAreOpen, At, Alive
  <2>4. OneLockPerFile'
      BY <1>2, <1>3, <2>1
         DEF AnyOrder, OneLockPerFile, Locked, Lockable, HoldsLock, Alive
  <2>5. SocketIsServed'
      BY <1>3, <2>1, ControlAssumption DEF AnyOrder, SocketIsServed, Serving, At, Alive
  <2> QED
      BY <1>1, <2>2, <2>3, <2>4, <2>5 DEF AnyOrder
<1>4. CASE OpenPidFile(p)
  <2>1. PICK i \in Inode :
            /\ pidfile' = i
            /\ content' = IF pidfile = None THEN [content EXCEPT ![i] = None] ELSE content
            /\ server' = [server EXCEPT ![p] = [at |-> "lock", file |-> i]]
      BY <1>4 DEF OpenPidFile
  <2>2. [at |-> "lock", file |-> i] \in Server
      BY DEF Server, StartUp
  <2>3. content' \in [Inode -> Pid \cup {None}]
      BY <2>1 DEF AnyOrder, TypeOK
  <2>4. socket' = socket /\ server[p].at = "open"
      BY <1>4 DEF OpenPidFile, At
  <2> QED
      BY <1>3, <2>1, <2>2, <2>3, <2>4
<1> DEFINE r(l) == [server[p] EXCEPT !.at = l]
<1>5. ASSUME NEW l \in StartUp \cup {"serve"}, Goto(p, l)
      PROVE  /\ r(l) \in Server /\ server' = [server EXCEPT ![p] = r(l)]
             /\ r(l).at = l /\ r(l).file = server[p].file
    BY <1>2, <1>5 DEF Goto, Server
<1>6. server[p].at # "open" => server[p].file \in Inode
    BY <1>2 DEF AnyOrder, FilesAreOpen, At
<1>7. CASE LockPidFile(p) /\ Goto(p, "write") /\ Lockable(p)
  <2>1. /\ server[p].at = "lock" /\ UNCHANGED <<command, pidfile, content, socket>>
      BY <1>7 DEF LockPidFile, At
  <2>2. /\ r("write") \in Server /\ server' = [server EXCEPT ![p] = r("write")]
        /\ r("write").at = "write" /\ r("write").file = server[p].file
      BY <1>5, <1>7 DEF StartUp
  <2> HIDE DEF r
  <2> QED
      BY <1>3, <1>6, <1>7, <2>1, <2>2 DEF AnyOrder, TypeOK
<1>8. CASE WritePid(p)
  <2>1. server[p].at = "write" /\ UNCHANGED <<command, pidfile, socket>>
      BY <1>8 DEF WritePid, At
  <2>2. /\ r("unlink") \in Server /\ server' = [server EXCEPT ![p] = r("unlink")]
        /\ r("unlink").at = "unlink" /\ r("unlink").file = server[p].file
      BY <1>5, <1>8 DEF StartUp, WritePid
  <2>3. content' \in [Inode -> Pid \cup {None}]
      BY <1>8, <1>6, <2>1 DEF WritePid, AnyOrder, TypeOK
  <2> HIDE DEF r
  <2> QED
      BY <1>3, <1>6, <2>1, <2>2, <2>3 DEF AnyOrder, TypeOK
<1>9. CASE UnlinkSocket(p)
  <2>1. server[p].at = "unlink" /\ UNCHANGED <<command, pidfile, content>> /\ socket' = None
      BY <1>9 DEF UnlinkSocket, RemoveSocket, At
  <2>2. /\ r("bind") \in Server /\ server' = [server EXCEPT ![p] = r("bind")]
        /\ r("bind").at = "bind" /\ r("bind").file = server[p].file
      BY <1>5, <1>9 DEF StartUp, UnlinkSocket
  <2> HIDE DEF r
  <2> QED
      BY <1>3, <1>6, <2>1, <2>2 DEF AnyOrder, TypeOK
<1>10. CASE Bind(p) /\ socket' = p /\ Goto(p, "serve")
  <2>1. server[p].at = "bind" /\ UNCHANGED <<command, pidfile, content>>
      BY <1>10 DEF Bind, At
  <2>2. /\ r("serve") \in Server /\ server' = [server EXCEPT ![p] = r("serve")]
        /\ r("serve").at = "serve" /\ r("serve").file = server[p].file
      BY <1>5, <1>10
  <2> HIDE DEF r
  <2> QED
      BY <1>3, <1>6, <1>10, <2>1, <2>2 DEF AnyOrder, TypeOK
<1>11. CASE (LockPidFile(p) \/ Bind(p)) /\ Ends(p)
    BY <1>1, <1>11, EndsAnyOrder DEF LockPidFile, Bind
<1> QED
    BY <1>4, <1>7, <1>8, <1>9, <1>10, <1>11 DEF ServerStep, LockPidFile, Bind

LEMMA StepAnyOrder ==
    ASSUME AnyOrder, [Step]_vars
    PROVE  AnyOrder'
<1>1. ASSUME NEW p \in Pid, Crash(p) PROVE AnyOrder'
    BY <1>1, EndsAnyOrder DEF Crash, AnyOrder, TypeOK, CommandsKnowPids, Doing
<1>2. CASE UNCHANGED vars
    BY <1>2 DEF vars, AnyOrder, TypeOK, CommandsKnowPids, FilesAreOpen, OneLockPerFile,
                SocketIsServed, Doing, Locked, Serving, At, Alive
<1> QED
    BY <1>1, <1>2, CommandAnyOrder, ServerAnyOrder DEF Step

LEMMA AnyOrderHolds == Spec => []AnyOrder
<1>1. Init => AnyOrder
    BY ControlAssumption DEF Init, AnyOrder, TypeOK, CommandsKnowPids, FilesAreOpen,
       OneLockPerFile, SocketIsServed, Doing, Locked, Serving, At, Alive
<1>2. AnyOrder /\ [Step]_vars => AnyOrder'
    BY StepAnyOrder
<1> QED
    BY <1>1, <1>2, PTL DEF Spec

(* The types hold for any order of commands and kills.                     *)
THEOREM TypeCorrect == Spec => []TypeOK
<1>1. AnyOrder => TypeOK
    BY DEF AnyOrder
<1> QED
    BY <1>1, AnyOrderHolds, PTL

(* Two servers that serve hold the locks of two inodes: a second server    *)
(* comes only where the pid file was removed under the first.              *)
DistinctFiles == \A p, q \in Pid :
    Serving(p) /\ Serving(q) /\ p # q => server[p].file # server[q].file

(* The cause of every second server, whatever commands overlap and kills   *)
(* come: not the lock of daemonize, but remove_file on its pid file.       *)
THEOREM TwoServersTwoFiles == Spec => []DistinctFiles
<1>1. AnyOrder => DistinctFiles
    BY DEF AnyOrder, OneLockPerFile, DistinctFiles, Locked, Serving, At
<1> QED
    BY <1>1, AnyOrderHolds, PTL

(* Whoever connects to the socket reaches a server that serves or nobody,  *)
(* in the same generality: a server that dies leaves a file that refuses.  *)
THEOREM ListenersServe == Spec => []SocketIsServed
<1>1. AnyOrder => SocketIsServed
    BY DEF AnyOrder
<1> QED
    BY <1>1, AnyOrderHolds, PTL

-----------------------------------------------------------------------------
(* What is started serves in the end: a server that has the lock, or the   *)
(* one that keeps it from another.  NeverStuck, which TLC checks, stands   *)
(* for what the prover does not know of ENABLED.                           *)

SomeServes    == \E p \in Pid : Serving(p)
StartsUp(p)   == Alive(p) /\ ~Serving(p)
SomeStartsUp  == \E p \in Pid : StartsUp(p)
HasLock(p)    == At(p, "write") \/ At(p, "unlink") \/ At(p, "bind")
SomeHasLock   == \E p \in Pid : HasLock(p)

(* A server that starts up goes on by its own steps alone.                 *)
LEMMA OnlyItself ==
    ASSUME IndInv, Calm, [Step]_vars, NEW p \in Pid, StartsUp(p), ~ServerStep(p)
    PROVE  server'[p] = server[p]
<1>1. Starting # {} /\ server \in [Pid -> Server \cup {None}]
    BY DEF StartsUp, Starting, IndInv, TypeOK
<1>2. ASSUME NEW t \in Terminal, CommandStep(t) PROVE server'[p] = server[p]
  <2>1. ~CheckAndKill(t)
    BY <1>1 DEF CheckAndKill, IndInv, CommandInOrder
  <2>2. CASE SpawnServer(t)
    BY <1>1, <2>2 DEF SpawnServer, StartsUp
  <2> QED
    BY <1>2, <2>1, <2>2 DEF CommandStep, Check, Remove
<1>3. ASSUME NEW t \in Terminal, NEW op \in Op, Begin(t, op) PROVE server'[p] = server[p]
    BY <1>3 DEF Begin
<1>4. ASSUME NEW q \in Pid, q # p, ServerStep(q) PROVE server'[p] = server[p]
    BY <1>1, <1>4
       DEF ServerStep, OpenPidFile, LockPidFile, WritePid, UnlinkSocket, Bind, Goto, Ends
<1>5. ASSUME NEW q \in Pid, Crash(q) PROVE FALSE
    BY <1>1, <1>5 DEF Crash
<1> QED
  BY <1>2, <1>3, <1>4, <1>5 DEF Step, vars

LEMMA StaysAt ==
    ASSUME IndInv, Calm, [Step]_vars, NEW p \in Pid, NEW l \in StartUp, At(p, l)
    PROVE  At(p, l)' \/ ServerStep(p)
<1>1. StartsUp(p)
    BY DEF StartsUp, At, Serving, StartUp
<1> QED
  BY <1>1, OnlyItself DEF At, Alive

(* What the steps of a server that starts up come to.                      *)
LEMMA StartUpSteps ==
    ASSUME IndInv, NEW p \in Pid, ServerStep(p)
    PROVE  /\ At(p, "open") => At(p, "lock")'
           /\ At(p, "lock") => At(p, "write")' \/ SomeHasLock' \/ SomeServes'
           /\ At(p, "write") => At(p, "unlink")'
           /\ At(p, "unlink") => At(p, "bind")'
           /\ At(p, "bind") => SomeServes'
<1>1. TypeOK
    BY DEF IndInv
<1>2. ASSUME NEW l \in {"write", "unlink", "bind", "serve"}, Alive(p), Goto(p, l)
      PROVE  At(p, l)'
    BY <1>1, <1>2, GotoMoves DEF At, Alive
<1>3. At(p, "open") => At(p, "lock")'
  <2> SUFFICES ASSUME At(p, "open") PROVE At(p, "lock")'
    OBVIOUS
  <2>1. PICK i \in Inode : server' = [server EXCEPT ![p] = [at |-> "lock", file |-> i]]
    BY DEF ServerStep, OpenPidFile, LockPidFile, WritePid, UnlinkSocket, Bind, At
  <2>2. server'[p] = [at |-> "lock", file |-> i]
    BY <1>1, <2>1 DEF TypeOK
  <2>3. server'[p] \in Server
    BY <2>2 DEF Server, StartUp
  <2> QED
    BY <2>2, <2>3, NoneAssumption DEF At, Alive
<1>4. At(p, "lock") => At(p, "write")' \/ SomeHasLock' \/ SomeServes'
  <2> SUFFICES ASSUME At(p, "lock") PROVE At(p, "write")' \/ SomeHasLock' \/ SomeServes'
    OBVIOUS
  <2>1. LockPidFile(p)
    BY DEF ServerStep, OpenPidFile, LockPidFile, WritePid, UnlinkSocket, Bind, At
  <2>2. CASE Lockable(p)
    BY <1>2, <2>1, <2>2 DEF LockPidFile, At
  <2>3. CASE ~Lockable(p)
    <3>1. PICK q \in Pid : HoldsLock(q, server[p].file)
      BY <2>3 DEF Lockable
    <3>2. q # p /\ server'[q] = server[q]
      BY <1>1, <2>1, <2>3, <3>1, EndsLeaves DEF LockPidFile, HoldsLock, At
    <3>3. HasLock(q)' \/ Serving(q)'
      <4>1. server[q] \in Server /\ server[q] # None
        BY <1>1, <3>1 DEF TypeOK, HoldsLock, Alive
      <4>2. server[q].at \in {"write", "unlink", "bind", "serve"}
        BY <3>1, <4>1 DEF HoldsLock, Server, StartUp
      <4> QED
        BY <3>2, <4>1, <4>2 DEF HasLock, Serving, At, Alive
    <3> QED
      BY <3>3 DEF SomeHasLock, SomeServes
  <2> QED
    BY <2>2, <2>3
<1>5. At(p, "write") => At(p, "unlink")'
    BY <1>2 DEF ServerStep, OpenPidFile, LockPidFile, WritePid, UnlinkSocket, Bind, At
<1>6. At(p, "unlink") => At(p, "bind")'
    BY <1>2 DEF ServerStep, OpenPidFile, LockPidFile, WritePid, UnlinkSocket, Bind, At
<1>7. At(p, "bind") => SomeServes'
  <2> SUFFICES ASSUME At(p, "bind") PROVE SomeServes'
    OBVIOUS
  <2>1. socket = None
    BY DEF IndInv, SocketIsCurrent
  <2>2. Goto(p, "serve")
    BY <2>1 DEF ServerStep, OpenPidFile, LockPidFile, WritePid, UnlinkSocket, Bind, At
  <2>3. Serving(p)'
    BY <1>2, <2>2 DEF At, Serving
  <2> QED
    BY <2>3 DEF SomeServes
<1> QED
  BY <1>3, <1>4, <1>5, <1>6, <1>7

(* What the kernel owes to a server that starts up, and to a command.      *)
ServerGoes(p) ==
    /\ Spec /\ WF_vars(ServerStep(p))
    /\ [](StartsUp(p) => ENABLED <<ServerStep(p)>>_vars)
CommandGoes(t) ==
    /\ Spec /\ WF_vars(CommandStep(t))
    /\ [](~SomeStartsUp /\ command[t] # None => ENABLED <<CommandStep(t)>>_vars)

LockServes(p)    == HasLock(p) => <>SomeServes
StartUpServes(p) == StartsUp(p) => <>SomeServes

LEMMA LockHolderServes ==
    ASSUME Calm, NEW p \in Pid
    PROVE  ServerGoes(p) => []LockServes(p)
<1>1. IndInv /\ [Step]_vars /\ At(p, "write") => At(p, "write")' \/ ServerStep(p)
    BY StaysAt DEF StartUp
<1>2. IndInv /\ [Step]_vars /\ At(p, "unlink") => At(p, "unlink")' \/ ServerStep(p)
    BY StaysAt DEF StartUp
<1>3. IndInv /\ [Step]_vars /\ At(p, "bind") => At(p, "bind")' \/ ServerStep(p)
    BY StaysAt DEF StartUp
<1>4. IndInv /\ ServerStep(p) /\ At(p, "write") => At(p, "unlink")'
    BY StartUpSteps
<1>5. IndInv /\ ServerStep(p) /\ At(p, "unlink") => At(p, "bind")'
    BY StartUpSteps
<1>6. IndInv /\ ServerStep(p) /\ At(p, "bind") => SomeServes'
    BY StartUpSteps
<1>7. HasLock(p) => StartsUp(p)
    BY DEF HasLock, StartsUp, Serving, At
<1>8. Spec => []IndInv
    BY Invariance
<1>9. ServerGoes(p) => (At(p, "bind") ~> SomeServes)
    BY <1>3, <1>6, <1>7, <1>8, PTL DEF ServerGoes, Spec, HasLock
<1>10. ServerGoes(p) => (At(p, "unlink") ~> SomeServes)
    BY <1>2, <1>5, <1>7, <1>8, <1>9, PTL DEF ServerGoes, Spec, HasLock
<1>11. ServerGoes(p) => (At(p, "write") ~> SomeServes)
    BY <1>1, <1>4, <1>7, <1>8, <1>10, PTL DEF ServerGoes, Spec, HasLock
<1> QED
    BY <1>9, <1>10, <1>11, PTL DEF LockServes, HasLock

LEMMA AnyLockHolderServes ==
    ASSUME Calm
    PROVE  (\A p \in Pid : ServerGoes(p)) => (SomeHasLock ~> SomeServes)
<1>1. (\A p \in Pid : ServerGoes(p)) => \A p \in Pid : []LockServes(p)
    BY LockHolderServes
<1>2. (\A p \in Pid : []LockServes(p)) => [](\A p \in Pid : LockServes(p))
    OBVIOUS
<1>3. (\A p \in Pid : LockServes(p)) => (SomeHasLock => <>SomeServes)
    BY DEF LockServes, SomeHasLock
<1> QED
    BY <1>1, <1>2, <1>3, PTL

LEMMA StartUpComesToServe ==
    ASSUME Calm, NEW p \in Pid
    PROVE  ServerGoes(p) /\ (SomeHasLock ~> SomeServes) => []StartUpServes(p)
<1>1. IndInv /\ [Step]_vars /\ At(p, "open") => At(p, "open")' \/ ServerStep(p)
    BY StaysAt DEF StartUp
<1>2. IndInv /\ [Step]_vars /\ At(p, "lock") => At(p, "lock")' \/ ServerStep(p)
    BY StaysAt DEF StartUp
<1>3. IndInv /\ ServerStep(p) /\ At(p, "open") => At(p, "lock")'
    BY StartUpSteps
<1>4. IndInv /\ ServerStep(p) /\ At(p, "lock") => SomeHasLock' \/ SomeServes'
  <2>1. At(p, "write")' => SomeHasLock'
    BY DEF SomeHasLock, HasLock
  <2> QED
    BY <2>1, StartUpSteps
<1>5. At(p, "open") \/ At(p, "lock") => StartsUp(p)
    BY DEF StartsUp, Serving, At
<1>6. IndInv /\ StartsUp(p) => At(p, "open") \/ At(p, "lock") \/ SomeHasLock
    BY DEF IndInv, TypeOK, StartsUp, Serving, At, Alive, Server, StartUp, SomeHasLock, HasLock
<1>7. Spec => []IndInv
    BY Invariance
<1>8. ServerGoes(p) /\ (SomeHasLock ~> SomeServes) => (At(p, "lock") ~> SomeServes)
    BY <1>2, <1>4, <1>5, <1>7, PTL DEF ServerGoes, Spec
<1>9. ServerGoes(p) /\ (SomeHasLock ~> SomeServes) => (At(p, "open") ~> SomeServes)
    BY <1>1, <1>3, <1>5, <1>7, <1>8, PTL DEF ServerGoes, Spec
<1> QED
    BY <1>6, <1>7, <1>8, <1>9, PTL DEF StartUpServes, ServerGoes

LEMMA AnyStartUpServes ==
    ASSUME Calm
    PROVE  (\A p \in Pid : ServerGoes(p)) => (SomeStartsUp ~> SomeServes)
<1>1. (\A p \in Pid : ServerGoes(p)) => \A p \in Pid : []StartUpServes(p)
    BY AnyLockHolderServes, StartUpComesToServe
<1>2. (\A p \in Pid : []StartUpServes(p)) => [](\A p \in Pid : StartUpServes(p))
    OBVIOUS
<1>3. (\A p \in Pid : StartUpServes(p)) => (SomeStartsUp => <>SomeServes)
    BY DEF StartUpServes, SomeStartsUp
<1> QED
    BY <1>1, <1>2, <1>3, PTL

LEMMA SpawnSteps ==
    ASSUME IndInv, Calm, [Step]_vars, NEW t \in Terminal, Doing(t, "spawn")
    PROVE  /\ Doing(t, "spawn")' \/ SomeStartsUp'
           /\ CommandStep(t) => SomeStartsUp'
<1>1. CommandStep(t) => SomeStartsUp'
  <2> SUFFICES ASSUME CommandStep(t) PROVE SomeStartsUp'
    OBVIOUS
  <2>1. SpawnServer(t)
    BY DEF CommandStep, Check, CheckAndKill, Remove, Doing
  <2>2. PICK p \in Pid : server' = [server EXCEPT ![p] = [at |-> "open", file |-> None]]
    BY <2>1 DEF SpawnServer
  <2>3. server'[p] = [at |-> "open", file |-> None]
    BY <2>2 DEF IndInv, TypeOK
  <2>4. server'[p] \in Server
    BY <2>3 DEF Server, StartUp
  <2> QED
    BY <2>3, <2>4, NoneAssumption DEF SomeStartsUp, StartsUp, Serving, At, Alive
<1>2. ASSUME NEW u \in Terminal, u # t PROVE ~CommandStep(u)
    BY <1>2 DEF CommandStep, Check, CheckAndKill, Remove, SpawnServer, Doing, IndInv, CommandInOrder
<1>3. ASSUME NEW u \in Terminal, NEW op \in Op PROVE ~Begin(u, op)
    BY DEF Begin, NoCommand, Doing
<1>4. ASSUME NEW p \in Pid, ServerStep(p) \/ Crash(p) PROVE UNCHANGED command
    BY <1>4
       DEF ServerStep, OpenPidFile, LockPidFile, WritePid, UnlinkSocket, Bind, Crash
<1> QED
  BY <1>1, <1>2, <1>3, <1>4 DEF Step, vars, Doing

(* A start or restart that comes to spawning a server is followed by one   *)
(* that serves: the one that is spawned, or the one whose lock ends it,    *)
(* when commands come one at a time (start_server, Daemonize::start and    *)
(* run_server up to its accept loop).                                      *)
THEOREM EverySpawnServes ==
    ASSUME Calm
    PROVE  FairSpec /\ []NeverStuck => SpawnServes
<1> SUFFICES ASSUME NEW t \in Terminal
             PROVE  FairSpec /\ []NeverStuck => (Doing(t, "spawn") ~> SomeServes)
    BY DEF SpawnServes, SomeServes
<1>1. FairSpec /\ []NeverStuck => \A p \in Pid : ServerGoes(p)
  <2> SUFFICES ASSUME NEW p \in Pid PROVE FairSpec /\ []NeverStuck => ServerGoes(p)
    OBVIOUS
  <2>1. FairSpec => Spec /\ ServerFairness(p)
    BY DEF FairSpec
  <2>2. NeverStuck => (StartsUp(p) => ENABLED <<ServerStep(p)>>_vars)
    BY DEF NeverStuck, StartsUp, Starting
  <2> QED
    BY <2>1, <2>2, PTL DEF ServerGoes, ServerFairness
<1>2. FairSpec /\ []NeverStuck => CommandGoes(t)
  <2>1. FairSpec => Spec /\ CommandFairness(t)
    BY DEF FairSpec
  <2>2. NeverStuck => (~SomeStartsUp /\ command[t] # None => ENABLED <<CommandStep(t)>>_vars)
    BY DEF NeverStuck, SomeStartsUp, StartsUp, Starting
  <2> QED
    BY <2>1, <2>2, PTL DEF CommandGoes, CommandFairness
<1>3. IndInv /\ [Step]_vars /\ Doing(t, "spawn") => Doing(t, "spawn")' \/ SomeStartsUp'
    BY SpawnSteps
<1>4. IndInv /\ [Step]_vars /\ Doing(t, "spawn") /\ CommandStep(t) => SomeStartsUp'
    BY SpawnSteps
<1>5. Doing(t, "spawn") => command[t] # None
    BY DEF Doing
<1>6. Spec => []IndInv
    BY Invariance
<1>7. (SomeStartsUp ~> SomeServes) /\ CommandGoes(t) => (Doing(t, "spawn") ~> SomeServes)
    BY <1>3, <1>4, <1>5, <1>6, PTL DEF CommandGoes, Spec
<1> QED
    BY <1>1, <1>2, <1>7, AnyStartUpServes

=============================================================================
