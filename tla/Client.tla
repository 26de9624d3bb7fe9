------------------------------- MODULE Client -------------------------------
(***************************************************************************)
(* The keyboard handler of the terminal client (src/src/client/handler.rs, *)
(* client_main.rs): a dashboard of the daemon's tasks and the wizard that  *)
(* makes a new one, whose steps share one App and send requests that may   *)
(* fail.                                                                   *)
(*                                                                         *)
(* Text that is typed is chosen when Enter ends it.  A path is modelled by *)
(* where it comes from: the tree of this machine (Local), or that of a     *)
(* host and port, whose listing it was picked from.  Of the tasks only     *)
(* their number is kept.  Neither the daemon nor ~/.sync_hosts belongs to  *)
(* this client alone: what they hold when they are read is any state that  *)
(* other clients, an editor or a restart of the daemon may have left.      *)
(***************************************************************************)
EXTENDS Integers, Sequences

CONSTANTS
    Name,        \* the names of hosts
    Port,        \* the ports a user may type
    Line,        \* what a user types for a host: a name, or name:port
    None,        \* no text, no port, no password, no path
    Listing,     \* what a directory may hold: sequences of Dir and File
    MaxHosts,    \* bound: the saved hosts
    MaxTasks     \* bound: the tasks of the daemon

DefaultPort == 22

(* pending_remote_host: a name, a whole line of ~/.sync_hosts, or nothing. *)
HostText == [name: Name \cup {None}, port: Port \cup {None}]
NoHost == [name |-> None, port |-> None]

ASSUME ClientAssumption ==
    /\ None \notin Name \cup Nat
    /\ Port \subseteq Nat /\ DefaultPort \in Port
    /\ Line \subseteq [name: Name, port: Port \cup {None}]
    /\ Listing \subseteq Seq({"dir", "file"})
    /\ MaxHosts \in Nat /\ MaxTasks \in Nat

Modes == {"Dashboard", "LocalBrowser", "RemoteHostInput", "RemotePortInput",
          "HostSelect", "PasswordInput", "SyncModeSelect", "CreateRemoteDir",
          "CreateLocalDir", "RemoteBrowser", "DryRunView", "LogView"}

(* Where a path or a listing comes from.                                   *)
Remote(h, p) == [host |-> h, port |-> p]
Local == Remote(NoHost, None)
Origin == {Local, None} \cup [host: HostText, port: Port]

VARIABLES
    mode,
    direction,               \* pending_sync_direction
    saved_hosts,             \* as loaded and changed since
    host_list_idx,           \* counted from 1, as all rows here
    is_editing_host,
    pending_remote_host,
    pending_remote_port,
    pending_password,        \* None, or the host it was typed for
    pending_source,
    remote_current_path,
    dir_entries,             \* rows: "up" for "..", "dir", "file", or "error"
    listed,                  \* where dir_entries comes from
    selected_idx,
    tasks,                   \* app.tasks: how many; None if a fetch is due before a key
    dashboard_selected_idx

VARIABLES
    sent,        \* the task of a StartTask that has just been sent
    back,        \* history: Esc was pressed in HostSelect or LocalBrowser of a pull
    kept,        \* history: no host was loaded, and the index then kept is on no row yet
    seen         \* history: the rows there were when the selection was put on one

inputs  == <<saved_hosts, host_list_idx, is_editing_host, kept>>
pending == <<pending_remote_host, pending_remote_port, pending_password>>
paths   == <<pending_source, remote_current_path>>
browser == <<dir_entries, listed, selected_idx>>
board   == <<dashboard_selected_idx, seen>>
vars == <<mode, tasks, direction, inputs, pending, paths, browser, board, sent, back>>

wizard == <<direction, inputs, pending, paths, browser, back>>

Min2(a, b) == IF a < b THEN a ELSE b

-----------------------------------------------------------------------------
(* Requests of the browsers and their answers.                             *)

(* request_local_list and the like: ".." goes first, the cursor on it.     *)
Show(rows, from) ==
    /\ dir_entries' = <<"up">> \o rows
    /\ listed' = from
    /\ selected_idx' = 1

(* ListLocalDirs: answered (TRUE) or not (FALSE).                          *)
ListLocal(answered) ==
    \/ answered /\ \E rows \in Listing : Show(rows, Local)
    \/ ~answered /\ UNCHANGED browser

(* is_valid_host: a line with a port is not a host, nor is an empty text.  *)
ValidHost(h) == h.name # None /\ h.port = None

RemoteNow == Remote(pending_remote_host, pending_remote_port)

(* ListRemoteDirs: list_remote_dirs_ssh always answers; that the host is   *)
(* not valid or that ssh failed is a row of the list.                      *)
ListRemote(answered) ==
    \/ answered /\ \/ /\ ValidHost(pending_remote_host)
                      /\ \E rows \in Listing : Show(rows, RemoteNow)
                   \/ Show(<<"error">>, RemoteNow)
    \/ ~answered /\ UNCHANGED browser

(* GetRemoteHome gives the home directory or "/": both are the host's.     *)
RemoteHome == remote_current_path' = RemoteNow

Entry == dir_entries[selected_idx]

(* The path of the selected row in the directory at path p.                *)
Picked(p) == IF Entry = "up" THEN p ELSE listed

(* Mutant: Up does not stop at the first row.                              *)
SelectUnderflow(i, n) == \/ i < n /\ i' = i + 1
                         \/ i > 0 /\ i' = i - 1

(* Down and Up on n rows.                                                  *)
Select(i, n) == \/ i < n /\ i' = i + 1
                \/ i > 1 /\ i' = i - 1

-----------------------------------------------------------------------------
(* The dashboard.                                                          *)

(* The old tasks are not read again: on the dashboard the loop fetches,    *)
(* draws, and only then takes a key.                                       *)
Enter(m) == mode' = m /\ tasks' = None

OnDashboard == mode = "Dashboard" /\ tasks # None

(* GetState: what the daemon has, whoever started and stopped it; without  *)
(* a daemon nothing, after any other failure the old list.  The selection  *)
(* stays where it is.                                                      *)
Fetch ==
    /\ mode = "Dashboard"
    /\ tasks' \in 0..MaxTasks
    /\ UNCHANGED <<mode, board, wizard>>

(* The selection is put on one of n rows; the first needs only itself.     *)
PutOn(n) == seen' = IF dashboard_selected_idx' = 1 THEN 1 ELSE n

(* Up from below the list may still end below it.                          *)
DashboardMove ==
    /\ OnDashboard
    /\ Select(dashboard_selected_idx, tasks)
    /\ PutOn(IF dashboard_selected_idx' > dashboard_selected_idx THEN tasks ELSE seen)
    /\ Enter("Dashboard")
    /\ UNCHANGED wizard

(* Ctrl+R: the daemon is killed and spawned, and reads the file of tasks.  *)
RestartServer ==
    /\ OnDashboard
    /\ Enter("Dashboard")
    /\ UNCHANGED <<board, wizard>>

(* 'a': a new push task.                                                   *)
DashboardAdd ==
    /\ OnDashboard
    /\ direction' = "Push" /\ back' = FALSE
    /\ \/ ListLocal(TRUE) /\ Enter("LocalBrowser")
       \/ ListLocal(FALSE) /\ Enter("Dashboard")
    /\ UNCHANGED <<inputs, pending, paths, board>>

(* load_hosts: any lines; the file may have been edited, and a line that   *)
(* begins with '#' is saved but not loaded.                                *)
Loaded == UNION {[1..n -> Line] : n \in 0..MaxHosts}

(* A host is chosen among the saved ones, or typed if there are none; the  *)
(* index is only reset in the first case.                                  *)
AskForHost ==
    /\ saved_hosts' \in Loaded
    /\ \/ /\ saved_hosts' = <<>> /\ Enter("RemoteHostInput")
          /\ is_editing_host' = FALSE /\ UNCHANGED host_list_idx
       \/ /\ saved_hosts' # <<>> /\ Enter("HostSelect")
          /\ host_list_idx' = 1 /\ UNCHANGED is_editing_host
    /\ kept' = (host_list_idx' > 1)

(* 'p': a new pull task.                                                   *)
DashboardPull ==
    /\ OnDashboard
    /\ direction' = "Pull" /\ back' = FALSE
    /\ AskForHost
    /\ UNCHANGED <<pending, paths, browser, board>>

(* Mutant: the safety check for bounds is missing.                         *)
Unclamped == dashboard_selected_idx

(* A row past the end stands for the last one.                             *)
Row == Min2(dashboard_selected_idx, tasks)

(* 'd' adjusts the selection if the last row goes.                         *)
RowAfterStop == IF Row > 1 /\ Row >= tasks THEN Row - 1 ELSE Row

(* The rows that are left if the daemon did what it was asked.             *)
DashboardStop ==
    /\ OnDashboard /\ tasks > 0
    /\ dashboard_selected_idx' = RowAfterStop /\ PutOn(tasks - 1)
    /\ Enter("Dashboard")
    /\ UNCHANGED wizard

(* 's', and an 'r' or 'l' without the answer it wants.                     *)
DashboardRestart ==
    /\ OnDashboard /\ tasks > 0
    /\ dashboard_selected_idx' = Row /\ PutOn(tasks)
    /\ Enter("Dashboard")
    /\ UNCHANGED wizard

DashboardView ==
    /\ OnDashboard /\ tasks > 0
    /\ dashboard_selected_idx' = Row /\ PutOn(tasks)
    /\ (Enter("DryRunView") \/ Enter("LogView"))
    /\ UNCHANGED wizard

-----------------------------------------------------------------------------
(* Mutant: a pull goes back to where it began.                             *)
BeforeLocalHost == IF direction = "Pull" THEN "HostSelect" ELSE "Dashboard"

BeforeLocal == IF direction = "Pull" /\ pending_remote_host # NoHost
                 THEN "RemoteBrowser" ELSE "Dashboard"

(* Esc, in every step of the wizard and in the views.                      *)
EscTarget ==
    CASE mode = "LocalBrowser" -> BeforeLocal
      [] mode = "HostSelect" -> "LocalBrowser"
      [] mode = "RemoteHostInput" ->
           IF saved_hosts # <<>> THEN "HostSelect"
           ELSE IF direction = "Push" THEN "LocalBrowser" ELSE "Dashboard"
      [] mode = "RemotePortInput" -> "RemoteHostInput"
      [] mode = "PasswordInput" -> "RemotePortInput"
      [] mode = "SyncModeSelect" ->
           IF direction = "Push" THEN "PasswordInput" ELSE "LocalBrowser"
      [] mode = "CreateRemoteDir" -> "RemoteBrowser"
      [] mode = "CreateLocalDir" -> "LocalBrowser"
      [] OTHER -> "Dashboard"

StepsBack == direction = "Pull" /\ mode \in {"HostSelect", "LocalBrowser"}

Esc ==
    /\ mode # "Dashboard"
    /\ Enter(EscTarget)
    /\ back' = (back \/ StepsBack)
    /\ UNCHANGED <<direction, inputs, pending, paths, browser, board>>

-----------------------------------------------------------------------------
(* The two browsers.  A row that is not there is a panic: see Quit.        *)

Browsers == {"LocalBrowser", "RemoteBrowser"}

OnARow == selected_idx \in DOMAIN dir_entries

BrowserMove ==
    /\ mode \in Browsers
    /\ Select(selected_idx, Len(dir_entries))
    /\ UNCHANGED <<mode, tasks, direction, inputs, pending, paths, dir_entries,
                   listed, board, back>>

LocalEnter ==
    /\ mode = "LocalBrowser" /\ OnARow
    /\ Entry \in {"up", "dir"}
    /\ ListLocal(TRUE)
    /\ UNCHANGED <<mode, tasks, direction, inputs, pending, paths, board, back>>

LocalSelect ==
    /\ mode = "LocalBrowser" /\ OnARow
    /\ pending_source' = Picked(Local)
    /\ IF direction = "Push" THEN AskForHost
                             ELSE Enter("SyncModeSelect") /\ UNCHANGED inputs
    /\ UNCHANGED <<direction, pending, remote_current_path, browser, board, back>>

(* The old listing stays on the screen when the new one does not come.     *)
RemoteEnter ==
    /\ mode = "RemoteBrowser" /\ OnARow
    /\ Entry \in {"up", "dir"}
    /\ remote_current_path' = Picked(remote_current_path)
    /\ (ListRemote(TRUE) \/ ListRemote(FALSE))
    /\ UNCHANGED <<mode, tasks, direction, inputs, pending, pending_source, board, back>>

(* In a pull the remote path is chosen first.                              *)
RemoteSelect ==
    /\ mode = "RemoteBrowser" /\ OnARow /\ direction = "Pull"
    /\ remote_current_path' = Picked(remote_current_path)
    /\ \/ ListLocal(TRUE) /\ Enter("LocalBrowser")
       \/ ListLocal(FALSE) /\ Enter("Dashboard")
    /\ UNCHANGED <<direction, inputs, pending, pending_source, board, back>>

NewDir ==
    /\ \/ mode = "LocalBrowser" /\ Enter("CreateLocalDir")
       \/ mode = "RemoteBrowser" /\ Enter("CreateRemoteDir")
    /\ UNCHANGED <<board, wizard>>

(* The directory is made and the listing fetched again, or nothing was     *)
(* typed.  A failure is shown and nothing changes.                         *)
CreateDir ==
    /\ \/ /\ mode = "CreateLocalDir" /\ Enter("LocalBrowser")
          /\ (ListLocal(TRUE) \/ UNCHANGED browser)
       \/ /\ mode = "CreateRemoteDir" /\ Enter("RemoteBrowser")
          /\ (ListRemote(TRUE) \/ UNCHANGED browser)
    /\ UNCHANGED <<direction, inputs, pending, paths, board, back>>

-----------------------------------------------------------------------------
(* The host, its port and its password.  Every change of saved_hosts is    *)
(* saved; the index is checked only against an empty list.                 *)

OnAHost == host_list_idx \in DOMAIN saved_hosts

(* Until a row is there, the index that was kept is past the end.          *)
KeptUntilARow == kept' = (kept /\ ~OnAHost')

HostMove ==
    /\ mode = "HostSelect"
    /\ Select(host_list_idx, Len(saved_hosts))
    /\ UNCHANGED <<mode, tasks, direction, saved_hosts, is_editing_host, pending,
                   paths, browser, board, back>>
    /\ KeptUntilARow

(* The whole line becomes the host; the port is that of the task before.   *)
HostChosen ==
    /\ mode = "HostSelect" /\ OnAHost
    /\ pending_remote_host' = saved_hosts[host_list_idx]
    /\ Enter("PasswordInput")
    /\ UNCHANGED <<direction, inputs, pending_remote_port, pending_password, paths,
                   browser, board, back>>

(* 'a' and 'e'.                                                            *)
HostTyping ==
    /\ mode = "HostSelect"
    /\ is_editing_host' \in {FALSE, OnAHost}
    /\ Enter("RemoteHostInput")
    /\ UNCHANGED <<direction, saved_hosts, host_list_idx, kept, pending, paths,
                   browser, board, back>>

Without(s, i) == SubSeq(s, 1, i - 1) \o SubSeq(s, i + 1, Len(s))

(* Mutant: the selection stays where it was.                               *)
IdxKept == host_list_idx

(* The row after the selected one is removed: the last one, if it was last. *)
IdxAfterDelete ==
    IF host_list_idx >= Len(saved_hosts) /\ Len(saved_hosts) > 1
      THEN Len(saved_hosts) - 1 ELSE host_list_idx

HostDeleted ==
    /\ mode = "HostSelect" /\ OnAHost
    /\ saved_hosts' = Without(saved_hosts, host_list_idx)
    /\ host_list_idx' = IdxAfterDelete
    /\ UNCHANGED <<mode, tasks, direction, is_editing_host, kept, pending, paths,
                   browser, board, back>>

(* What Enter saves: it replaces the line that is edited or is added once. *)
SavedWith(text) ==
    IF text = NoHost THEN saved_hosts
    ELSE IF is_editing_host
      THEN IF OnAHost THEN [saved_hosts EXCEPT ![host_list_idx] = text] ELSE saved_hosts
    ELSE IF \E i \in DOMAIN saved_hosts : saved_hosts[i] = text THEN saved_hosts
    ELSE Append(saved_hosts, text)

HostEntered ==
    /\ mode = "RemoteHostInput"
    /\ \E text \in Line \cup {NoHost} :
          /\ saved_hosts' = SavedWith(text)
          /\ Len(saved_hosts') <= MaxHosts
          /\ pending_remote_host' = [name |-> text.name, port |-> None]
    /\ Enter("RemotePortInput")
    /\ UNCHANGED <<direction, host_list_idx, is_editing_host, pending_remote_port,
                   pending_password, paths, browser, board, back>>
    /\ KeptUntilARow

PortEntered ==
    /\ mode = "RemotePortInput"
    /\ pending_remote_port' \in Port
    /\ Enter("PasswordInput")
    /\ UNCHANGED <<direction, inputs, pending_remote_host, pending_password, paths,
                   browser, board, back>>

(* Mutant: the browser opens whether or not its listing came.              *)
OpenRemoteAnyway ==
    /\ RemoteHome
    /\ (ListRemote(TRUE) \/ ListRemote(FALSE)) /\ Enter("RemoteBrowser")
    /\ UNCHANGED pending_source

(* The remote browser starts in the home directory of the host.            *)
OpenRemote ==
    /\ RemoteHome
    /\ \/ ListRemote(TRUE) /\ Enter("RemoteBrowser")
       \/ ListRemote(FALSE) /\ Enter(mode)
    /\ UNCHANGED pending_source

(* Mutant: an empty input keeps the password of the task before.           *)
PasswordKept == pending_password' \in {pending_password, pending_remote_host}

(* An empty input means that there is none.                                *)
Password == pending_password' \in {None, pending_remote_host}

PasswordEntered ==
    /\ mode = "PasswordInput"
    /\ Password
    /\ IF direction = "Push" THEN Enter("SyncModeSelect") /\ UNCHANGED <<paths, browser>>
                             ELSE OpenRemote
    /\ UNCHANGED <<direction, inputs, pending_remote_host, pending_remote_port,
                   board, back>>

-----------------------------------------------------------------------------
(* The mode, and the task.                                                 *)

ModeChosen ==
    /\ mode = "SyncModeSelect" /\ direction = "Push"
    /\ OpenRemote
    /\ UNCHANGED <<direction, inputs, pending, board, back>>

(* Accepted, and the client leaves the wizard; or refused, as for a host   *)
(* that is not valid or an id that was used within this second, or         *)
(* accepted without an answer in time, and the wizard stays.               *)
StartTask(path) ==
    /\ sent' = [source |-> pending_source, path |-> path, direction |-> direction,
                host |-> pending_remote_host, port |-> pending_remote_port,
                password |-> pending_password]
    /\ \/ /\ ValidHost(pending_remote_host)
          /\ Enter("Dashboard")
          /\ pending_source' = None /\ remote_current_path' = None
       \/ UNCHANGED <<mode, tasks, paths>>
    /\ UNCHANGED <<direction, inputs, pending, browser, board, back>>

StartPush == /\ mode = "RemoteBrowser" /\ OnARow /\ direction = "Push"
             /\ StartTask(Picked(remote_current_path))

StartPull == /\ mode = "SyncModeSelect" /\ direction = "Pull"
             /\ StartTask(remote_current_path)

-----------------------------------------------------------------------------
NotSent == None

(* App as run_app makes it.                                                *)
Init ==
    /\ mode = "Dashboard" /\ tasks = None /\ direction = "Push"
    /\ saved_hosts \in Loaded /\ host_list_idx = 1 /\ is_editing_host = FALSE
    /\ pending_remote_host = NoHost /\ pending_remote_port = DefaultPort
    /\ pending_password = None
    /\ pending_source = None /\ remote_current_path = None
    /\ dir_entries = <<>> /\ listed = None /\ selected_idx = 1
    /\ dashboard_selected_idx = 1 /\ seen = 1
    /\ sent = NotSent /\ back = FALSE /\ kept = FALSE

(* The program ends, by 'q', Ctrl+C or a panic, and is started again.      *)
Quit ==
    /\ Enter("Dashboard") /\ direction' = "Push"
    /\ saved_hosts' \in Loaded /\ host_list_idx' = 1 /\ is_editing_host' = FALSE
    /\ pending_remote_host' = NoHost /\ pending_remote_port' = DefaultPort
    /\ pending_password' = None
    /\ pending_source' = None /\ remote_current_path' = None
    /\ dir_entries' = <<>> /\ listed' = None /\ selected_idx' = 1
    /\ dashboard_selected_idx' = 1 /\ seen' = 1
    /\ back' = FALSE /\ kept' = FALSE

Dashboard == Fetch \/ DashboardMove \/ RestartServer \/ DashboardAdd \/ DashboardPull
               \/ DashboardStop \/ DashboardRestart \/ DashboardView
Browse == BrowserMove \/ LocalEnter \/ LocalSelect \/ RemoteEnter
            \/ RemoteSelect \/ NewDir \/ CreateDir
Host == HostMove \/ HostChosen \/ HostTyping \/ HostDeleted \/ HostEntered
          \/ PortEntered \/ PasswordEntered

Start == StartPush \/ StartPull
Other == Dashboard \/ Esc \/ Browse \/ Host \/ ModeChosen \/ Quit

Next == Start \/ (Other /\ sent' = NotSent)

Spec == Init /\ [][Next]_vars

-----------------------------------------------------------------------------
Task == [source: Origin, path: Origin, direction: {"Push", "Pull"}, host: HostText,
         port: Port, password: HostText \cup {None}]

TypeOK ==
    /\ mode \in Modes /\ direction \in {"Push", "Pull"}
    /\ saved_hosts \in Seq(Line)
    /\ host_list_idx \in Nat \ {0} /\ is_editing_host \in BOOLEAN
    /\ pending_remote_host \in HostText /\ pending_remote_port \in Port
    /\ pending_password \in HostText \cup {None}
    /\ pending_source \in Origin /\ remote_current_path \in Origin
    /\ dir_entries \in Seq({"up", "dir", "file", "error"})
    /\ listed \in Origin /\ selected_idx \in Nat \ {0}
    /\ tasks \in 0..MaxTasks \cup {None}
    /\ dashboard_selected_idx \in Nat \ {0} /\ seen \in Nat
    /\ back \in BOOLEAN /\ kept \in BOOLEAN
    /\ sent \in Task \cup {NotSent}

(* In a pull whose user went back from HostSelect or LocalBrowser nothing  *)
(* of this holds: Esc leads to a browser that was not filled for it.       *)
Straight == direction = "Push" \/ ~back

(* A browser shows the tree that its title and its requests are about:     *)
(* never that of another host, or of the other side (handler.rs:209-235,   *)
(* 558-606).                                                               *)
BrowsersShowTheirSide ==
    Straight =>
        /\ mode \in {"LocalBrowser", "CreateLocalDir"} => listed = Local
        /\ mode \in {"RemoteBrowser", "CreateRemoteDir"} => listed = RemoteNow

(* A task that is sent to the daemon joins a path chosen on this machine   *)
(* with one chosen on the host and port it names, and its password was     *)
(* typed for that host, whatever steps were taken, failed or repeated.     *)
EveryTaskIsChosen ==
    sent # NotSent /\ Straight =>
        /\ sent.source = Local
        /\ sent.path = Remote(sent.host, sent.port)
        /\ sent.password \in {None, sent.host}

(* A key that takes the selected row finds one: a browser or the list of   *)
(* hosts that has rows has its cursor on one of them, whatever was listed, *)
(* deleted, edited or loaded in between; a row that is not there ends the  *)
(* program (handler.rs:246, 277, 363, 380, 388).  It does end it where the *)
(* wizard loaded no host and kept the index of an earlier one (91-99).     *)
KeysFindARow ==
    /\ mode = "HostSelect" /\ ~kept => saved_hosts = <<>> \/ OnAHost
    /\ mode \in Browsers /\ Straight => OnARow

(* Only others take the highlight away: where the dashboard has at least   *)
(* the rows that it had, or was to have after a stop, when the selection   *)
(* was last put on one, the selection is on one of them.  A list that was  *)
(* cut short under it is made good by the next s, r, l or d                *)
(* (handler.rs:109-124, 131, 156, 179).                                    *)
OnlyOthersUnhighlight ==
    OnDashboard /\ tasks > 0 /\ tasks >= seen =>
        dashboard_selected_idx <= tasks

(* How many times Esc has to be pressed at most to be at the dashboard.    *)
EscDistance ==
    CASE mode \in {"DryRunView", "LogView", "RemoteBrowser"} -> 1
      [] mode = "CreateRemoteDir" -> 2
      [] mode = "LocalBrowser" -> IF direction = "Push" THEN 1 ELSE 2
      [] mode \in {"CreateLocalDir", "HostSelect"} -> 3
      [] mode = "RemoteHostInput" -> 4
      [] mode = "RemotePortInput" -> 5
      [] mode = "PasswordInput" -> 6
      [] mode = "SyncModeSelect" -> IF direction = "Push" THEN 7 ELSE 3
      [] OTHER -> 0

(* Esc, pressed again and again, leads to the dashboard from everywhere:   *)
(* no two steps lead back to each other.                                   *)
EscLeadsHome == [][Esc => EscDistance' < EscDistance]_vars

=============================================================================
