---------------------------- MODULE ClientProofs ----------------------------
(***************************************************************************)
(* Proofs about Client: for any hosts, ports and directories, and whatever *)
(* requests fail, the browsers show the side they are about and a task     *)
(* joins what was chosen on the machines it names.                         *)
(***************************************************************************)
EXTENDS Client, SequenceTheorems, TLAPS

USE ClientAssumption

(* The browser shows what is at o, with the cursor on a row of it.         *)
Shows(o) == listed = o /\ OnARow

PasswordFits == pending_password \in {None, pending_remote_host}

BrowsersFilled ==
    /\ mode \in {"LocalBrowser", "CreateLocalDir"} => Shows(Local)
    /\ mode \in {"RemoteBrowser", "CreateRemoteDir"} =>
         Shows(RemoteNow) /\ remote_current_path = RemoteNow /\ PasswordFits

(* A push chooses here first: nothing lists another tree until the remote  *)
(* browser opens, since Esc may lead back to the local one.                *)
PushSoFar ==
    direction = "Push" =>
      /\ mode \in {"HostSelect", "RemoteHostInput", "RemotePortInput",
                   "PasswordInput", "SyncModeSelect"} =>
           pending_source = Local /\ Shows(Local)
      /\ mode = "SyncModeSelect" => PasswordFits
      /\ mode \in {"RemoteBrowser", "CreateRemoteDir"} => pending_source = Local

(* A pull has its remote path and the host it is on before it asks here.   *)
PullSoFar ==
    direction = "Pull" =>
      /\ mode \in {"LocalBrowser", "CreateLocalDir", "SyncModeSelect"} =>
           remote_current_path = RemoteNow /\ PasswordFits
      /\ mode = "SyncModeSelect" => pending_source = Local /\ Shows(Local)

HostsInOrder == OnAHost \/ (saved_hosts = <<>> /\ host_list_idx = 1) \/ kept

IndInv ==
    /\ TypeOK /\ HostsInOrder /\ EveryTaskIsChosen
    /\ Straight => BrowsersFilled /\ PushSoFar /\ PullSoFar

Rows == {"up", "dir", "file", "error"}
RowTypes == dir_entries \in Seq(Rows) /\ listed \in Origin /\ selected_idx \in Nat \ {0}

-----------------------------------------------------------------------------
(* The operators that the actions are built from.                          *)

(* A listing that is shown has the cursor on its first row.                *)
LEMMA ShowFills ==
    ASSUME NEW rows \in Seq(Rows), NEW from, Show(rows, from)
    PROVE  /\ dir_entries' \in Seq(Rows) /\ selected_idx' = 1
           /\ listed' = from /\ OnARow'
<1>1. <<"up">> \in Seq(Rows) /\ Len(<<"up">>) = 1
    BY DEF Rows
<1>2. dir_entries' \in Seq(Rows) /\ Len(dir_entries') = 1 + Len(rows)
    BY <1>1, ConcatProperties DEF Show
<1>3. Len(rows) \in Nat /\ DOMAIN dir_entries' = 1..Len(dir_entries')
    BY <1>2, LenProperties
<1> QED
    BY <1>2, <1>3 DEF Show, OnARow

LEMMA ListingsAreRows ==
    ASSUME NEW rows \in Listing
    PROVE  rows \in Seq(Rows)
<1>1. rows \in Seq({"dir", "file"}) /\ {"dir", "file"} \subseteq Rows
    BY DEF Rows
<1> QED
    BY <1>1, SeqMonotonic

(* What is at a host and port, or here, is somewhere.                      *)
LEMMA OriginTypes ==
    /\ Local \in Origin
    /\ TypeOK => RemoteNow \in Origin
BY DEF Local, RemoteNow, Remote, Origin, TypeOK

LEMMA LocalListed ==
    ASSUME ListLocal(TRUE)
    PROVE  RowTypes' /\ Shows(Local)'
<1>1. PICK rows \in Listing : Show(rows, Local)
    BY DEF ListLocal
<1>2. Local' = Local
    BY DEF Local, Remote, NoHost
<1> QED
    BY <1>1, <1>2, ListingsAreRows, ShowFills, OriginTypes DEF RowTypes, Shows

LEMMA RemoteListed ==
    ASSUME IndInv, ListRemote(TRUE)
    PROVE  RowTypes' /\ listed' = RemoteNow /\ OnARow'
<1>1. dir_entries' \in Seq(Rows) /\ selected_idx' = 1 /\ listed' = RemoteNow /\ OnARow'
  <2>1. CASE \E rows \in Listing : Show(rows, RemoteNow)
      BY <2>1, ListingsAreRows, ShowFills
  <2>2. CASE Show(<<"error">>, RemoteNow)
    <3>1. <<"error">> \in Seq(Rows)
        BY DEF Rows
    <3> QED
        BY <2>2, <3>1, ShowFills
  <2> QED
      BY <2>1, <2>2 DEF ListRemote
<1> QED
    BY <1>1, OriginTypes DEF RowTypes, IndInv

LEMMA Unlisted ==
    /\ ListLocal(FALSE) => UNCHANGED browser
    /\ ListRemote(FALSE) => UNCHANGED browser
BY DEF ListLocal, ListRemote

LEMMA RowsKept ==
    ASSUME IndInv, UNCHANGED browser
    PROVE  RowTypes'
BY DEF IndInv, TypeOK, RowTypes, Rows, browser

-----------------------------------------------------------------------------
(* One lemma per action.                                                   *)

(* What the dashboard does by itself leaves the wizard alone.              *)
LEMMA WizardKept ==
    ASSUME IndInv, UNCHANGED wizard, sent' = NotSent,
           mode' \in {"Dashboard", "DryRunView", "LogView"},
           tasks' \in 0..MaxTasks \cup {None},
           dashboard_selected_idx' \in Nat \ {0}, seen' \in Nat
    PROVE  IndInv'
<1>1. TypeOK'
    BY DEF IndInv, TypeOK, Modes, wizard, inputs, pending, paths, browser
<1>2. HostsInOrder'
    BY DEF IndInv, HostsInOrder, OnAHost, wizard, inputs
<1>3. BrowsersFilled' /\ PushSoFar' /\ PullSoFar'
    BY DEF BrowsersFilled, PushSoFar, PullSoFar
<1>4. EveryTaskIsChosen'
    BY DEF EveryTaskIsChosen
<1> QED
    BY <1>1, <1>2, <1>3, <1>4 DEF IndInv

(* On the dashboard the list has been fetched, and the selection is        *)
(* counted from one.                                                       *)
LEMMA BoardTypes ==
    ASSUME TypeOK
    PROVE  /\ dashboard_selected_idx \in Nat \ {0} /\ seen \in Nat
           /\ OnDashboard => tasks \in Nat
           /\ OnDashboard /\ tasks > 0 => Row \in Nat \ {0} /\ RowAfterStop \in Nat \ {0}
BY DEF TypeOK, OnDashboard, Row, RowAfterStop, Min2

LEMMA FetchInv ==
    ASSUME IndInv, Fetch, sent' = NotSent
    PROVE  IndInv'
BY BoardTypes, WizardKept DEF IndInv, Fetch, board

LEMMA DashboardMoveInv ==
    ASSUME IndInv, DashboardMove \/ RestartServer, sent' = NotSent
    PROVE  IndInv'
<1>1. dashboard_selected_idx' \in Nat \ {0} /\ seen' \in Nat
    BY BoardTypes DEF IndInv, DashboardMove, RestartServer, Select, PutOn, board
<1> QED
    BY <1>1, WizardKept DEF DashboardMove, RestartServer, Enter

LEMMA DashboardStopInv ==
    ASSUME IndInv, DashboardStop, sent' = NotSent
    PROVE  IndInv'
<1>1. dashboard_selected_idx' \in Nat \ {0} /\ seen' \in Nat
    BY BoardTypes DEF IndInv, DashboardStop, PutOn
<1> QED
    BY <1>1, WizardKept DEF DashboardStop, Enter

LEMMA DashboardViewInv ==
    ASSUME IndInv, DashboardRestart \/ DashboardView, sent' = NotSent
    PROVE  IndInv'
<1>1. dashboard_selected_idx' \in Nat \ {0} /\ seen' \in Nat
    BY BoardTypes DEF IndInv, DashboardRestart, DashboardView, PutOn
<1> QED
    BY <1>1, WizardKept DEF DashboardRestart, DashboardView, Enter

LEMMA DashboardAddInv ==
    ASSUME IndInv, DashboardAdd, sent' = NotSent
    PROVE  IndInv'
<1>1. /\ UNCHANGED <<inputs, pending, paths, board>> /\ tasks' = None
      /\ direction' = "Push" /\ back' = FALSE
    BY DEF DashboardAdd, Enter
<1>2. \/ mode' = "LocalBrowser" /\ RowTypes' /\ Shows(Local)'
      \/ mode' = "Dashboard" /\ UNCHANGED browser
    BY LocalListed, Unlisted DEF DashboardAdd, Enter
<1>3. RowTypes' /\ mode' \in Modes
    BY <1>2, RowsKept DEF Modes
<1>r. TypeOK'
    BY <1>1, <1>3 DEF IndInv, TypeOK, RowTypes, Rows, inputs, pending, paths, board
<1>4. HostsInOrder' /\ EveryTaskIsChosen'
    BY <1>1 DEF IndInv, HostsInOrder, OnAHost, EveryTaskIsChosen, inputs
<1>5. BrowsersFilled' /\ PushSoFar' /\ PullSoFar'
    BY <1>1, <1>2 DEF BrowsersFilled, PushSoFar, PullSoFar
<1> QED
    BY <1>r, <1>4, <1>5 DEF IndInv

(* What the file may hold is a list of lines.                              *)
LEMMA LoadedLists ==
    ASSUME NEW hosts \in Loaded
    PROVE  hosts \in Seq(Line) /\ (hosts = <<>> \/ 1 \in DOMAIN hosts)
<1>1. PICK n \in 0..MaxHosts : hosts \in [1..n -> Line]
    BY DEF Loaded
<1>2. hosts \in Seq(Line)
    BY <1>1, SeqDef
<1>3. hosts = <<>> \/ 1 \in DOMAIN hosts
    BY <1>2, EmptySeq, LenProperties
<1> QED
    BY <1>2, <1>3

LEMMA AskForHostKeeps ==
    ASSUME IndInv, AskForHost
    PROVE  /\ mode' \in {"RemoteHostInput", "HostSelect"} /\ tasks' = None
           /\ saved_hosts' \in Seq(Line) /\ host_list_idx' \in Nat \ {0}
           /\ is_editing_host' \in BOOLEAN /\ kept' \in BOOLEAN /\ HostsInOrder'
<1>s. saved_hosts' \in Seq(Line)
    BY LoadedLists DEF AskForHost
<1>1. CASE saved_hosts' = <<>>
  <2>1. Enter("RemoteHostInput") /\ is_editing_host' = FALSE /\ host_list_idx' = host_list_idx
      BY <1>1 DEF AskForHost
  <2>2. kept' = (host_list_idx' > 1) /\ host_list_idx \in Nat \ {0}
      BY DEF AskForHost, IndInv, TypeOK
  <2>3. host_list_idx' = 1 \/ host_list_idx' > 1
      BY <2>1, <2>2
  <2>4. HostsInOrder'
      BY <1>1, <2>2, <2>3, Zenon DEF HostsInOrder
  <2>5. kept' \in BOOLEAN
      BY DEF AskForHost
  <2> QED
      BY <1>s, <2>1, <2>2, <2>4, <2>5 DEF Enter
<1>2. CASE saved_hosts' # <<>>
  <2>1. 1 \in DOMAIN saved_hosts'
      BY <1>2, LoadedLists DEF AskForHost
  <2>2. Enter("HostSelect") /\ host_list_idx' = 1 /\ is_editing_host' = is_editing_host
      BY <1>2 DEF AskForHost
  <2>3. kept' \in BOOLEAN /\ is_editing_host \in BOOLEAN
      BY DEF AskForHost, IndInv, TypeOK
  <2> QED
      BY <1>s, <2>1, <2>2, <2>3 DEF Enter, HostsInOrder, OnAHost
<1> QED
    BY <1>1, <1>2

LEMMA DashboardPullInv ==
    ASSUME IndInv, DashboardPull, sent' = NotSent
    PROVE  IndInv'
<1>1. AskForHost /\ direction' = "Pull" /\ back' = FALSE
      /\ UNCHANGED <<pending, paths, browser, board>>
    BY DEF DashboardPull
<1>2. TypeOK'
    BY <1>1, AskForHostKeeps DEF IndInv, TypeOK, Modes, pending, paths, browser, board
<1>3. BrowsersFilled' /\ PushSoFar' /\ PullSoFar'
    BY <1>1, AskForHostKeeps DEF BrowsersFilled, PushSoFar, PullSoFar
<1> QED
    BY <1>1, <1>2, <1>3, AskForHostKeeps DEF IndInv, EveryTaskIsChosen

(* Esc leaves the paths, the host and the listing as they are: in the step *)
(* that it leads to they still belong together, but for the two of a pull  *)
(* that Straight excepts.                                                  *)
LEMMA EscInv ==
    ASSUME IndInv, Esc, sent' = NotSent
    PROVE  IndInv'
<1>1. /\ mode # "Dashboard" /\ mode' = EscTarget /\ tasks' = None
      /\ back' = (back \/ StepsBack)
      /\ UNCHANGED <<direction, inputs, pending, paths, browser, board>>
    BY DEF Esc, Enter
<1>2. mode' \in Modes
    BY <1>1 DEF EscTarget, BeforeLocal, Modes
<1>3. TypeOK'
    BY <1>1, <1>2 DEF IndInv, TypeOK, StepsBack, inputs, pending, paths, browser, board
<1>4. HostsInOrder' /\ EveryTaskIsChosen'
    BY <1>1 DEF IndInv, HostsInOrder, OnAHost, EveryTaskIsChosen, inputs
<1>5. ASSUME Straight'
      PROVE  BrowsersFilled' /\ PushSoFar' /\ PullSoFar'
  <2>1. Straight /\ ~StepsBack
      BY <1>1, <1>5 DEF Straight, IndInv, TypeOK, StepsBack
  <2>2. BrowsersFilled /\ PushSoFar /\ PullSoFar
      BY <2>1 DEF IndInv
  <2>3. \A o : Shows(o) => Shows(o)'
      BY <1>1 DEF Shows, OnARow, browser
  <2>4. UNCHANGED <<direction, RemoteNow, remote_current_path, pending_source, PasswordFits>>
      BY <1>1 DEF RemoteNow, PasswordFits, pending, paths
  <2>5. CASE direction = "Push"
      BY <1>1, <2>2, <2>3, <2>4, <2>5
         DEF EscTarget, BeforeLocal, BrowsersFilled, PushSoFar, PullSoFar
  <2>6. CASE direction = "Pull"
      BY <1>1, <2>1, <2>2, <2>3, <2>4, <2>6
         DEF EscTarget, StepsBack, BrowsersFilled, PushSoFar, PullSoFar
  <2> QED
      BY <2>5, <2>6 DEF IndInv, TypeOK
<1> QED
    BY <1>3, <1>4, <1>5 DEF IndInv

(* What the browsers leave alone keeps its type.                           *)
LEMMA BrowseTypes ==
    ASSUME IndInv, sent' = NotSent, RowTypes', mode' \in Modes, tasks' \in 0..MaxTasks \cup {None},
           pending_source' \in Origin, remote_current_path' \in Origin,
           UNCHANGED <<direction, inputs, pending, board, back>>
    PROVE  TypeOK' /\ HostsInOrder' /\ EveryTaskIsChosen'
<1>1. TypeOK'
    BY DEF IndInv, TypeOK, RowTypes, Rows, inputs, pending, board
<1>2. HostsInOrder' /\ EveryTaskIsChosen'
    BY DEF IndInv, HostsInOrder, OnAHost, EveryTaskIsChosen, inputs
<1> QED
    BY <1>1, <1>2

LEMMA KeptTypes ==
    ASSUME IndInv
    PROVE  /\ pending_source \in Origin /\ remote_current_path \in Origin
           /\ mode \in Modes /\ tasks \in 0..MaxTasks \cup {None} /\ direction \in {"Push", "Pull"}
           /\ RemoteNow \in Origin /\ \A p \in Origin : Picked(p) \in Origin
BY OriginTypes DEF IndInv, TypeOK, Picked

LEMMA BrowserMoveInv ==
    ASSUME IndInv, BrowserMove, sent' = NotSent
    PROVE  IndInv'
<1>1. /\ UNCHANGED <<mode, tasks, direction, inputs, pending, paths, dir_entries, listed,
                     board, back>>
      /\ Select(selected_idx, Len(dir_entries))
    BY DEF BrowserMove
<1>2. Len(dir_entries) \in Nat /\ DOMAIN dir_entries = 1..Len(dir_entries)
    BY LenProperties DEF IndInv, TypeOK
<1>3. RowTypes' /\ (OnARow => OnARow')
    BY <1>1, <1>2 DEF IndInv, TypeOK, RowTypes, Rows, Select, OnARow
<1>4. TypeOK' /\ HostsInOrder' /\ EveryTaskIsChosen'
    BY <1>1, <1>3, KeptTypes, BrowseTypes DEF paths
<1>5. \A o : Shows(o) => Shows(o)'
    BY <1>1, <1>3 DEF Shows
<1>6. UNCHANGED <<direction, RemoteNow, remote_current_path, pending_source, PasswordFits, Straight>>
    BY <1>1 DEF RemoteNow, PasswordFits, Straight, pending, paths
<1>7. Straight' => BrowsersFilled' /\ PushSoFar' /\ PullSoFar'
    BY <1>1, <1>5, <1>6 DEF IndInv, BrowsersFilled, PushSoFar, PullSoFar
<1> QED
    BY <1>4, <1>7 DEF IndInv

LEMMA LocalEnterInv ==
    ASSUME IndInv, LocalEnter, sent' = NotSent
    PROVE  IndInv'
<1>1. /\ UNCHANGED <<mode, tasks, direction, inputs, pending, paths, board, back>>
      /\ mode = "LocalBrowser" /\ RowTypes' /\ Shows(Local)'
    BY LocalListed DEF LocalEnter
<1>2. TypeOK' /\ HostsInOrder' /\ EveryTaskIsChosen'
    BY <1>1, KeptTypes, BrowseTypes DEF paths
<1>3. UNCHANGED <<direction, RemoteNow, remote_current_path, PasswordFits, Straight>>
    BY <1>1 DEF RemoteNow, PasswordFits, Straight, pending, paths
<1>4. Straight' => BrowsersFilled' /\ PushSoFar' /\ PullSoFar'
    BY <1>1, <1>3 DEF IndInv, BrowsersFilled, PushSoFar, PullSoFar
<1> QED
    BY <1>2, <1>4 DEF IndInv

LEMMA LocalSelectInv ==
    ASSUME IndInv, LocalSelect, sent' = NotSent
    PROVE  IndInv'
<1>1. /\ mode = "LocalBrowser" /\ pending_source' = Picked(Local)
      /\ UNCHANGED <<direction, pending, remote_current_path, browser, board, back>>
    BY DEF LocalSelect
<1>2. /\ \A o : Shows(o) => Shows(o)'
      /\ UNCHANGED <<direction, RemoteNow, remote_current_path, PasswordFits, Straight>>
    BY <1>1 DEF Shows, OnARow, RemoteNow, PasswordFits, Straight, pending, browser
<1>3. pending_source' \in Origin /\ RowTypes'
    BY <1>1, OriginTypes, KeptTypes, RowsKept
<1>4. Straight => pending_source' = Local /\ Shows(Local)
    BY <1>1 DEF IndInv, BrowsersFilled, Picked, Shows
<1>5. CASE direction = "Push"
  <2>1. AskForHost
      BY <1>5 DEF LocalSelect
  <2>2. TypeOK'
      BY <1>1, <1>3, <2>1, AskForHostKeeps
         DEF IndInv, TypeOK, Modes, RowTypes, Rows, pending, board
  <2>3. Straight' => BrowsersFilled' /\ PushSoFar' /\ PullSoFar'
      BY <1>2, <1>4, <1>5, <2>1, AskForHostKeeps DEF BrowsersFilled, PushSoFar, PullSoFar
  <2> QED
      BY <2>1, <2>2, <2>3, AskForHostKeeps DEF IndInv, EveryTaskIsChosen
<1>6. CASE direction = "Pull"
  <2>1. mode' = "SyncModeSelect" /\ tasks' = None /\ UNCHANGED inputs
      BY <1>6 DEF LocalSelect, Enter
  <2>2. TypeOK' /\ HostsInOrder' /\ EveryTaskIsChosen'
      BY <1>1, <1>3, <2>1, KeptTypes, BrowseTypes DEF Modes
  <2>3. Straight' => BrowsersFilled' /\ PushSoFar' /\ PullSoFar'
      BY <1>1, <1>2, <1>4, <1>6, <2>1 DEF IndInv, BrowsersFilled, PushSoFar, PullSoFar
  <2> QED
      BY <2>2, <2>3 DEF IndInv
<1> QED
    BY <1>5, <1>6, KeptTypes

LEMMA RemoteEnterInv ==
    ASSUME IndInv, RemoteEnter, sent' = NotSent
    PROVE  IndInv'
<1>1. /\ UNCHANGED <<mode, tasks, direction, inputs, pending, pending_source, board, back>>
      /\ mode = "RemoteBrowser" /\ remote_current_path' = Picked(remote_current_path)
    BY DEF RemoteEnter
<1>2. RowTypes' /\ (Shows(RemoteNow) => listed' = RemoteNow /\ OnARow')
  <2>1. CASE ListRemote(TRUE)
      BY <2>1, RemoteListed
  <2>2. CASE ListRemote(FALSE)
      BY <2>2, Unlisted, RowsKept DEF Shows, OnARow, browser
  <2> QED
      BY <2>1, <2>2 DEF RemoteEnter
<1>3. TypeOK' /\ HostsInOrder' /\ EveryTaskIsChosen'
    BY <1>1, <1>2, KeptTypes, BrowseTypes
<1>4. UNCHANGED <<direction, RemoteNow, PasswordFits, Straight>>
    BY <1>1 DEF RemoteNow, PasswordFits, Straight, pending
<1>5. Straight' => Shows(RemoteNow)' /\ remote_current_path' = RemoteNow' /\ PasswordFits'
    BY <1>1, <1>2, <1>4 DEF IndInv, BrowsersFilled, Picked, Shows
<1>6. Straight' => BrowsersFilled' /\ PushSoFar' /\ PullSoFar'
    BY <1>1, <1>4, <1>5 DEF IndInv, BrowsersFilled, PushSoFar, PullSoFar
<1> QED
    BY <1>3, <1>6 DEF IndInv

LEMMA RemoteSelectInv ==
    ASSUME IndInv, RemoteSelect, sent' = NotSent
    PROVE  IndInv'
<1>1. /\ UNCHANGED <<direction, inputs, pending, pending_source, board, back>>
      /\ mode = "RemoteBrowser" /\ direction = "Pull" /\ tasks' = None
      /\ remote_current_path' = Picked(remote_current_path)
    BY DEF RemoteSelect, Enter
<1>2. \/ mode' = "LocalBrowser" /\ RowTypes' /\ Shows(Local)'
      \/ mode' = "Dashboard" /\ RowTypes'
    BY LocalListed, Unlisted, RowsKept DEF RemoteSelect, Enter
<1>3. TypeOK' /\ HostsInOrder' /\ EveryTaskIsChosen'
    BY <1>1, <1>2, KeptTypes, BrowseTypes DEF Modes
<1>4. UNCHANGED <<direction, RemoteNow, PasswordFits, Straight>>
    BY <1>1 DEF RemoteNow, PasswordFits, Straight, pending
<1>5. Straight' => remote_current_path' = RemoteNow' /\ PasswordFits'
    BY <1>1, <1>4 DEF IndInv, BrowsersFilled, Picked, Shows
<1>6. Straight' => BrowsersFilled' /\ PushSoFar' /\ PullSoFar'
    BY <1>1, <1>2, <1>5 DEF BrowsersFilled, PushSoFar, PullSoFar
<1> QED
    BY <1>3, <1>6 DEF IndInv

LEMMA NewDirInv ==
    ASSUME IndInv, NewDir, sent' = NotSent
    PROVE  IndInv'
<1>1. /\ UNCHANGED <<direction, inputs, pending, paths, browser, board, back>>
      /\ tasks' = None
      /\ \/ mode = "LocalBrowser" /\ mode' = "CreateLocalDir"
         \/ mode = "RemoteBrowser" /\ mode' = "CreateRemoteDir"
    BY DEF NewDir, Enter, wizard
<1>2. TypeOK' /\ HostsInOrder' /\ EveryTaskIsChosen'
    BY <1>1, KeptTypes, RowsKept, BrowseTypes DEF Modes, paths
<1>3. /\ \A o : Shows(o) => Shows(o)'
      /\ UNCHANGED <<direction, RemoteNow, remote_current_path, pending_source, PasswordFits,
                     Straight>>
    BY <1>1 DEF Shows, OnARow, RemoteNow, PasswordFits, Straight, pending, paths, browser
<1>4. Straight' => BrowsersFilled' /\ PushSoFar' /\ PullSoFar'
    BY <1>1, <1>3 DEF IndInv, BrowsersFilled, PushSoFar, PullSoFar
<1> QED
    BY <1>2, <1>4 DEF IndInv

LEMMA CreateDirInv ==
    ASSUME IndInv, CreateDir, sent' = NotSent
    PROVE  IndInv'
<1>1. /\ UNCHANGED <<direction, inputs, pending, paths, board, back>>
      /\ tasks' = None
      /\ \/ /\ mode = "CreateLocalDir" /\ mode' = "LocalBrowser"
            /\ ListLocal(TRUE) \/ UNCHANGED browser
         \/ /\ mode = "CreateRemoteDir" /\ mode' = "RemoteBrowser"
            /\ ListRemote(TRUE) \/ UNCHANGED browser
    BY DEF CreateDir, Enter
<1>2. UNCHANGED <<direction, RemoteNow, remote_current_path, pending_source, PasswordFits, Straight>>
    BY <1>1 DEF RemoteNow, PasswordFits, Straight, pending, paths
<1>3. RowTypes' /\ mode' \in Modes
    BY <1>1, LocalListed, RemoteListed, RowsKept DEF Modes
<1>4. /\ mode = "CreateLocalDir" /\ Shows(Local) => Shows(Local)'
      /\ mode = "CreateRemoteDir" /\ Shows(RemoteNow) => Shows(RemoteNow)'
    BY <1>1, <1>2, LocalListed, RemoteListed DEF Shows, OnARow, browser
<1>5. TypeOK' /\ HostsInOrder' /\ EveryTaskIsChosen'
    BY <1>1, <1>3, KeptTypes, BrowseTypes DEF paths
<1>6. Straight' => BrowsersFilled' /\ PushSoFar' /\ PullSoFar'
    BY <1>1, <1>2, <1>4 DEF IndInv, BrowsersFilled, PushSoFar, PullSoFar
<1> QED
    BY <1>5, <1>6 DEF IndInv

-----------------------------------------------------------------------------
(* The steps about the host leave the paths and the listing alone.         *)
LEMMA HostStepKeeps ==
    ASSUME IndInv, UNCHANGED <<direction, paths, browser, board, back>>
    PROVE  /\ \A o : Shows(o) => Shows(o)'
           /\ UNCHANGED <<direction, remote_current_path, pending_source, Straight>>
           /\ RowTypes'
BY RowsKept DEF Shows, OnARow, Straight, paths, browser

(* The list of hosts changes under the row that is selected.               *)
LEMMA HostListTypes ==
    ASSUME IndInv
    PROVE  /\ saved_hosts \in Seq(Line) /\ Len(saved_hosts) \in Nat
           /\ DOMAIN saved_hosts = 1..Len(saved_hosts)
           /\ host_list_idx \in Nat \ {0} /\ is_editing_host \in BOOLEAN
           /\ saved_hosts = <<>> => Len(saved_hosts) = 0
BY LenProperties, EmptySeq DEF IndInv, TypeOK

LEMMA KeptWhile ==
    ASSUME KeptUntilARow
    PROVE  kept' \in BOOLEAN /\ (kept => OnAHost' \/ kept')
BY DEF KeptUntilARow

LEMMA HostMoveInv ==
    ASSUME IndInv, HostMove, sent' = NotSent
    PROVE  IndInv'
<1>1. /\ UNCHANGED <<mode, tasks, saved_hosts, is_editing_host, pending>>
      /\ UNCHANGED <<direction, paths, browser, board, back>>
      /\ mode = "HostSelect" /\ Select(host_list_idx, Len(saved_hosts))
      /\ kept' \in BOOLEAN /\ (kept => OnAHost' \/ kept')
    BY KeptWhile DEF HostMove
<1>2. host_list_idx' \in Nat \ {0} /\ HostsInOrder'
    BY <1>1, HostListTypes DEF IndInv, HostsInOrder, OnAHost, Select
<1>3. TypeOK'
    BY <1>1, <1>2, HostStepKeeps DEF IndInv, TypeOK, RowTypes, Rows, pending, paths, board
<1>4. Straight' => BrowsersFilled' /\ PushSoFar' /\ PullSoFar'
    BY <1>1, HostStepKeeps DEF IndInv, BrowsersFilled, PushSoFar, PullSoFar
<1> QED
    BY <1>2, <1>3, <1>4 DEF IndInv, EveryTaskIsChosen

LEMMA HostChosenInv ==
    ASSUME IndInv, HostChosen, sent' = NotSent
    PROVE  IndInv'
<1>1. /\ UNCHANGED <<inputs, pending_remote_port, pending_password>>
      /\ UNCHANGED <<direction, paths, browser, board, back>>
      /\ mode = "HostSelect" /\ mode' = "PasswordInput" /\ tasks' = None
      /\ OnAHost /\ pending_remote_host' = saved_hosts[host_list_idx]
    BY DEF HostChosen, Enter
<1>2. pending_remote_host' \in HostText
  <2>1. saved_hosts[host_list_idx] \in Line
      BY <1>1, HostListTypes, ElementOfSeq DEF OnAHost
  <2> QED
      BY <1>1, <2>1 DEF HostText
<1>3. TypeOK' /\ HostsInOrder'
    BY <1>1, <1>2, HostStepKeeps
       DEF IndInv, TypeOK, Modes, RowTypes, Rows, HostsInOrder, OnAHost, inputs, paths, board
<1>4. Straight' => BrowsersFilled' /\ PushSoFar' /\ PullSoFar'
    BY <1>1, HostStepKeeps DEF IndInv, BrowsersFilled, PushSoFar, PullSoFar
<1> QED
    BY <1>3, <1>4 DEF IndInv, EveryTaskIsChosen

LEMMA HostTypingInv ==
    ASSUME IndInv, HostTyping, sent' = NotSent
    PROVE  IndInv'
<1>1. /\ UNCHANGED <<saved_hosts, host_list_idx, kept, pending>>
      /\ UNCHANGED <<direction, paths, browser, board, back>>
      /\ mode = "HostSelect" /\ mode' = "RemoteHostInput" /\ tasks' = None
    BY DEF HostTyping, Enter
<1>e. is_editing_host' \in BOOLEAN
  <2>1. is_editing_host' \in {FALSE, OnAHost}
      BY Zenon DEF HostTyping
  <2>2. OnAHost \in BOOLEAN
      BY DEF OnAHost
  <2> QED
      BY <2>1, <2>2, Zenon
<1>2. TypeOK' /\ HostsInOrder'
    BY <1>1, <1>e, HostStepKeeps
       DEF IndInv, TypeOK, Modes, RowTypes, Rows, HostsInOrder, OnAHost, pending, paths, board
<1>3. Straight' => BrowsersFilled' /\ PushSoFar' /\ PullSoFar'
    BY <1>1, HostStepKeeps DEF IndInv, BrowsersFilled, PushSoFar, PullSoFar
<1> QED
    BY <1>2, <1>3 DEF IndInv, EveryTaskIsChosen

LEMMA WithoutProperties ==
    ASSUME NEW S, NEW s \in Seq(S), NEW i \in 1..Len(s)
    PROVE  Without(s, i) \in Seq(S) /\ Len(Without(s, i)) = Len(s) - 1
<1> DEFINE low == SubSeq(s, 1, i - 1)
           high == SubSeq(s, i + 1, Len(s))
<1>1. Len(s) \in Nat /\ \A j \in 1..Len(s) : s[j] \in S
    BY LenProperties, ElementOfSeq
<1>2. low \in Seq(S) /\ Len(low) = i - 1
    BY <1>1, SubSeqProperties
<1>3. high \in Seq(S) /\ Len(high) = Len(s) - i
    BY <1>1, SubSeqProperties
<1>4. low \o high \in Seq(S) /\ Len(low \o high) = Len(low) + Len(high)
    BY <1>2, <1>3, ConcatProperties
<1>5. Without(s, i) = low \o high
    BY DEF Without
<1>6. i - 1 + (Len(s) - i) = Len(s) - 1
    BY <1>1
<1> HIDE DEF low, high
<1> QED
    BY <1>2, <1>3, <1>4, <1>5, <1>6, Zenon

LEMMA HostDeletedInv ==
    ASSUME IndInv, HostDeleted, sent' = NotSent
    PROVE  IndInv'
<1>1. /\ UNCHANGED <<mode, tasks, is_editing_host, kept, pending>>
      /\ UNCHANGED <<direction, paths, browser, board, back>>
      /\ mode = "HostSelect" /\ host_list_idx \in 1..Len(saved_hosts)
      /\ saved_hosts' = Without(saved_hosts, host_list_idx)
      /\ host_list_idx' = IdxAfterDelete
    BY HostListTypes DEF HostDeleted, OnAHost
<1>2. saved_hosts' \in Seq(Line) /\ Len(saved_hosts') = Len(saved_hosts) - 1
    BY <1>1, HostListTypes, WithoutProperties
<1>3. DOMAIN saved_hosts' = 1..Len(saved_hosts') /\ (Len(saved_hosts') = 0 => saved_hosts' = <<>>)
    BY <1>2, LenProperties, EmptySeq
<1>4. host_list_idx' \in Nat \ {0} /\ HostsInOrder'
    BY <1>1, <1>2, <1>3, HostListTypes DEF IdxAfterDelete, HostsInOrder, OnAHost
<1>5. TypeOK'
    BY <1>1, <1>2, <1>4, HostStepKeeps DEF IndInv, TypeOK, RowTypes, Rows, pending, paths, board
<1>6. Straight' => BrowsersFilled' /\ PushSoFar' /\ PullSoFar'
    BY <1>1, HostStepKeeps DEF IndInv, BrowsersFilled, PushSoFar, PullSoFar
<1> QED
    BY <1>4, <1>5, <1>6 DEF IndInv, EveryTaskIsChosen

(* The list never gets shorter, and is not empty if a line was typed.      *)
LEMMA SavedWithProperties ==
    ASSUME IndInv, NEW text \in Line \cup {NoHost}
    PROVE  SavedWith(text) \in Seq(Line) /\ Len(SavedWith(text)) >= Len(saved_hosts)
<1>1. CASE text = NoHost
    BY <1>1, HostListTypes DEF SavedWith
<1>2. CASE text # NoHost
  <2>1. text \in Line
      BY <1>2
  <2>2. OnAHost => /\ [saved_hosts EXCEPT ![host_list_idx] = text] \in Seq(Line)
                   /\ Len([saved_hosts EXCEPT ![host_list_idx] = text]) = Len(saved_hosts)
      BY <2>1, HostListTypes, ExceptSeq DEF OnAHost
  <2>3. /\ Append(saved_hosts, text) \in Seq(Line)
        /\ Len(Append(saved_hosts, text)) = Len(saved_hosts) + 1
      BY <2>1, HostListTypes, AppendProperties
  <2> QED
      BY <1>2, <2>2, <2>3, HostListTypes DEF SavedWith
<1> QED
    BY <1>1, <1>2

LEMMA HostEnteredInv ==
    ASSUME IndInv, HostEntered, sent' = NotSent
    PROVE  IndInv'
<1>1. PICK text \in Line \cup {NoHost} :
         /\ saved_hosts' = SavedWith(text)
         /\ pending_remote_host' = [name |-> text.name, port |-> None]
    BY DEF HostEntered
<1>2. /\ UNCHANGED <<host_list_idx, is_editing_host, pending_remote_port, pending_password>>
      /\ UNCHANGED <<direction, paths, browser, board, back>>
      /\ mode = "RemoteHostInput" /\ mode' = "RemotePortInput" /\ tasks' = None
      /\ kept' \in BOOLEAN /\ (kept => OnAHost' \/ kept')
    BY KeptWhile DEF HostEntered, Enter
<1>3. pending_remote_host' \in HostText
    BY <1>1 DEF HostText, NoHost
<1>4. saved_hosts' \in Seq(Line) /\ Len(saved_hosts') >= Len(saved_hosts)
    BY <1>1, SavedWithProperties
<1>5. /\ DOMAIN saved_hosts' = 1..Len(saved_hosts') /\ Len(saved_hosts') \in Nat
      /\ Len(saved_hosts') = 0 => saved_hosts' = <<>>
    BY <1>4, LenProperties, EmptySeq
<1>6. HostsInOrder'
    BY <1>2, <1>4, <1>5, HostListTypes DEF IndInv, HostsInOrder, OnAHost
<1>7. TypeOK'
    BY <1>2, <1>3, <1>4, HostStepKeeps DEF IndInv, TypeOK, Modes, RowTypes, Rows, paths, board
<1>8. Straight' => BrowsersFilled' /\ PushSoFar' /\ PullSoFar'
    BY <1>2, HostStepKeeps DEF IndInv, BrowsersFilled, PushSoFar, PullSoFar
<1> QED
    BY <1>6, <1>7, <1>8 DEF IndInv, EveryTaskIsChosen

LEMMA PortEnteredInv ==
    ASSUME IndInv, PortEntered, sent' = NotSent
    PROVE  IndInv'
<1>1. /\ UNCHANGED <<inputs, pending_remote_host, pending_password>>
      /\ UNCHANGED <<direction, paths, browser, board, back>>
      /\ mode = "RemotePortInput" /\ mode' = "PasswordInput" /\ tasks' = None
      /\ pending_remote_port' \in Port
    BY DEF PortEntered, Enter
<1>2. TypeOK' /\ HostsInOrder'
    BY <1>1, HostStepKeeps
       DEF IndInv, TypeOK, Modes, RowTypes, Rows, HostsInOrder, OnAHost, inputs, paths, board
<1>3. Straight' => BrowsersFilled' /\ PushSoFar' /\ PullSoFar'
    BY <1>1, HostStepKeeps DEF IndInv, BrowsersFilled, PushSoFar, PullSoFar
<1> QED
    BY <1>2, <1>3 DEF IndInv, EveryTaskIsChosen

-----------------------------------------------------------------------------
(* The remote browser opens filled with the home of the host, or not.      *)
LEMMA OpenRemoteKeeps ==
    ASSUME IndInv, OpenRemote
    PROVE  /\ remote_current_path' = RemoteNow /\ pending_source' = pending_source
           /\ tasks' = None /\ RowTypes'
           /\ \/ mode' = "RemoteBrowser" /\ listed' = RemoteNow /\ OnARow'
              \/ mode' = mode /\ UNCHANGED browser
<1>1. CASE ListRemote(TRUE) /\ Enter("RemoteBrowser")
    BY <1>1, RemoteListed DEF OpenRemote, RemoteHome, Enter
<1>2. CASE ListRemote(FALSE) /\ Enter(mode)
    BY <1>2, Unlisted, RowsKept DEF OpenRemote, RemoteHome, Enter
<1> QED
    BY <1>1, <1>2 DEF OpenRemote

LEMMA PasswordEnteredInv ==
    ASSUME IndInv, PasswordEntered, sent' = NotSent
    PROVE  IndInv'
<1>1. /\ mode = "PasswordInput" /\ pending_password' \in {None, pending_remote_host}
      /\ UNCHANGED <<direction, inputs, pending_remote_host, pending_remote_port, board,
                     back>>
    BY DEF PasswordEntered, Password
<1>2. UNCHANGED <<RemoteNow, Straight>> /\ PasswordFits'
    BY <1>1 DEF RemoteNow, PasswordFits, Straight
<1>3. CASE direction = "Push"
  <2>1. mode' = "SyncModeSelect" /\ tasks' = None /\ UNCHANGED <<paths, browser>>
      BY <1>3 DEF PasswordEntered, Enter
  <2>2. \A o : Shows(o) => Shows(o)'
      BY <2>1 DEF Shows, OnARow, browser
  <2>3. TypeOK' /\ HostsInOrder'
      BY <1>1, <2>1, RowsKept
         DEF IndInv, TypeOK, Modes, RowTypes, Rows, HostsInOrder, OnAHost, inputs, paths, board
  <2>4. Straight' => BrowsersFilled' /\ PushSoFar' /\ PullSoFar'
      BY <1>1, <1>2, <1>3, <2>1, <2>2 DEF IndInv, BrowsersFilled, PushSoFar, PullSoFar, paths
  <2> QED
      BY <2>3, <2>4 DEF IndInv, EveryTaskIsChosen
<1>4. CASE direction = "Pull"
  <2>1. OpenRemote
      BY <1>4 DEF PasswordEntered
  <2>2. TypeOK' /\ HostsInOrder'
      BY <1>1, <2>1, OpenRemoteKeeps, KeptTypes
         DEF IndInv, TypeOK, Modes, RowTypes, Rows, HostsInOrder, OnAHost, inputs, board
  <2>3. Straight' => BrowsersFilled' /\ PushSoFar' /\ PullSoFar'
      BY <1>1, <1>2, <1>4, <2>1, OpenRemoteKeeps DEF BrowsersFilled, PushSoFar, PullSoFar, Shows
  <2> QED
      BY <2>2, <2>3 DEF IndInv, EveryTaskIsChosen
<1> QED
    BY <1>3, <1>4, KeptTypes

LEMMA ModeChosenInv ==
    ASSUME IndInv, ModeChosen, sent' = NotSent
    PROVE  IndInv'
<1>1. /\ mode = "SyncModeSelect" /\ direction = "Push" /\ OpenRemote
      /\ UNCHANGED <<direction, inputs, pending, board, back>>
    BY DEF ModeChosen
<1>2. UNCHANGED <<RemoteNow, PasswordFits, Straight>>
    BY <1>1 DEF RemoteNow, PasswordFits, Straight, pending
<1>3. TypeOK' /\ HostsInOrder'
    BY <1>1, OpenRemoteKeeps, KeptTypes
       DEF IndInv, TypeOK, Modes, RowTypes, Rows, HostsInOrder, OnAHost, inputs, pending, board
<1>4. Straight' => BrowsersFilled' /\ PushSoFar' /\ PullSoFar'
  <2>1. CASE mode' = "RemoteBrowser" /\ listed' = RemoteNow /\ OnARow'
      BY <1>1, <1>2, <2>1, OpenRemoteKeeps
         DEF IndInv, BrowsersFilled, PushSoFar, PullSoFar, Shows
  <2>2. CASE mode' = mode /\ UNCHANGED browser
      BY <1>1, <1>2, <2>2, OpenRemoteKeeps
         DEF IndInv, BrowsersFilled, PushSoFar, PullSoFar, Shows, OnARow, browser
  <2> QED
      BY <1>1, <2>1, <2>2, OpenRemoteKeeps
<1> QED
    BY <1>3, <1>4 DEF IndInv, EveryTaskIsChosen

(* A task that is sent with the path at this host; the wizard is left, or  *)
(* stays where it was.                                                     *)
LEMMA StartTaskInv ==
    ASSUME IndInv, NEW path \in Origin, StartTask(path),
           Straight => /\ pending_source = Local /\ path = RemoteNow /\ PasswordFits
    PROVE  IndInv'
<1>1. /\ UNCHANGED <<direction, inputs, pending, browser, board, back>>
      /\ sent' = [source |-> pending_source, path |-> path, direction |-> direction,
                  host |-> pending_remote_host, port |-> pending_remote_port,
                  password |-> pending_password]
    BY DEF StartTask
<1>3. \/ mode' = "Dashboard" /\ tasks' = None /\ pending_source' = None
                             /\ remote_current_path' = None
      \/ UNCHANGED <<mode, tasks, paths>>
    BY DEF StartTask, Enter
<1>4. sent' \in Task
    BY <1>1 DEF IndInv, TypeOK, Task
<1>5. TypeOK' /\ HostsInOrder'
  <2>1. /\ mode' \in Modes /\ tasks' \in 0..MaxTasks \cup {None}
        /\ pending_source' \in Origin /\ remote_current_path' \in Origin
      BY <1>3, KeptTypes DEF Modes, Origin, paths
  <2> QED
      BY <1>1, <1>4, <2>1
         DEF IndInv, TypeOK, HostsInOrder, OnAHost, inputs, pending, browser, board
<1>6. EveryTaskIsChosen'
    BY <1>1 DEF EveryTaskIsChosen, Straight, RemoteNow, PasswordFits
<1>7. Straight' => BrowsersFilled' /\ PushSoFar' /\ PullSoFar'
  <2>1. /\ \A o : Shows(o) => Shows(o)'
        /\ UNCHANGED <<direction, RemoteNow, PasswordFits, Straight>>
      BY <1>1 DEF Shows, OnARow, RemoteNow, PasswordFits, Straight, pending, browser
  <2>2. CASE mode' = "Dashboard"
      BY <2>2 DEF BrowsersFilled, PushSoFar, PullSoFar
  <2>3. CASE UNCHANGED <<mode, tasks, paths>>
      BY <2>1, <2>3 DEF IndInv, BrowsersFilled, PushSoFar, PullSoFar, paths
  <2> QED
      BY <1>3, <2>2, <2>3
<1> QED
    BY <1>5, <1>6, <1>7 DEF IndInv

LEMMA StartInv ==
    ASSUME IndInv, Start
    PROVE  IndInv'
<1>1. CASE StartPush
  <2>1. /\ mode = "RemoteBrowser" /\ direction = "Push"
        /\ StartTask(Picked(remote_current_path))
      BY <1>1 DEF StartPush
  <2>2. Straight => /\ pending_source = Local /\ PasswordFits
                    /\ Picked(remote_current_path) = RemoteNow
      BY <2>1 DEF IndInv, BrowsersFilled, PushSoFar, Picked, Shows
  <2> QED
      BY <2>1, <2>2, KeptTypes, StartTaskInv
<1>2. CASE StartPull
  <2>1. mode = "SyncModeSelect" /\ direction = "Pull" /\ StartTask(remote_current_path)
      BY <1>2 DEF StartPull
  <2>2. Straight => /\ pending_source = Local /\ PasswordFits
                    /\ remote_current_path = RemoteNow
      BY <2>1 DEF IndInv, PullSoFar
  <2> QED
      BY <2>1, <2>2, KeptTypes, StartTaskInv
<1> QED
    BY <1>1, <1>2 DEF Start

(* The program as it starts.                                               *)
LEMMA StartTypes ==
    /\ NoHost \in HostText /\ None \in Origin
    /\ <<>> \in Seq({"up", "dir", "file", "error"}) /\ <<>> \in Seq(Line)
<1>1. NoHost \in HostText /\ None \in Origin
    BY DEF NoHost, HostText, Origin
<1>2. <<>> \in Seq({"up", "dir", "file", "error"}) /\ <<>> \in Seq(Line)
    BY EmptySeq
<1> QED
    BY <1>1, <1>2

LEMMA InitInv == Init => IndInv
<1> SUFFICES ASSUME Init PROVE IndInv
    OBVIOUS
<1>1. TypeOK
  <2>1. mode \in Modes
      BY DEF Init, Modes
  <2>2. sent \in Task \cup {NotSent}
      BY DEF Init
  <2>3. dir_entries \in Seq({"up", "dir", "file", "error"}) /\ saved_hosts \in Seq(Line)
      BY StartTypes, LoadedLists DEF Init
  <2>4. /\ pending_remote_host \in HostText /\ pending_remote_port \in Port
        /\ pending_password \in HostText \cup {None}
      BY StartTypes DEF Init
  <2>5. /\ pending_source \in Origin /\ remote_current_path \in Origin /\ listed \in Origin
      BY StartTypes DEF Init
  <2>6. direction \in {"Push", "Pull"} /\ is_editing_host \in BOOLEAN
        /\ tasks \in 0..MaxTasks \cup {None} /\ back \in BOOLEAN /\ kept \in BOOLEAN
      BY DEF Init
  <2>7. /\ host_list_idx \in Nat \ {0} /\ selected_idx \in Nat \ {0}
        /\ dashboard_selected_idx \in Nat \ {0} /\ seen \in Nat
      BY DEF Init
  <2> QED
      BY <2>1, <2>2, <2>3, <2>4, <2>5, <2>6, <2>7 DEF TypeOK
<1>2. HostsInOrder
    BY LoadedLists DEF Init, HostsInOrder, OnAHost
<1>3. EveryTaskIsChosen /\ BrowsersFilled /\ PushSoFar /\ PullSoFar
    BY DEF Init, EveryTaskIsChosen, BrowsersFilled, PushSoFar, PullSoFar
<1> QED
    BY <1>1, <1>2, <1>3 DEF IndInv

LEMMA QuitInv ==
    ASSUME IndInv, Quit, sent' = NotSent
    PROVE  IndInv'
<1>1. /\ saved_hosts' \in Seq(Line) /\ host_list_idx' = 1
      /\ saved_hosts' = <<>> \/ 1 \in DOMAIN saved_hosts'
    BY LoadedLists DEF Quit
<1>2. TypeOK'
  <2>1. mode' \in Modes /\ sent' \in Task \cup {NotSent}
      BY DEF Quit, Enter, Modes
  <2>2. /\ dir_entries' \in Seq({"up", "dir", "file", "error"})
        /\ saved_hosts' \in Seq(Line)
      BY <1>1, StartTypes DEF Quit
  <2>3. /\ pending_remote_host' \in HostText /\ pending_remote_port' \in Port
        /\ pending_password' \in HostText \cup {None}
      BY StartTypes DEF Quit
  <2>4. /\ pending_source' \in Origin /\ remote_current_path' \in Origin
        /\ listed' \in Origin
      BY StartTypes DEF Quit
  <2>5. direction' \in {"Push", "Pull"} /\ is_editing_host' \in BOOLEAN
        /\ tasks' \in 0..MaxTasks \cup {None} /\ back' \in BOOLEAN /\ kept' \in BOOLEAN
      BY DEF Quit, Enter
  <2>6. /\ host_list_idx' \in Nat \ {0} /\ selected_idx' \in Nat \ {0}
        /\ dashboard_selected_idx' \in Nat \ {0} /\ seen' \in Nat
      BY DEF Quit
  <2> QED
      BY <2>1, <2>2, <2>3, <2>4, <2>5, <2>6 DEF TypeOK
<1>3. HostsInOrder'
    BY <1>1 DEF HostsInOrder, OnAHost
<1>4. EveryTaskIsChosen' /\ BrowsersFilled' /\ PushSoFar' /\ PullSoFar'
    BY DEF Quit, Enter, EveryTaskIsChosen, BrowsersFilled, PushSoFar, PullSoFar
<1> QED
    BY <1>2, <1>3, <1>4 DEF IndInv

LEMMA StutterInv ==
    ASSUME IndInv, UNCHANGED vars
    PROVE  IndInv'
BY DEF IndInv, TypeOK, HostsInOrder, OnAHost, EveryTaskIsChosen, Straight, BrowsersFilled,
       PushSoFar, PullSoFar, Shows, OnARow, PasswordFits, RemoteNow, vars, inputs, pending,
       paths, browser, board

LEMMA NextInv ==
    ASSUME IndInv, [Next]_vars
    PROVE  IndInv'
<1>1. CASE Start
    BY <1>1, StartInv
<1>2. CASE Dashboard /\ sent' = NotSent
    BY <1>2, FetchInv, DashboardMoveInv, DashboardAddInv, DashboardPullInv,
       DashboardStopInv, DashboardViewInv DEF Dashboard
<1>3. CASE Browse /\ sent' = NotSent
    BY <1>3, BrowserMoveInv, LocalEnterInv, LocalSelectInv, RemoteEnterInv,
       RemoteSelectInv, NewDirInv, CreateDirInv DEF Browse
<1>4. CASE Host /\ sent' = NotSent
    BY <1>4, HostMoveInv, HostChosenInv, HostTypingInv, HostDeletedInv, HostEnteredInv,
       PortEnteredInv, PasswordEnteredInv DEF Host
<1>5. CASE (Esc \/ ModeChosen \/ Quit) /\ sent' = NotSent
    BY <1>5, EscInv, ModeChosenInv, QuitInv
<1>6. CASE UNCHANGED vars
    BY <1>6, StutterInv
<1> QED
    BY <1>1, <1>2, <1>3, <1>4, <1>5, <1>6 DEF Next, Other

-----------------------------------------------------------------------------
(* The inductive invariant: what each step of the wizard has got together  *)
(* so far, for any hosts, ports, directories and failing requests.         *)
THEOREM Invariance == Spec => []IndInv
<1>1. IndInv /\ [Next]_vars => IndInv'
    BY NextInv
<1> QED
    BY InitInv, <1>1, PTL DEF Spec

(* Every variable has its type.                                            *)
THEOREM TypeCorrect == Spec => []TypeOK
<1>1. IndInv => TypeOK
    BY DEF IndInv
<1> QED
    BY <1>1, Invariance, PTL

(* The browsers show the tree that their requests are about.               *)
THEOREM BrowsersAreRight == Spec => []BrowsersShowTheirSide
<1>1. IndInv => BrowsersShowTheirSide
    BY DEF IndInv, BrowsersShowTheirSide, BrowsersFilled, Shows
<1> QED
    BY <1>1, Invariance, PTL

(* Every StartTask joins paths and a password that were chosen for the     *)
(* machines it names.                                                      *)
THEOREM TasksAreChosen == Spec => []EveryTaskIsChosen
<1>1. IndInv => EveryTaskIsChosen
    BY DEF IndInv
<1> QED
    BY <1>1, Invariance, PTL

(* A key takes a row that its list has, but for an index that was kept     *)
(* while no host was loaded.                                               *)
THEOREM KeysFindRows == Spec => []KeysFindARow
<1>1. IndInv => KeysFindARow
    BY DEF IndInv, KeysFindARow, HostsInOrder, BrowsersFilled, Shows, Browsers
<1> QED
    BY <1>1, Invariance, PTL

(* Each Esc is a step nearer to the dashboard.                             *)
THEOREM EscIsProgress == Spec => EscLeadsHome
<1>1. TypeOK /\ Esc => EscDistance' < EscDistance
  <2> SUFFICES ASSUME TypeOK, Esc
               PROVE  EscDistance' < EscDistance
      OBVIOUS
  <2>1. mode \in Modes \ {"Dashboard"} /\ direction \in {"Push", "Pull"}
        /\ mode' = EscTarget /\ direction' = direction
      BY DEF TypeOK, Esc, Enter
  <2>2. CASE direction = "Push"
      BY <2>1, <2>2 DEF EscDistance, EscTarget, BeforeLocal, Modes
  <2>3. CASE direction = "Pull"
      BY <2>1, <2>3 DEF EscDistance, EscTarget, BeforeLocal, Modes
  <2> QED
      BY <2>1, <2>2, <2>3
<1> QED
    BY <1>1, TypeCorrect, PTL DEF EscLeadsHome

-----------------------------------------------------------------------------
(* The selection is on one of the rows that it was put on, however the     *)
(* list has changed since.                                                 *)
BoardInv == dashboard_selected_idx <= seen

(* The steps of the wizard leave the dashboard as it was.                  *)
LEMMA WizardLeavesBoard ==
    ASSUME Browse \/ Host \/ Esc \/ ModeChosen \/ DashboardAdd \/ DashboardPull \/ Start
    PROVE  UNCHANGED board
<1>1. CASE Browse
    BY <1>1 DEF Browse, BrowserMove, LocalEnter, LocalSelect, RemoteEnter, RemoteSelect,
                NewDir, CreateDir
<1>2. CASE Host
    BY <1>2 DEF Host, HostMove, HostChosen, HostTyping, HostDeleted, HostEntered,
                PortEntered, PasswordEntered
<1>3. CASE Esc \/ ModeChosen \/ DashboardAdd \/ DashboardPull
    BY <1>3 DEF Esc, ModeChosen, DashboardAdd, DashboardPull
<1>4. CASE Start
    BY <1>4 DEF Start, StartPush, StartPull, StartTask
<1> QED
    BY <1>1, <1>2, <1>3, <1>4

LEMMA BoardStep ==
    ASSUME TypeOK, BoardInv, [Next]_vars
    PROVE  BoardInv'
<1>1. CASE UNCHANGED board
    BY <1>1 DEF BoardInv, board
<1>2. CASE DashboardMove
  <2>1. dashboard_selected_idx' \in Nat \ {0}
        /\ \/ dashboard_selected_idx' = dashboard_selected_idx - 1
           \/ dashboard_selected_idx' = dashboard_selected_idx + 1
                /\ dashboard_selected_idx < tasks
      BY <1>2, BoardTypes DEF DashboardMove, Select
  <2>2. PutOn(IF dashboard_selected_idx' > dashboard_selected_idx THEN tasks ELSE seen)
        /\ OnDashboard
      BY <1>2 DEF DashboardMove
  <2> QED
      BY <2>1, <2>2, BoardTypes DEF PutOn, BoardInv
<1>3. CASE DashboardStop
  <2>1. OnDashboard /\ tasks > 0 /\ PutOn(tasks - 1) /\ dashboard_selected_idx' = RowAfterStop
      BY <1>3 DEF DashboardStop
  <2>2. RowAfterStop = 1 \/ RowAfterStop <= tasks - 1
      BY <2>1, BoardTypes DEF RowAfterStop, Row, Min2
  <2> QED
      BY <2>1, <2>2, BoardTypes DEF PutOn, BoardInv
<1>4. CASE DashboardRestart \/ DashboardView
  <2>1. OnDashboard /\ tasks > 0 /\ PutOn(tasks) /\ dashboard_selected_idx' = Row
      BY <1>4 DEF DashboardRestart, DashboardView
  <2> QED
      BY <2>1, BoardTypes DEF Row, Min2, PutOn, BoardInv
<1>5. CASE Fetch \/ RestartServer
    BY <1>1, <1>5 DEF Fetch, RestartServer
<1>6. CASE Quit
    BY <1>6 DEF Quit, BoardInv
<1>7. CASE Browse \/ Host \/ Esc \/ ModeChosen \/ DashboardAdd \/ DashboardPull \/ Start
    BY <1>1, <1>7, WizardLeavesBoard
<1>8. CASE UNCHANGED vars
    BY <1>1, <1>8 DEF vars
<1> QED
    BY <1>2, <1>3, <1>4, <1>5, <1>6, <1>7, <1>8 DEF Next, Other, Dashboard

(* The keys of this client keep a row of its dashboard highlighted, and    *)
(* put the highlight back after others have cut the list short.            *)
THEOREM KeysHighlight == Spec => []OnlyOthersUnhighlight
<1>1. Init => BoardInv
    BY DEF Init, BoardInv
<1>2. TypeOK /\ BoardInv /\ [Next]_vars => BoardInv'
    BY BoardStep
<1>3. TypeOK /\ BoardInv => OnlyOthersUnhighlight
    BY BoardTypes DEF BoardInv, OnlyOthersUnhighlight
<1> QED
    BY <1>1, <1>2, <1>3, TypeCorrect, PTL DEF Spec

=============================================================================
