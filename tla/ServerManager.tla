---------------------------- MODULE ServerManager ----------------------------
(***************************************************************************)
(* The list of monitored machines: ServerManager, the model behind the     *)
(* list on screen, the dialogs that change it, its copy in QSettings and   *)
(* the timer that polls it (client/managers, client/models, client/ui).    *)
(*                                                                         *)
(* Every handler runs on the GUI thread under server_list_lock.  The tasks *)
(* that poll the machines run on pool threads without the lock: a task     *)
(* holds a row number and looks the machine up when it runs.  A row is     *)
(* 1, 2, ... here, and 0, 1, ... in the code.                              *)
(*                                                                         *)
(* A machine is reduced to its address.  What a poll does is in            *)
(* ServerPoll; here a poll is "running" or not.                            *)
(***************************************************************************)
EXTENDS Integers, Sequences

CONSTANTS
    Ips,         \* addresses a user types
    Machines,    \* kinds of machine that may answer at an address
    Rates,       \* refresh rates
    MaxServers,  \* bound: the list grows to this length
    MaxTasks     \* bound: no tick adds a task to a row with this many waiting

(* "unresolvable": the name lookup throws; "silent": no connection, or not   *)
(* the 302 of a Bakaneko server; "bakaneko": the server of this repository;  *)
(* "lenient": a server that answers any content type; "partial": the same,   *)
(* with an empty field; "garbled": the same, with a body that is not JSON.   *)
Machine == {"unresolvable", "silent", "bakaneko", "lenient", "partial", "garbled"}

ASSUME ManagerAssumption ==
    /\ Machines \subseteq Machine
    /\ MaxServers \in Nat
    /\ MaxTasks \in Nat
    /\ Rates # {}

Row == 1 .. MaxServers

None == 0

Adding == -1

VARIABLES
    phase,     \* where main is: off, loaded, waiting or ui
    servers,   \* ServerManager::servers
    store,     \* the array "servers" in QSettings: its size and its entries
    tasks,     \* tasks of update_server_info waiting on the pool, per row
    waited,    \* rows the start-up wait loop has passed
    view,      \* rows the list view was told of
    sheet,     \* the row of the open settings dialog, Adding or None
    rate,      \* the stored refresh rate
    interval,  \* the interval of the running timer, or None
    dangling   \* some pool task still uses a Server that was destroyed

vars == <<phase, servers, store, tasks, waited, view, sheet, rate, interval, dangling>>

(* rows: the row captured by each changed_state connection of the Server;    *)
(* running: its latch steps_done is not at zero.                             *)
Server == [ip : Ips, rows : Seq(Row), running : BOOLEAN]

TypeOK ==
    /\ phase \in {"off", "loaded", "waiting", "ui"}
    /\ servers \in Seq(Server)
    /\ Len(servers) <= MaxServers
    /\ store \in [size : 0 .. MaxServers, ip : [Row -> Ips \cup {None}]]
    /\ tasks \in [Row -> Nat]
    /\ waited \in 0 .. MaxServers
    /\ view \in 0 .. MaxServers
    /\ sheet \in Row \cup {None, Adding}
    /\ rate \in Rates
    /\ interval \in Rates \cup {None}
    /\ dangling \in BOOLEAN

NewServer(ip, rows) == [ip |-> ip, rows |-> rows, running |-> FALSE]

NoTasks == [row \in Row |-> 0]

(* A first start: nothing is stored yet.                                     *)
Init ==
    /\ phase = "off"
    /\ servers = <<>>
    /\ store = [size |-> 0, ip |-> [row \in Row |-> None]]
    /\ tasks = NoTasks
    /\ waited = 0
    /\ view = 0
    /\ sheet = None
    /\ rate \in Rates
    /\ interval = None
    /\ dangling = FALSE

-------------------------------------------------------------------------------
(* main up to the event loop.                                                *)

(* The constructor: no model exists yet, so nothing is connected to one.     *)
Reload ==
    /\ phase = "off"
    /\ phase' = "loaded"
    /\ servers' = [row \in 1 .. store.size |-> NewServer(store.ip[row], <<>>)]
    /\ UNCHANGED <<store, tasks, waited, view, sheet, rate, interval, dangling>>

OneTaskPerRow == [row \in Row |-> tasks[row] + (IF row <= Len(servers) THEN 1 ELSE 0)]

(* update_server_info(true), up to its wait loop.                            *)
FirstUpdate ==
    /\ phase = "loaded"
    /\ phase' = "waiting"
    /\ tasks' = OneTaskPerRow
    /\ waited' = 0
    /\ UNCHANGED <<servers, store, view, sheet, rate, interval, dangling>>

(* Mutant of SeenStarted: the loop waits for the latch at zero.              *)
SeenIdle(row) == ~servers[row].running

SeenStarted(row) == servers[row].running

(* The loop leaves a row once it finds its latch armed.                      *)
WaitForRow ==
    /\ phase = "waiting"
    /\ waited < Len(servers)
    /\ SeenStarted(waited + 1)
    /\ waited' = waited + 1
    /\ UNCHANGED <<phase, servers, store, tasks, view, sheet, rate, interval, dangling>>

(* Otherwise it handles events and looks again; no event changes the list    *)
(* before the UI is loaded.                                                  *)
processEvents ==
    /\ phase = "waiting"
    /\ waited < Len(servers)
    /\ ~servers[waited + 1].running
    /\ UNCHANGED vars

(* Mutants of Connected: rows are counted from zero; every machine reports   *)
(* to the first row.                                                         *)
ConnectedFromZero(row) == row - 1
ConnectedFirst(row) == 1

Connected(row) == row

(* The list view of the UI creates the model, which connects every row.      *)
setModel ==
    servers' = [row \in DOMAIN servers |->
                  [servers[row] EXCEPT !.rows = Append(@, Connected(row))]]

(* engine.load, then ServerManager::start.                                   *)
start ==
    /\ phase = "waiting"
    /\ waited = Len(servers)
    /\ phase' = "ui"
    /\ setModel
    /\ view' = Len(servers)
    /\ interval' = rate
    /\ UNCHANGED <<store, tasks, waited, sheet, rate, dangling>>

-------------------------------------------------------------------------------
(* The timer and the pool.                                                   *)

(* update_server_info(): one task per row.                                   *)
update_server_info ==
    /\ phase = "ui"
    /\ \A row \in Row : tasks[row] < MaxTasks
    /\ tasks' = OneTaskPerRow
    /\ UNCHANGED <<phase, servers, store, waited, view, sheet, rate, interval, dangling>>

(* The process ends: pool tasks, dialogs and the timer are gone.             *)
Ends ==
    /\ phase' = "off"
    /\ tasks' = NoTasks
    /\ view' = 0
    /\ sheet' = None
    /\ interval' = None
    /\ dangling' = FALSE

(* A task looks its row up now.  A row that is gone by then is read past the *)
(* end of the vector: the task may crash the process or hit nothing.         *)
RunTask(row) ==
    /\ phase \in {"waiting", "ui"}
    /\ tasks[row] > 0
    /\ \/ /\ row <= Len(servers)
          /\ servers' = [servers EXCEPT ![row].running = TRUE]
          /\ tasks' = [tasks EXCEPT ![row] = @ - 1]
          /\ UNCHANGED <<phase, view, sheet, interval, dangling>>
       \/ /\ row > Len(servers)
          /\ tasks' = [tasks EXCEPT ![row] = @ - 1]
          /\ UNCHANGED <<phase, servers, view, sheet, interval, dangling>>
       \/ /\ row > Len(servers)
          /\ Ends
          /\ UNCHANGED servers
    /\ UNCHANGED <<store, waited, rate>>

(* The cycle of a machine ends (see ServerPoll).                             *)
CycleEnds(row) ==
    /\ phase \in {"waiting", "ui"}
    /\ row \in DOMAIN servers
    /\ servers[row].running
    /\ servers' = [servers EXCEPT ![row].running = FALSE]
    /\ UNCHANGED <<phase, store, tasks, waited, view, sheet, rate, interval, dangling>>

(* A pool task of a destroyed Server touches it: the process may crash, or   *)
(* the task ends unnoticed.                                                  *)
DanglingUse ==
    /\ dangling
    /\ \/ Ends
       \/ /\ dangling' = FALSE
          /\ UNCHANGED <<phase, tasks, view, sheet, interval>>
    /\ UNCHANGED <<servers, store, waited, rate>>

-------------------------------------------------------------------------------
(* The user's operations.                                                    *)

(* What get_system_info asks for, and what the server of this repository     *)
(* answers with; it answers any other type with 415.                         *)
RequestType == "application/x-protobuf"

ServedType == "application/json"

(* The outcome of check_if_server and get_system_info: an exception that no  *)
(* one catches, an early return, or a complete answer.                       *)
Contact(machine) ==
    CASE machine \in {"unresolvable", "garbled"} -> "throws"
      [] machine = "lenient" -> "info"
      [] machine = "bakaneko" /\ RequestType = ServedType -> "info"
      [] OTHER -> "nothing"

(* Mutant of Entry: the stored entry is written at the end of the list.      *)
EntryLast(row) == IF row > Len(servers) THEN row ELSE Len(servers)

Entry(row) == row

(* The list, the view and the stored entry of a row that is added or         *)
(* replaced.  The Server that is replaced is destroyed.                      *)
Replace(row, ip) ==
    /\ servers' = IF row = Len(servers) + 1
                  THEN Append(servers, NewServer(ip, <<row>>))
                  ELSE [servers EXCEPT ![row] = NewServer(ip, <<row>>)]
    /\ view' = IF row = Len(servers) + 1 THEN view + 1 ELSE view
    /\ store' = [size |-> Len(servers'), ip |-> [store.ip EXCEPT ![Entry(row)] = ip]]
    /\ dangling' = (dangling \/ (row <= Len(servers) /\ servers[row].running))

(* The dialog that called is closed by the caller.                           *)
change_server_options(row, ip, machine) ==
    \/ /\ Contact(machine) = "throws"
       /\ Ends
       /\ UNCHANGED <<servers, store>>
    \/ /\ Contact(machine) = "nothing"
       /\ sheet' = None
       /\ UNCHANGED <<phase, servers, store, tasks, view, interval, dangling>>
    \/ /\ Contact(machine) = "info"
       /\ Replace(row, ip)
       /\ sheet' = None
       /\ UNCHANGED <<phase, tasks, interval>>

OpenAddDialog ==
    /\ phase = "ui"
    /\ sheet = None
    /\ Len(servers) < MaxServers
    /\ sheet' = Adding
    /\ UNCHANGED <<phase, servers, store, tasks, waited, view, rate, interval, dangling>>

(* The button "Add" of the dialog.                                           *)
AddServer(ip, machine) ==
    /\ phase = "ui"
    /\ sheet = Adding
    /\ change_server_options(Len(servers) + 1, ip, machine)
    /\ UNCHANGED <<waited, rate>>

OpenSettings(row) ==
    /\ phase = "ui"
    /\ sheet = None
    /\ row \in DOMAIN servers
    /\ sheet' = row
    /\ UNCHANGED <<phase, servers, store, tasks, waited, view, rate, interval, dangling>>

(* The button "Update" of the settings dialog.                               *)
UpdateClicked(ip, machine) ==
    /\ phase = "ui"
    /\ sheet \in Row
    /\ change_server_options(sheet, ip, machine)
    /\ UNCHANGED <<waited, rate>>

CancelClicked ==
    /\ phase = "ui"
    /\ sheet # None
    /\ sheet' = None
    /\ UNCHANGED <<phase, servers, store, tasks, waited, view, rate, interval, dangling>>

(* The list without one row: the later rows move up.                         *)
Without(row) ==
    [r \in 1 .. Len(servers) - 1 |-> IF r < row THEN servers[r] ELSE servers[r + 1]]

(* Mutants: only the size is written; endRowRemove is left out.              *)
StoreResized(row) == [store EXCEPT !.size = Len(servers) - 1]
ViewKept == view

StoreWithout(row) ==
    [size |-> Len(servers) - 1,
     ip |-> [r \in Row |-> IF r < Len(servers) THEN Without(row)[r].ip ELSE store.ip[r]]]

ViewWithout == view - 1

(* The rows after the removed one move up; all stored entries are written    *)
(* again, and what lies past the new size stays in the file.                 *)
RemoveServer(row) ==
    /\ phase = "ui"
    /\ sheet = None
    /\ row \in DOMAIN servers
    /\ servers' = Without(row)
    /\ store' = StoreWithout(row)
    /\ view' = ViewWithout
    /\ dangling' = (dangling \/ servers[row].running)
    /\ UNCHANGED <<phase, tasks, waited, sheet, rate, interval>>

(* Settings::set_server_refresh_rate emits changed_wol_port, which restarts  *)
(* no timer.                                                                 *)
set_server_refresh_rate(value) ==
    /\ phase = "ui"
    /\ rate' = value
    /\ UNCHANGED <<phase, servers, store, tasks, waited, view, sheet, interval, dangling>>

Quit ==
    /\ phase = "ui"
    /\ Ends
    /\ UNCHANGED <<servers, store, waited, rate>>

Startup == Reload \/ FirstUpdate \/ WaitForRow \/ processEvents \/ start

Pool == DanglingUse \/ \E row \in Row : RunTask(row) \/ CycleEnds(row)

User ==
    \/ \E ip \in Ips, machine \in Machines : AddServer(ip, machine)
    \/ \E ip \in Ips, machine \in Machines : UpdateClicked(ip, machine)
    \/ \E row \in Row : OpenSettings(row)
    \/ \E row \in Row : RemoveServer(row)
    \/ \E value \in Rates : set_server_refresh_rate(value)
    \/ OpenAddDialog
    \/ CancelClicked
    \/ Quit

Next == Startup \/ update_server_info \/ Pool \/ User

Spec == Init /\ [][Next]_vars

-------------------------------------------------------------------------------
IpsOf(list) == [row \in DOMAIN list |-> list[row].ip]

(* QSettings always holds the list on screen: whatever was added, changed or *)
(* removed, and in whatever order, the entries up to the stored size are the *)
(* addresses of the list, row by row.                                        *)
StoreMatches ==
    /\ store.size = Len(servers)
    /\ \A row \in DOMAIN servers : store.ip[row] = servers[row].ip

(* A restart, after an orderly end or a crash of a pool task or handler,     *)
(* brings back exactly the list that was on screen.                          *)
RestartKeepsList == [][Reload => IpsOf(servers') = IpsOf(servers)]_vars

(* The view was told of every row that came or went: beginRowAppend and      *)
(* endRowAppend, beginRowRemove and endRowRemove pair up with what happens   *)
(* to the vector between and after them.                                     *)
ViewAgrees == phase = "ui" => view = Len(servers)

(* Once the UI is up every machine is connected to the model exactly once,   *)
(* and to a row that is not above its own: setModel connects what Reload     *)
(* loaded, change_server_options what came later, and removals only move     *)
(* rows up.                                                                  *)
ConnectedOnce ==
    phase = "ui" => \A row \in DOMAIN servers :
                        /\ Len(servers[row].rows) = 1
                        /\ servers[row].rows[1] >= row

(* The UI comes up only after every stored machine had its first poll        *)
(* started: update_server_info(true) waits for each of the tasks it queued.  *)
FirstPollBeforeUi == [][start => tasks = NoTasks]_vars
===============================================================================
