------------------------- MODULE ServerManagerProofs -------------------------
(***************************************************************************)
(* Proofs about ServerManager, for every set of addresses, machines and    *)
(* rates and every bound.                                                  *)
(***************************************************************************)
EXTENDS ServerManager, SequenceTheorems, TLAPS

(* Where a dialog may be open, and on which rows.                            *)
SheetFits ==
    /\ sheet # None => phase = "ui"
    /\ sheet = Adding => Len(servers) < MaxServers
    /\ sheet \in Row => sheet <= Len(servers)

(* Before the UI is up, a machine is connected to no row, and the tasks that *)
(* wait are the ones update_server_info(true) queued and that did not run.   *)
StartupTasks ==
    /\ phase \in {"off", "loaded"} => \A row \in Row : tasks[row] = 0
    /\ phase = "loaded" => \A row \in DOMAIN servers :
                               servers[row].rows = <<>> /\ ~servers[row].running
    /\ phase = "waiting" =>
          /\ waited <= Len(servers)
          /\ \A row \in DOMAIN servers : servers[row].rows = <<>>
          /\ \A row \in Row : tasks[row] <= 1
          /\ \A row \in Row : row <= waited => tasks[row] = 0
          /\ \A row \in Row : row > Len(servers) => tasks[row] = 0
          /\ \A row \in DOMAIN servers : servers[row].running => tasks[row] = 0

(* The inductive invariant.                                                  *)
Inv ==
    /\ TypeOK
    /\ StoreMatches
    /\ ViewAgrees
    /\ ConnectedOnce
    /\ SheetFits
    /\ StartupTasks

-------------------------------------------------------------------------------
(* A vector filled by a loop over 1 .. n.                                    *)
LEMMA Filled ==
    ASSUME NEW S, NEW n \in Nat, NEW f, f \in [1 .. n -> S]
    PROVE  f \in Seq(S) /\ Len(f) = n
OBVIOUS

(* The invariant holds before the client was started.                        *)
LEMMA InvInit == Init => Inv
<1> SUFFICES ASSUME Init PROVE Inv
  OBVIOUS
<1>1. servers = <<>> /\ servers \in Seq(Server) /\ Len(servers) = 0
  BY EmptySeq DEF Init
<1>2. TypeOK
  <2>1. Len(servers) <= MaxServers /\ 0 \in 0 .. MaxServers
    BY <1>1, ManagerAssumption
  <2>2. store \in [size : 0 .. MaxServers, ip : [Row -> Ips \cup {None}]]
    BY <2>1 DEF Init
  <2>3. tasks \in [Row -> Nat]
    BY DEF Init, NoTasks
  <2>4. dangling \in BOOLEAN
    BY Zenon DEF Init
  <2> QED
    BY <1>1, <2>1, <2>2, <2>3, <2>4 DEF Init, TypeOK
<1>3. StoreMatches /\ ViewAgrees /\ ConnectedOnce
  BY <1>1 DEF Init, StoreMatches, ViewAgrees, ConnectedOnce
<1>4. SheetFits /\ StartupTasks
  BY <1>1 DEF Init, SheetFits, StartupTasks, NoTasks, None, Adding, Row
<1> QED
  BY <1>2, <1>3, <1>4 DEF Inv

-------------------------------------------------------------------------------
(* Types are kept, given where dialogs may be open.                          *)
LEMMA TypeStep ==
    ASSUME TypeOK, StoreMatches, ViewAgrees, SheetFits, StartupTasks, [Next]_vars
    PROVE  TypeOK'
<1> USE ManagerAssumption
<1>a. /\ Len(servers) \in Nat
      /\ DOMAIN servers = 1 .. Len(servers)
      /\ \A row \in 1 .. Len(servers) : servers[row] \in Server
  BY DEF TypeOK
<1>1. CASE UNCHANGED vars
  BY <1>1 DEF TypeOK, vars
<1>2. CASE Reload
  <2>1. store.size \in 0 .. MaxServers /\ store.size \in Nat
    BY DEF TypeOK
  <2>2. \A row \in 1 .. store.size : store.ip[row] \in Ips
    BY <1>a DEF StoreMatches, Server
  <2>3. \A row \in 1 .. store.size : NewServer(store.ip[row], <<>>) \in Server
    BY <2>2, EmptySeq DEF NewServer, Server
  <2>4. servers' \in [1 .. store.size -> Server]
    BY <1>2, <2>3 DEF Reload
  <2>5. servers' \in Seq(Server) /\ Len(servers') = store.size
    BY <2>1, <2>4, Filled
  <2> QED
    BY <1>2, <2>1, <2>5 DEF TypeOK, Reload
<1>3. CASE FirstUpdate
  <2>1. OneTaskPerRow \in [Row -> Nat]
    BY <1>a DEF TypeOK, OneTaskPerRow
  <2> QED
    BY <1>3, <2>1 DEF TypeOK, FirstUpdate
<1>4. CASE WaitForRow
  BY <1>4, <1>a DEF TypeOK, WaitForRow, SeenStarted
<1>5. CASE processEvents
  BY <1>5 DEF TypeOK, processEvents, vars
<1>6. CASE start
  <2>1. ASSUME NEW row \in 1 .. Len(servers)
        PROVE  [servers[row] EXCEPT !.rows = Append(@, row)] \in Server
    <3>1. row \in Row
      BY <1>a DEF TypeOK, Row
    <3>2. servers[row].rows \in Seq(Row)
      BY <1>a DEF Server
    <3>3. Append(servers[row].rows, row) \in Seq(Row)
      BY <3>1, <3>2, AppendProperties
    <3> QED
      BY <1>a, <3>3 DEF Server
  <2>2. servers' \in [1 .. Len(servers) -> Server]
    BY <1>6, <1>a, <2>1 DEF start, setModel, Connected
  <2>3. servers' \in Seq(Server) /\ Len(servers') = Len(servers)
    BY <1>a, <2>2, Filled
  <2> QED
    BY <1>6, <1>a, <2>3 DEF TypeOK, start
<1>7. CASE update_server_info
  <2>1. OneTaskPerRow \in [Row -> Nat]
    BY <1>a DEF TypeOK, OneTaskPerRow
  <2> QED
    BY <1>7, <2>1 DEF TypeOK, update_server_info
<1>8. Ends => /\ phase' \in {"off", "loaded", "waiting", "ui"}
              /\ tasks' \in [Row -> Nat]
              /\ view' \in 0 .. MaxServers
              /\ sheet' \in Row \cup {None, Adding}
              /\ interval' \in Rates \cup {None}
              /\ dangling' \in BOOLEAN
  <2>1. Ends => dangling' \in BOOLEAN
    BY Zenon DEF Ends
  <2>2. Ends => tasks' \in [Row -> Nat]
    BY DEF Ends, NoTasks
  <2>3. Ends => /\ phase' \in {"off", "loaded", "waiting", "ui"}
                /\ sheet' \in Row \cup {None, Adding}
                /\ interval' \in Rates \cup {None}
    BY DEF Ends
  <2>4. Ends => view' \in 0 .. MaxServers
    BY DEF Ends
  <2> QED
    BY <2>1, <2>2, <2>3, <2>4
<1>9. CASE DanglingUse
  BY <1>8, <1>9 DEF TypeOK, DanglingUse
<1>10. ASSUME NEW row \in Row, RunTask(row) PROVE TypeOK'
  <2>1. [tasks EXCEPT ![row] = @ - 1] \in [Row -> Nat]
    BY <1>10 DEF TypeOK, RunTask
  <2>2. row <= Len(servers) => /\ [servers EXCEPT ![row].running = TRUE] \in Seq(Server)
                               /\ Len([servers EXCEPT ![row].running = TRUE]) = Len(servers)
    <3>1. HAVE row <= Len(servers)
    <3>2. row \in 1 .. Len(servers)
      BY <3>1, <1>a DEF Row
    <3>3. [servers[row] EXCEPT !.running = TRUE] \in Server
      BY <3>2, <1>a DEF Server
    <3> QED
      BY <3>2, <3>3, ExceptSeq DEF TypeOK
  <2> QED
    BY <1>8, <1>10, <2>1, <2>2 DEF TypeOK, RunTask
<1>11. ASSUME NEW row \in Row, CycleEnds(row) PROVE TypeOK'
  <2>1. row \in 1 .. Len(servers)
    BY <1>11, <1>a DEF CycleEnds
  <2>2. [servers[row] EXCEPT !.running = FALSE] \in Server
    BY <2>1, <1>a DEF Server
  <2>3. servers' \in Seq(Server) /\ Len(servers') = Len(servers)
    BY <1>11, <2>1, <2>2, ExceptSeq DEF TypeOK, CycleEnds
  <2> QED
    BY <1>11, <2>3 DEF TypeOK, CycleEnds
<1>12. ASSUME NEW row \in Row, NEW ip \in Ips, NEW machine \in Machines,
              row <= Len(servers) + 1,
              phase = "ui", change_server_options(row, ip, machine), UNCHANGED <<waited, rate>>
       PROVE  TypeOK'
  <2>1. CASE Contact(machine) = "info"
    <3>1. NewServer(ip, <<row>>) \in Server
      BY DEF NewServer, Server
    <3>2. row = Len(servers) + 1 =>
            /\ Append(servers, NewServer(ip, <<row>>)) \in Seq(Server)
            /\ Len(Append(servers, NewServer(ip, <<row>>))) = Len(servers) + 1
      BY <3>1, AppendProperties DEF TypeOK
    <3>3. row # Len(servers) + 1 =>
            /\ [servers EXCEPT ![row] = NewServer(ip, <<row>>)] \in Seq(Server)
            /\ Len([servers EXCEPT ![row] = NewServer(ip, <<row>>)]) = Len(servers)
      <4>1. HAVE row # Len(servers) + 1
      <4>2. row \in 1 .. Len(servers)
        BY <4>1, <1>12, <1>a DEF Row
      <4> QED
        BY <3>1, <4>2, ExceptSeq DEF TypeOK
    <3>4. /\ servers' \in Seq(Server)
          /\ Len(servers') \in 0 .. MaxServers
      <4>1. Replace(row, ip)
        BY <1>12, <2>1 DEF change_server_options
      <4>2. CASE row = Len(servers) + 1
        <5>1. servers' = Append(servers, NewServer(ip, <<row>>))
          BY <4>1, <4>2 DEF Replace, Entry
        <5> QED
          BY <3>2, <4>2, <5>1, <1>a DEF Row
      <4>3. CASE row # Len(servers) + 1
        <5>1. servers' = [servers EXCEPT ![row] = NewServer(ip, <<row>>)]
          BY <4>1, <4>3 DEF Replace, Entry
        <5> QED
          BY <3>3, <4>3, <5>1, <1>a DEF TypeOK
      <4> QED
        BY <4>2, <4>3
    <3>5. store' \in [size : 0 .. MaxServers, ip : [Row -> Ips \cup {None}]]
      <4>1. [store.ip EXCEPT ![row] = ip] \in [Row -> Ips \cup {None}]
        BY DEF TypeOK
      <4> QED
        BY <1>12, <2>1, <3>4, <4>1 DEF change_server_options, Replace, Entry
    <3>6. view' \in 0 .. MaxServers
      BY <1>12, <2>1, <1>a DEF change_server_options, Replace, Entry, TypeOK, ViewAgrees, Row
    <3>7. dangling' \in BOOLEAN
      BY <1>12, <2>1 DEF change_server_options, Replace, Entry
    <3> QED
      BY <1>12, <2>1, <3>4, <3>5, <3>6, <3>7 DEF change_server_options, TypeOK
  <2>2. CASE Contact(machine) = "throws"
    BY <1>8, <1>12, <2>2 DEF change_server_options, TypeOK
  <2>3. CASE Contact(machine) = "nothing"
    BY <1>12, <2>3 DEF change_server_options, TypeOK
  <2> QED
    BY <1>12, <2>1, <2>2, <2>3 DEF change_server_options
<1>13. ASSUME NEW ip \in Ips, NEW machine \in Machines, AddServer(ip, machine) PROVE TypeOK'
  <2>1. Len(servers) + 1 \in Row
    BY <1>13, <1>a DEF AddServer, SheetFits, Row
  <2> QED
    BY <1>12, <1>13, <1>a, <2>1 DEF AddServer
<1>14. ASSUME NEW ip \in Ips, NEW machine \in Machines, UpdateClicked(ip, machine) PROVE TypeOK'
  <2>1. sheet \in Row /\ sheet <= Len(servers) + 1
    BY <1>14, <1>a DEF UpdateClicked, SheetFits, Row
  <2> QED
    BY <1>12, <1>14, <2>1 DEF UpdateClicked
<1>15. ASSUME NEW row \in Row, OpenSettings(row) PROVE TypeOK'
  BY <1>15 DEF TypeOK, OpenSettings
<1>16. ASSUME NEW row \in Row, RemoveServer(row) PROVE TypeOK'
  <2>1. row \in 1 .. Len(servers) /\ Len(servers) - 1 \in Nat
    BY <1>16, <1>a DEF RemoveServer
  <2>2. Without(row) \in [1 .. Len(servers) - 1 -> Server]
    BY <1>16, <1>a, <2>1 DEF Without
  <2>3. servers' = Without(row) /\ store' = StoreWithout(row) /\ view' = ViewWithout
    BY <1>16 DEF RemoveServer
  <2>4. servers' \in Seq(Server) /\ Len(servers') = Len(servers) - 1
    BY <2>1, <2>2, <2>3, Filled
  <2>5. store' \in [size : 0 .. MaxServers, ip : [Row -> Ips \cup {None}]]
    <3>1. \A r \in Row : r < Len(servers) => Without(row)[r].ip \in Ips
      BY <2>1, <2>2 DEF Row, Server
    <3>2. \A r \in Row : store.ip[r] \in Ips \cup {None}
      BY DEF TypeOK
    <3>3. Len(servers) - 1 \in 0 .. MaxServers
      BY <2>1 DEF TypeOK
    <3> QED
      BY <2>3, <3>1, <3>2, <3>3 DEF StoreWithout
  <2>6. view' \in 0 .. MaxServers
    BY <1>16, <2>1, <2>3 DEF RemoveServer, ViewWithout, ViewAgrees, TypeOK
  <2>7. dangling' \in BOOLEAN
    BY <1>16 DEF RemoveServer
  <2> QED
    BY <1>16, <2>1, <2>4, <2>5, <2>6, <2>7 DEF TypeOK, RemoveServer
<1>17. ASSUME NEW value \in Rates, set_server_refresh_rate(value) PROVE TypeOK'
  BY <1>17 DEF TypeOK, set_server_refresh_rate
<1>18. CASE OpenAddDialog
  BY <1>18 DEF TypeOK, OpenAddDialog
<1>19. CASE CancelClicked
  BY <1>19 DEF TypeOK, CancelClicked
<1>20. CASE Quit
  BY <1>8, <1>20 DEF TypeOK, Quit
<1> QED
  BY <1>1, <1>2, <1>3, <1>4, <1>5, <1>6, <1>7, <1>9, <1>10, <1>11, <1>13, <1>14, <1>15,
     <1>16, <1>17, <1>18, <1>19, <1>20 DEF Next, Startup, Pool, User

-------------------------------------------------------------------------------
(* Start-up, the list's operations, the pool tasks and crashes preserve it.  *)
LEMMA InvStep == ASSUME Inv, [Next]_vars PROVE Inv'
<1> USE ManagerAssumption
<1>a. /\ TypeOK /\ StoreMatches /\ ViewAgrees /\ ConnectedOnce /\ SheetFits /\ StartupTasks
  BY DEF Inv
<1>b. TypeOK'
  BY <1>a, TypeStep
<1>c. /\ Len(servers) \in Nat
      /\ DOMAIN servers = 1 .. Len(servers)
      /\ \A row \in 1 .. Len(servers) : servers[row] \in Server
  BY <1>a DEF TypeOK
<1>d. /\ Len(servers') \in Nat
      /\ DOMAIN servers' = 1 .. Len(servers')
  BY <1>b DEF TypeOK
<1>e. \A row \in 1 .. Len(servers) : row \in Row
  BY <1>a, <1>c DEF TypeOK, Row
(* A step that leaves the list and its copies alone.                         *)
<1>1. ASSUME UNCHANGED <<servers, store>>
      PROVE  StoreMatches'
  BY <1>1, <1>a DEF StoreMatches
<1>2. ASSUME Ends, UNCHANGED <<servers, store>> PROVE Inv'
  BY <1>2, <1>1, <1>b DEF Inv, ViewAgrees, ConnectedOnce, SheetFits, StartupTasks, Ends,
     NoTasks, None, Adding, Row
<1>3. CASE UNCHANGED vars
  BY <1>3, <1>a, <1>b DEF Inv, vars, StoreMatches, ViewAgrees, ConnectedOnce, SheetFits,
     StartupTasks
<1>4. CASE Reload
  <2>1. Len(servers') = store.size /\ \A row \in 1 .. store.size :
           servers'[row] = NewServer(store.ip[row], <<>>)
    BY <1>4, <1>a, <1>d DEF Reload, TypeOK
  <2>2. StoreMatches'
    BY <1>4, <2>1, <1>d DEF Reload, StoreMatches, NewServer
  <2>3. StartupTasks'
    BY <1>4, <1>a, <1>d, <2>1 DEF Reload, StartupTasks, NewServer
  <2>4. SheetFits'
    BY <1>4, <1>a DEF Reload, SheetFits, None, Adding, Row
  <2>5. ViewAgrees' /\ ConnectedOnce'
    BY <1>4 DEF Reload, ViewAgrees, ConnectedOnce
  <2> QED
    BY <1>b, <2>2, <2>3, <2>4, <2>5 DEF Inv
<1>5. CASE FirstUpdate
  <2>1. StoreMatches' /\ ViewAgrees' /\ ConnectedOnce'
    BY <1>5, <1>1 DEF FirstUpdate, ViewAgrees, ConnectedOnce
  <2>2. SheetFits'
    BY <1>5, <1>a DEF FirstUpdate, SheetFits, None, Adding, Row
  <2>3. \A row \in Row : tasks'[row] = IF row <= Len(servers) THEN 1 ELSE 0
    BY <1>5, <1>a, <1>c DEF FirstUpdate, OneTaskPerRow, StartupTasks, TypeOK
  <2>4. StartupTasks'
    BY <1>5, <1>a, <1>c, <1>e, <2>3 DEF FirstUpdate, StartupTasks, Row
  <2> QED
    BY <1>b, <2>1, <2>2, <2>4 DEF Inv
<1>6. CASE WaitForRow
  <2>1. StoreMatches' /\ ViewAgrees' /\ ConnectedOnce' /\ SheetFits'
    BY <1>6, <1>1, <1>a DEF WaitForRow, SeenStarted, ViewAgrees, ConnectedOnce, SheetFits
  <2>a. /\ phase = "waiting"
        /\ waited < Len(servers)
        /\ servers[waited + 1].running
    BY <1>6 DEF WaitForRow, SeenStarted
  <2>b. waited + 1 \in 1 .. Len(servers)
    BY <2>a, <1>a, <1>c DEF TypeOK
  <2>c. \A row \in DOMAIN servers : servers[row].running => tasks[row] = 0
    BY <2>a, <1>a DEF StartupTasks
  <2>2. waited + 1 \in 1 .. Len(servers) /\ tasks[waited + 1] = 0
    BY <2>a, <2>b, <2>c, <1>c
  <2>3. StartupTasks'
    BY <1>6, <1>a, <1>c, <2>2 DEF WaitForRow, SeenStarted, StartupTasks, TypeOK, Row
  <2> QED
    BY <1>b, <2>1, <2>3 DEF Inv
<1>7. CASE start
  <2>1. Len(servers') = Len(servers)
    BY <1>7, <1>c, <1>d DEF start, setModel, Connected
  <2>2. \A row \in 1 .. Len(servers) :
           servers'[row] = [servers[row] EXCEPT !.rows = Append(@, row)]
    BY <1>7, <1>c DEF start, setModel, Connected
  <2>3. ASSUME NEW row \in 1 .. Len(servers)
        PROVE  /\ servers'[row].ip = servers[row].ip
               /\ Len(servers'[row].rows) = 1
               /\ servers'[row].rows[1] = row
    <3>1. servers[row].rows = <<>> /\ servers[row].rows \in Seq(Row)
      BY <1>7, <1>a, <1>c DEF start, StartupTasks, Server
    <3>2. /\ servers'[row].ip = servers[row].ip
          /\ servers'[row].rows = Append(servers[row].rows, row)
      BY <1>c, <2>2 DEF Server
    <3>3. Len(servers[row].rows) = 0
      BY <3>1
    <3>4. /\ Len(Append(servers[row].rows, row)) = Len(servers[row].rows) + 1
          /\ Append(servers[row].rows, row)[Len(servers[row].rows) + 1] = row
      BY <1>e, <3>1, AppendProperties
    <3> QED
      BY <3>2, <3>3, <3>4
  <2>4. StoreMatches'
    BY <1>7, <1>a, <1>c, <1>d, <2>1, <2>3 DEF start, StoreMatches
  <2>5. ConnectedOnce'
    BY <1>c, <1>d, <2>1, <2>3 DEF ConnectedOnce
  <2>6. ViewAgrees' /\ StartupTasks'
    BY <1>7, <2>1 DEF start, ViewAgrees, StartupTasks
  <2>7. SheetFits'
    BY <1>7, <1>a, <2>1 DEF start, SheetFits
  <2> QED
    BY <1>b, <2>4, <2>5, <2>6, <2>7 DEF Inv
<1>8. CASE update_server_info
  BY <1>8, <1>a, <1>b, <1>1 DEF Inv, update_server_info, ViewAgrees, ConnectedOnce, SheetFits,
     StartupTasks
<1>9. CASE DanglingUse
  <2>1. CASE Ends
    BY <1>9, <1>2, <2>1 DEF DanglingUse
  <2>2. CASE UNCHANGED <<phase, tasks, view, sheet, interval>>
    BY <1>9, <1>1, <1>a, <1>b, <2>2 DEF Inv, DanglingUse, ViewAgrees, ConnectedOnce, SheetFits,
       StartupTasks
  <2> QED
    BY <1>9, <2>1, <2>2 DEF DanglingUse
(* A step that only sets the flag running of one row.                        *)
<1>10. ASSUME NEW row \in 1 .. Len(servers), NEW flag \in BOOLEAN,
              servers' = [servers EXCEPT ![row].running = flag],
              UNCHANGED <<phase, store, view, sheet>>
       PROVE  /\ Len(servers') = Len(servers)
              /\ \A r \in 1 .. Len(servers) :
                    /\ servers'[r].ip = servers[r].ip
                    /\ servers'[r].rows = servers[r].rows
                    /\ servers'[r].running = IF r = row THEN flag ELSE servers[r].running
              /\ StoreMatches' /\ ViewAgrees' /\ ConnectedOnce' /\ SheetFits'
  <2>1. Len(servers') = Len(servers)
    BY <1>10, <1>c, <1>d
  <2>2. \A r \in 1 .. Len(servers) :
           /\ servers'[r].ip = servers[r].ip
           /\ servers'[r].rows = servers[r].rows
           /\ servers'[r].running = IF r = row THEN flag ELSE servers[r].running
    BY <1>10, <1>c DEF Server
  <2>3. StoreMatches' /\ ViewAgrees'
    BY <1>10, <1>a, <1>c, <1>d, <2>1, <2>2 DEF StoreMatches, ViewAgrees
  <2>4. ConnectedOnce' /\ SheetFits'
    BY <1>10, <1>a, <1>c, <1>d, <2>1, <2>2 DEF ConnectedOnce, SheetFits
  <2> QED
    BY <2>1, <2>2, <2>3, <2>4
<1>11. ASSUME NEW row \in Row, RunTask(row) PROVE Inv'
  <2>1. CASE /\ row <= Len(servers)
             /\ servers' = [servers EXCEPT ![row].running = TRUE]
             /\ tasks' = [tasks EXCEPT ![row] = @ - 1]
             /\ UNCHANGED <<phase, view, sheet, interval, dangling>>
    <3>1. row \in 1 .. Len(servers)
      BY <2>1, <1>c DEF Row
    <3>2. UNCHANGED <<store, waited>>
      BY <1>11 DEF RunTask
    <3>3. /\ Len(servers') = Len(servers)
          /\ \A r \in 1 .. Len(servers) :
                /\ servers'[r].rows = servers[r].rows
                /\ servers'[r].running = IF r = row THEN TRUE ELSE servers[r].running
          /\ StoreMatches' /\ ViewAgrees' /\ ConnectedOnce' /\ SheetFits'
      BY <1>10, <2>1, <3>1, <3>2
    <3>4. /\ tasks'[row] = tasks[row] - 1
          /\ \A r \in Row : r # row => tasks'[r] = tasks[r]
      BY <1>a, <2>1 DEF TypeOK
    <3>5. phase \in {"waiting", "ui"} /\ tasks[row] > 0
      BY <1>11 DEF RunTask
    <3>6. CASE phase = "ui"
      BY <1>b, <2>1, <3>3, <3>6 DEF Inv, StartupTasks
    <3>7. CASE phase = "waiting"
      <4>1. tasks'[row] = 0
        BY <1>a, <3>4, <3>5, <3>7 DEF StartupTasks, TypeOK
      <4>2. \A r \in Row : tasks'[r] <= tasks[r]
        BY <1>a, <3>4 DEF TypeOK
      <4>3. \A r \in 1 .. Len(servers) : servers'[r].running => tasks'[r] = 0
        BY <1>a, <1>c, <1>e, <3>3, <3>4, <3>7, <4>1 DEF StartupTasks
      <4>4. \A r \in Row : tasks[r] = 0 => tasks'[r] = 0
        BY <3>4, <3>5
      <4>5. \A r \in Row : tasks'[r] <= 1
        BY <1>a, <1>b, <3>7, <4>2 DEF StartupTasks, TypeOK
      <4>6. StartupTasks'
        BY <1>a, <1>c, <1>d, <2>1, <3>2, <3>3, <3>7, <4>3, <4>4, <4>5 DEF StartupTasks
      <4> QED
        BY <1>b, <3>3, <4>6 DEF Inv
    <3> QED
      BY <3>5, <3>6, <3>7
  <2>2. CASE /\ row > Len(servers)
             /\ tasks' = [tasks EXCEPT ![row] = @ - 1]
             /\ UNCHANGED <<phase, servers, view, sheet, interval, dangling>>
    <3>1. phase = "ui"
      BY <1>11, <1>a, <2>2 DEF RunTask, StartupTasks
    <3>2. UNCHANGED store
      BY <1>11 DEF RunTask
    <3> QED
      BY <1>1, <1>a, <1>b, <2>2, <3>1, <3>2 DEF Inv, ViewAgrees, ConnectedOnce, SheetFits,
         StartupTasks
  <2>3. CASE Ends /\ UNCHANGED servers
    BY <1>11, <1>2, <2>3 DEF RunTask
  <2> QED
    BY <1>11, <2>1, <2>2, <2>3 DEF RunTask
<1>12. ASSUME NEW row \in Row, CycleEnds(row) PROVE Inv'
  <2>1. row \in 1 .. Len(servers)
    BY <1>12, <1>c DEF CycleEnds
  <2>2. /\ Len(servers') = Len(servers)
        /\ \A r \in 1 .. Len(servers) :
              /\ servers'[r].rows = servers[r].rows
              /\ servers'[r].running = IF r = row THEN FALSE ELSE servers[r].running
        /\ StoreMatches' /\ ViewAgrees' /\ ConnectedOnce' /\ SheetFits'
    BY <1>10, <1>12, <2>1 DEF CycleEnds
  <2>3. StartupTasks'
    BY <1>12, <1>a, <1>c, <1>d, <2>2 DEF CycleEnds, StartupTasks
  <2> QED
    BY <1>b, <2>2, <2>3 DEF Inv
<1>13. ASSUME NEW row \in Row, NEW ip \in Ips, NEW machine \in Machines,
              row <= Len(servers) + 1,
              phase = "ui", change_server_options(row, ip, machine)
       PROVE  Inv'
  <2>1. CASE Contact(machine) = "info"
    <3>1. /\ Replace(row, ip) /\ sheet' = None /\ phase' = "ui"
      BY <1>13, <2>1 DEF change_server_options
    <3>2. /\ NewServer(ip, <<row>>).ip = ip
          /\ NewServer(ip, <<row>>).rows = <<row>>
          /\ Len(<<row>>) = 1 /\ <<row>>[1] = row
      BY DEF NewServer
    <3>3. CASE row = Len(servers) + 1
      <4>1. servers' = Append(servers, NewServer(ip, <<row>>))
        BY <3>1, <3>3 DEF Replace, Entry
      <4>2. NewServer(ip, <<row>>) \in Server
        BY DEF NewServer, Server
      <4>3. /\ Len(servers') = Len(servers) + 1
            /\ \A r \in 1 .. Len(servers) : servers'[r] = servers[r]
            /\ servers'[row] = NewServer(ip, <<row>>)
        BY <1>a, <3>3, <4>1, <4>2, AppendProperties DEF TypeOK
      <4>4. /\ store'.size = Len(servers')
            /\ store'.ip[row] = ip
            /\ \A r \in 1 .. Len(servers) : store'.ip[r] = store.ip[r]
        BY <1>a, <1>c, <1>e, <3>1, <3>3 DEF Replace, Entry, TypeOK
      <4>5. StoreMatches'
        BY <1>a, <1>c, <1>d, <3>2, <3>3, <4>3, <4>4 DEF StoreMatches
      <4>6. ViewAgrees'
        BY <1>13, <1>a, <3>1, <3>3, <4>3 DEF ViewAgrees, Replace, Entry
      <4>7. ConnectedOnce'
        BY <1>13, <1>a, <1>c, <1>d, <3>2, <3>3, <4>3 DEF ConnectedOnce
      <4> QED
        BY <1>b, <3>1, <4>5, <4>6, <4>7 DEF Inv, SheetFits, StartupTasks, None, Adding, Row
    <3>4. CASE row # Len(servers) + 1
      <4>1. row \in 1 .. Len(servers)
        BY <1>13, <1>c, <3>4 DEF Row
      <4>2. servers' = [servers EXCEPT ![row] = NewServer(ip, <<row>>)]
        BY <3>1, <3>4 DEF Replace, Entry
      <4>3. /\ Len(servers') = Len(servers)
            /\ \A r \in 1 .. Len(servers) :
                  servers'[r] = IF r = row THEN NewServer(ip, <<row>>) ELSE servers[r]
        BY <1>c, <1>d, <4>1, <4>2
      <4>4. /\ store'.size = Len(servers')
            /\ \A r \in 1 .. Len(servers) :
                  store'.ip[r] = IF r = row THEN ip ELSE store.ip[r]
        BY <1>a, <1>c, <1>e, <3>1 DEF Replace, Entry, TypeOK
      <4>5. StoreMatches'
        BY <1>a, <1>c, <1>d, <3>2, <4>3, <4>4 DEF StoreMatches
      <4>6. ViewAgrees'
        BY <1>13, <1>a, <3>1, <3>4, <4>3 DEF ViewAgrees, Replace, Entry
      <4>7. ConnectedOnce'
        BY <1>13, <1>a, <1>c, <1>d, <3>2, <4>3 DEF ConnectedOnce
      <4> QED
        BY <1>b, <3>1, <4>5, <4>6, <4>7 DEF Inv, SheetFits, StartupTasks, None, Adding, Row
    <3> QED
      BY <3>3, <3>4
  <2>2. CASE Contact(machine) = "throws"
    BY <1>2, <1>13, <2>2 DEF change_server_options
  <2>3. CASE Contact(machine) = "nothing"
    <3>1. UNCHANGED <<phase, servers, store, tasks, view>> /\ sheet' = None
      BY <1>13, <2>3 DEF change_server_options
    <3>2. SheetFits' /\ StartupTasks'
      BY <1>13, <3>1 DEF SheetFits, StartupTasks, None, Adding, Row
    <3>3. ViewAgrees' /\ ConnectedOnce'
      BY <1>a, <3>1 DEF ViewAgrees, ConnectedOnce
    <3> QED
      BY <1>1, <1>b, <3>1, <3>2, <3>3 DEF Inv
  <2> QED
    BY <1>13, <2>1, <2>2, <2>3 DEF change_server_options
<1>14. ASSUME NEW ip \in Ips, NEW machine \in Machines, AddServer(ip, machine) PROVE Inv'
  <2>1. Len(servers) + 1 \in Row
    BY <1>14, <1>a, <1>c DEF AddServer, SheetFits, Row
  <2> QED
    BY <1>13, <1>14, <1>c, <2>1 DEF AddServer
<1>15. ASSUME NEW ip \in Ips, NEW machine \in Machines, UpdateClicked(ip, machine) PROVE Inv'
  <2>1. sheet \in Row /\ sheet <= Len(servers) + 1
    BY <1>15, <1>a, <1>c DEF UpdateClicked, SheetFits, Row
  <2> QED
    BY <1>13, <1>15, <2>1 DEF UpdateClicked
(* A step of the UI that changes a dialog or the refresh rate only.          *)
<1>16. ASSUME phase = "ui", UNCHANGED <<phase, servers, store, tasks, view>>, SheetFits'
       PROVE  Inv'
  BY <1>16, <1>1, <1>a, <1>b DEF Inv, ViewAgrees, ConnectedOnce, StartupTasks
<1>17. ASSUME NEW row \in Row, OpenSettings(row) PROVE Inv'
  <2>1. SheetFits'
    BY <1>17, <1>c DEF OpenSettings, SheetFits, None, Adding, Row
  <2> QED
    BY <1>16, <1>17, <2>1 DEF OpenSettings
<1>18. CASE OpenAddDialog
  <2>1. SheetFits'
    BY <1>18 DEF OpenAddDialog, SheetFits, None, Adding, Row
  <2> QED
    BY <1>16, <1>18, <2>1 DEF OpenAddDialog
<1>19. CASE CancelClicked
  <2>1. SheetFits'
    BY <1>19 DEF CancelClicked, SheetFits, None, Adding, Row
  <2> QED
    BY <1>16, <1>19, <2>1 DEF CancelClicked
<1>20. ASSUME NEW value \in Rates, set_server_refresh_rate(value) PROVE Inv'
  <2>1. SheetFits'
    BY <1>20, <1>a DEF set_server_refresh_rate, SheetFits
  <2> QED
    BY <1>16, <1>20, <2>1 DEF set_server_refresh_rate
<1>21. ASSUME NEW row \in Row, RemoveServer(row) PROVE Inv'
  <2>1. /\ phase = "ui" /\ phase' = "ui" /\ sheet = None /\ sheet' = None
        /\ row \in 1 .. Len(servers) /\ view' = view - 1
    BY <1>21, <1>c DEF RemoveServer, StoreWithout, ViewWithout, Without
  <2>2. /\ Len(servers') = Len(servers) - 1
        /\ \A r \in 1 .. Len(servers') :
              servers'[r] = IF r < row THEN servers[r] ELSE servers[r + 1]
    BY <1>21, <1>c, <1>d, <2>1 DEF RemoveServer, StoreWithout, ViewWithout, Without
  <2>3. StoreMatches'
    <3>1. \A r \in 1 .. Len(servers') : r \in Row /\ r <= Len(servers')
      BY <1>b DEF TypeOK, Row
    <3>2. store'.size = Len(servers') /\ \A r \in 1 .. Len(servers') : store'.ip[r] = servers'[r].ip
      BY <1>21, <3>1 DEF RemoveServer, StoreWithout, ViewWithout, Without
    <3> QED
      BY <1>d, <3>2 DEF StoreMatches
  <2>4. ViewAgrees'
    BY <1>a, <1>c, <2>1, <2>2 DEF ViewAgrees
  <2>5. ConnectedOnce'
    <3>1. ASSUME NEW r \in 1 .. Len(servers')
          PROVE  Len(servers'[r].rows) = 1 /\ servers'[r].rows[1] >= r
      <4>1. CASE r < row
        <5>1. r \in DOMAIN servers /\ servers'[r] = servers[r]
          BY <1>c, <1>d, <2>1, <2>2, <4>1
        <5> QED
          BY <1>a, <2>1, <5>1 DEF ConnectedOnce
      <4>2. CASE ~(r < row)
        <5>1. r + 1 \in DOMAIN servers /\ servers'[r] = servers[r + 1]
          BY <1>c, <1>d, <2>1, <2>2, <4>2
        <5>2. Len(servers[r + 1].rows) = 1 /\ servers[r + 1].rows[1] >= r + 1
          BY <1>a, <2>1, <5>1 DEF ConnectedOnce
        <5>3. servers[r + 1].rows[1] \in Row
          BY <1>c, <5>1, <5>2 DEF Server
        <5> QED
          BY <1>d, <5>1, <5>2, <5>3 DEF Row
      <4> QED
        BY <4>1, <4>2
    <3> QED
      BY <1>d, <3>1 DEF ConnectedOnce
  <2> QED
    BY <1>b, <2>1, <2>3, <2>4, <2>5 DEF Inv, SheetFits, StartupTasks, None, Adding, Row
<1>22. CASE Quit
  BY <1>2, <1>22 DEF Quit
<1>23. CASE processEvents
  BY <1>3, <1>23 DEF processEvents
<1> QED
  BY <1>3, <1>4, <1>5, <1>6, <1>7, <1>8, <1>9, <1>11, <1>12, <1>14, <1>15, <1>17, <1>18,
     <1>19, <1>20, <1>21, <1>22, <1>23 DEF Next, Startup, Pool, User

-------------------------------------------------------------------------------
(* The inductive invariant holds in every behaviour.                         *)
THEOREM ManagerInvariant == Spec => []Inv
<1>1. Inv /\ [Next]_vars => Inv'
  BY InvStep
<1> QED
  BY InvInit, <1>1, PTL DEF Spec

(* Types are correct.                                                        *)
THEOREM ManagerTyped == Spec => []TypeOK
<1>1. Inv => TypeOK
  BY DEF Inv
<1> QED
  BY ManagerInvariant, <1>1, PTL

(* QSettings holds the list on screen in every reachable state, however the  *)
(* operations of AddServer, change_server_options and RemoveServer follow    *)
(* one another and whenever the process ends.                                *)
THEOREM StoreAlwaysMatches == Spec => []StoreMatches
<1>1. Inv => StoreMatches
  BY DEF Inv
<1> QED
  BY ManagerInvariant, <1>1, PTL

(* The list view knows every row that came or went (beginRowAppend to        *)
(* endRowRemove).                                                            *)
THEOREM ViewAlwaysAgrees == Spec => []ViewAgrees
<1>1. Inv => ViewAgrees
  BY DEF Inv
<1> QED
  BY ManagerInvariant, <1>1, PTL

(* Every machine is connected to the model once, by setModel or by           *)
(* change_server_options, and to a row that is not above its own.            *)
THEOREM AlwaysConnectedOnce == Spec => []ConnectedOnce
<1>1. Inv => ConnectedOnce
  BY DEF Inv
<1> QED
  BY ManagerInvariant, <1>1, PTL

(* A restart brings back the addresses that were on screen, row by row.      *)
THEOREM RestartRestores == Spec => RestartKeepsList
<1>1. ASSUME Inv PROVE Reload => IpsOf(servers') = IpsOf(servers)
  <2> SUFFICES ASSUME Reload PROVE IpsOf(servers') = IpsOf(servers)
    OBVIOUS
  <2>1. TypeOK /\ StoreMatches
    BY <1>1 DEF Inv
  <2>2. /\ store.size = Len(servers) /\ DOMAIN servers = 1 .. Len(servers)
        /\ \A row \in 1 .. Len(servers) : store.ip[row] = servers[row].ip
    BY <2>1 DEF TypeOK, StoreMatches
  <2>3. /\ DOMAIN servers' = 1 .. Len(servers)
        /\ \A row \in 1 .. Len(servers) : servers'[row].ip = servers[row].ip
    BY <2>2 DEF Reload, NewServer
  <2> QED
    BY <2>2, <2>3 DEF IpsOf
<1>2. Inv /\ [Next]_vars => [Reload => IpsOf(servers') = IpsOf(servers)]_vars
  BY <1>1
<1> QED
  BY ManagerInvariant, <1>2, PTL DEF Spec, RestartKeepsList

(* No machine of the stored list waits for its first poll when the UI comes  *)
(* up: the wait loop passes a row only after the task of that row has run.   *)
THEOREM FirstPollStarted == Spec => FirstPollBeforeUi
<1>1. ASSUME Inv PROVE start => tasks = NoTasks
  <2> SUFFICES ASSUME start PROVE tasks = NoTasks
    OBVIOUS
  <2>1. TypeOK /\ StartupTasks
    BY <1>1 DEF Inv
  <2>2. phase = "waiting" /\ waited = Len(servers) /\ Len(servers) \in Nat
    BY <2>1 DEF start, TypeOK
  <2>3. \A row \in Row : tasks[row] = 0
    BY <2>1, <2>2 DEF StartupTasks, Row
  <2> QED
    BY <2>1, <2>3 DEF TypeOK, NoTasks
<1>2. Inv /\ [Next]_vars => [start => tasks = NoTasks]_vars
  BY <1>1
<1> QED
  BY ManagerInvariant, <1>2, PTL DEF Spec, FirstPollBeforeUi
===============================================================================
