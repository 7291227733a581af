------------------------------ MODULE ListRows -------------------------------
(***************************************************************************)
(* The lists shown for one machine: drives with their partitions, updates, *)
(* network adapters, services and the types of services.  A report of the  *)
(* machine is reconciled with the rows on screen by handle_drives,         *)
(* handle_updates, handle_adapters, handle_services and handle_service     *)
(* (client/objects/server.cpp), which edit the vectors of the models       *)
(* (client/models).  All of it runs on the GUI thread, so a report is one  *)
(* step.  (The step each handler counts is in ServerPoll.)                 *)
(*                                                                         *)
(* The lists share no state, so a behaviour follows one of them.  A row is *)
(* a key, what a later report overwrites (live) and what only the report   *)
(* that brought the row sets (fixed).  Some models keep a second vector    *)
(* beside updates: an adapter's previous sample, a drive's partitions.     *)
(***************************************************************************)
EXTENDS Queues

CONSTANTS
    Reports,     \* list -> the reports a machine may send for it
    Width(_),    \* the width of a service's live texts on screen
    HeaderWidth  \* the width of the column's header

List == {"drives", "updates", "adapters", "services", "types"}

(* A sequence of rows.                                                       *)
IsReport(report) ==
    /\ Len(report) \in Nat
    /\ report = [n \in 1 .. Len(report) |->
                   [key |-> report[n].key, live |-> report[n].live, fixed |-> report[n].fixed]]

(* What is live of a drive is the report of its partitions.                  *)
ASSUME ListAssumption ==
    /\ DOMAIN Reports = List
    /\ \A l \in List : \A report \in Reports[l] : IsReport(report)
    /\ \A report \in Reports["drives"] : \A n \in DOMAIN report : IsReport(report[n].live)
    /\ \A report \in Reports["services"] : \A n \in DOMAIN report : Width(report[n].live) \in Nat
    /\ HeaderWidth \in Nat

VARIABLES
    list,       \* which list the behaviour follows
    updates,    \* the vector of rows, as all models call it
    beside,     \* AdapterModel::prevous or DrivesModel::partitions
    min_width,  \* ServiceModel::min_width of one column
    reported,   \* history: the last report
    before      \* history: for the adapters, the report before it

vars == <<list, updates, beside, min_width, reported, before>>

KeysOf(rows) == [i \in DOMAIN rows |-> rows[i].key]
Item(key) == reported[Max({n \in DOMAIN reported : reported[n].key = key})]

TypeOK ==
    /\ list \in List
    /\ \A i \in DOMAIN updates : {"key", "live", "fixed"} = DOMAIN updates[i]
    /\ Len(beside) = IF list \in {"drives", "adapters"} THEN Len(updates) ELSE 0
    /\ min_width.size >= HeaderWidth /\ min_width.index \in Nat
    /\ reported \in Reports[list] \cup {<<>>}
    /\ before \in Reports[list] \cup {<<>>}

Init ==
    /\ list \in List
    /\ updates = <<>>
    /\ beside = <<>>
    /\ min_width = [size |-> HeaderWidth, index |-> 0]
    /\ reported = <<>>
    /\ before = <<>>

-------------------------------------------------------------------------------
(* Vectors.                                                                  *)

Has(rows, key) == \E i \in DOMAIN rows : rows[i].key = key

(* removeRow for each row in gone, from whichever vector.                    *)
Without(vector, gone) == Kept(vector, DOMAIN vector \ gone)

(* Mutant of Missing: the walk goes on behind a removed row (no a--).        *)
MissingEverySecond(rows, report) ==
    {a \in DOMAIN rows : ~Has(report, rows[a].key) /\ (a > 1 => Has(report, rows[a - 1].key))}

(* The rows the first loop of a keyed handler removes.                       *)
Missing(rows, report) == {a \in DOMAIN rows : ~Has(report, rows[a].key)}

Blank == [key |-> "", live |-> "", fixed |-> ""]

(* insertRows or removeRows at the end, until there are n rows.              *)
Resized(rows, n) == [i \in 1 .. n |-> IF i <= Len(rows) THEN rows[i] ELSE Blank]

(* Mutant of Fill: a row whose key is known is left alone.                   *)
FillOnce(row, item) == IF row.key # item.key THEN item ELSE row

(* What an update or a partition takes from the item at its place.  Of an    *)
(* update of the same name that is the new version, not the installed one.   *)
Fill(row, item) == IF row.key # item.key THEN item ELSE [row EXCEPT !.live = item.live]

(* A list by position: each row is filled from the item at its place.        *)
Positional(rows, report) ==
    LET sized == Resized(rows, Len(report))
    IN  [i \in DOMAIN report |-> Fill(sized[i], report[i])]

-------------------------------------------------------------------------------
(* Keyed lists.  lists is [rows, beside, width]; an item updates every row   *)
(* that has its key, or is appended.                                         *)

(* ServiceModel::flag: the column grows to the cell.  If the cell was the    *)
(* widest and shrank, the header and the other rows are compared again, with *)
(* the old width.                                                            *)
Wider(width, size, index) ==
    IF size > width.size THEN [size |-> size, index |-> index] ELSE width

Rescan(width, rows, row) ==
    LET scanned[a \in 0 .. Len(rows)] ==
            IF a = 0 THEN Wider(width, HeaderWidth, 0)
            ELSE IF a = row THEN scanned[a - 1]
                            ELSE Wider(scanned[a - 1], Width(rows[a].live), a)
    IN  scanned[Len(rows)]

flag(width, rows, row) ==
    IF row = width.index /\ Width(rows[row].live) < width.size
    THEN Rescan(width, rows, row)
    ELSE Wider(width, Width(rows[row].live), row)

(* What a row takes from a report that has its key again.                    *)

Showing(rows, a, live) ==
    [rows EXCEPT ![a] = [key |-> rows[a].key, live |-> live, fixed |-> rows[a].fixed]]

(* Mutant of KnownAdapter: the sample is overwritten before it is moved.     *)
KnownAdapterSwapped(lists, item, a) ==
    [lists EXCEPT !.rows = Showing(lists.rows, a, item.live),
                  !.beside = [lists.beside EXCEPT ![a] = item.live]]

KnownAdapter(lists, item, a) ==
    [lists EXCEPT !.rows = Showing(lists.rows, a, item.live),
                  !.beside = [lists.beside EXCEPT ![a] = lists.rows[a].live]]

(* Of a drive only the partitions are looked at.                             *)
KnownDrive(lists, item, a) ==
    [lists EXCEPT !.beside =
        [lists.beside EXCEPT ![a] = Positional(lists.beside[a], item.live)]]

(* Mutant of KnownService: a changed text is not flagged.                    *)
KnownServiceUnflagged(lists, item, a) == [lists EXCEPT !.rows = Showing(lists.rows, a, item.live)]

KnownService(lists, item, a) ==
    LET rows == Showing(lists.rows, a, item.live)
    IN  IF lists.rows[a].live = item.live
        THEN lists
        ELSE [lists EXCEPT !.rows = rows, !.width = flag(lists.width, rows, a)]

Known(lists, item, a) ==
    CASE list = "adapters" -> KnownAdapter(lists, item, a)
      [] list = "drives"   -> KnownDrive(lists, item, a)
      [] list = "services" -> KnownService(lists, item, a)
      [] list = "types"    -> lists

(* Mutant of InsertedBeside: the second vector does not grow.                *)
InsertedBesideNot(lists, item) == lists.beside

(* insertRow in the second vector.                                           *)
InsertedBeside(lists, item) ==
    CASE list = "adapters" -> Append(lists.beside, item.live)
      [] list = "drives" -> Append(lists.beside, Positional(<<>>, item.live))
      [] OTHER -> lists.beside

(* A row for a new key; the partitions of a drive are only in their vector.  *)
Inserted(lists, item) ==
    LET row == IF list = "drives" THEN [key |-> item.key, live |-> "", fixed |-> item.fixed]
                                   ELSE item
        rows == Append(lists.rows, row)
    IN  [rows |-> rows,
         beside |-> InsertedBeside(lists, item),
         width |-> IF list = "services" THEN flag(lists.width, rows, Len(rows))
                                        ELSE lists.width]

(* The inner loop looks at every row.                                        *)
Merge(lists, item) ==
    LET walked[a \in 0 .. Len(lists.rows)] ==
            IF a = 0 THEN lists
            ELSE IF lists.rows[a].key = item.key THEN Known(walked[a - 1], item, a)
                                                 ELSE walked[a - 1]
    IN  IF Has(lists.rows, item.key) THEN walked[Len(lists.rows)] ELSE Inserted(lists, item)

(* The outer loop, over the report.                                          *)
Merged(lists, report) ==
    LET merged[n \in 0 .. Len(report)] ==
            IF n = 0 THEN lists ELSE Merge(merged[n - 1], report[n])
    IN  merged[Len(report)]

Apply(lists) ==
    /\ updates' = lists.rows
    /\ beside' = lists.beside
    /\ min_width' = lists.width

Record(report) ==
    /\ reported' = report
    /\ before' = IF list = "adapters" THEN reported ELSE <<>>
    /\ UNCHANGED list

Keyed == list \in {"drives", "adapters", "services"}

(* handle_drives, handle_adapters and handle_services.                       *)
handle_keyed(report) ==
    /\ Keyed
    /\ LET gone == Missing(updates, report)
       IN  Apply(Merged([rows |-> Without(updates, gone),
                         beside |-> Without(beside, gone),
                         width |-> min_width], report))
    /\ Record(report)

handle_updates(report) ==
    /\ list = "updates"
    /\ updates' = Positional(updates, report)
    /\ UNCHANGED <<beside, min_width>>
    /\ Record(report)

(* The types of services only ever grow.                                     *)
handle_service(report) ==
    /\ list = "types"
    /\ Apply(Merged([rows |-> updates, beside |-> beside, width |-> min_width], report))
    /\ Record(report)

Next ==
    \E report \in Reports[list] :
        handle_keyed(report) \/ handle_updates(report) \/ handle_service(report)

Spec == Init /\ [][Next]_vars

-------------------------------------------------------------------------------
Position(rows, key) == CHOOSE i \in DOMAIN rows : rows[i].key = key

OrderKept(old, new) ==
    \A i, j \in DOMAIN old :
        (i < j /\ Has(new, old[i].key) /\ Has(new, old[j].key)) =>
            Position(new, old[i].key) < Position(new, old[j].key)

OneRowPerKey(rows, report) ==
    /\ ToSet(KeysOf(rows)) = ToSet(KeysOf(report))
    /\ IsInjective(KeysOf(rows))

(* After a report a keyed list has one row for each reported key, and no     *)
(* other, and rows that stay keep their order: no walk skips a row that is   *)
(* removed, shows a key twice or moves what the user is looking at.          *)
RowsFollow ==
    [][Keyed => OneRowPerKey(updates', reported') /\ OrderKept(updates, updates')]_vars

(* What a row shows is what the last report says of its key: the state and   *)
(* name of a service, the sample of an adapter, the new version of an        *)
(* update, and every partition of a drive in the reported order, whatever    *)
(* was removed and inserted before it.                                       *)
RowsCurrent ==
    \A i \in DOMAIN updates :
        CASE list \in {"adapters", "services"} -> updates[i].live = Item(updates[i].key).live
          [] list = "drives"  -> LET parts == Item(updates[i].key).live
                                 IN  /\ KeysOf(beside[i]) = KeysOf(parts)
                                     /\ \A p \in DOMAIN parts : beside[i][p].live = parts[p].live
          [] list = "updates" -> /\ updates[i].key = reported[i].key
                                 /\ updates[i].live = reported[i].live
          [] OTHER -> TRUE

(* The transfer rate of a row is taken between the two latest samples of the *)
(* same adapter, or shows no transfer when there is only one: prevous never  *)
(* drifts against updates as rows come and go.                               *)
SamplesPaired ==
    list = "adapters" =>
        \A i \in DOMAIN updates :
            beside[i] = IF Has(before, updates[i].key)
                        THEN before[Position(before, updates[i].key)].live
                        ELSE updates[i].live

(* The column of the services is never narrower than a cell in it, although  *)
(* the index kept with its width goes stale when rows are removed.           *)
CellsFit ==
    list = "services" => \A i \in DOMAIN updates : Width(updates[i].live) <= min_width.size
===============================================================================
