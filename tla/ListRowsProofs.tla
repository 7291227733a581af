--------------------------- MODULE ListRowsProofs ---------------------------
(***************************************************************************)
(* Theorems about ListRows, for every set of reports a machine may send.   *)
(***************************************************************************)
EXTENDS ListRows, SequenceLemmas

(* Every report, those of a drive's partitions included, and what they are   *)
(* made of.                                                                  *)
Reported ==
    (UNION {Reports[l] : l \in List})
        \cup UNION {{report[n].live : n \in DOMAIN report} : report \in Reports["drives"]}
Items == UNION {{report[n] : n \in DOMAIN report} : report \in Reported}
Keys == {item.key : item \in Items} \cup {""}
Lives == {item.live : item \in Items} \cup {""}
Fixeds == {item.fixed : item \in Items} \cup {""}
Row == [key : Keys, live : Lives, fixed : Fixeds]

(* A report is a sequence of rows.                                           *)
LEMMA ReportTyped ==
    ASSUME NEW report \in Reported
    PROVE  report \in Seq(Row)
<1>1. IsReport(report)
  <2>1. CASE \E l \in List : report \in Reports[l]
    BY <2>1, ListAssumption
  <2>2. CASE \E drives \in Reports["drives"] : \E n \in DOMAIN drives : report = drives[n].live
    BY <2>2, ListAssumption
  <2> QED
    BY <2>1, <2>2 DEF Reported
<1>2. DOMAIN report = 1 .. Len(report) /\ Len(report) \in Nat
  BY <1>1 DEF IsReport
<1>3. ASSUME NEW n \in 1 .. Len(report) PROVE report[n] \in Row
  <2>1. report[n] = [key |-> report[n].key, live |-> report[n].live, fixed |-> report[n].fixed]
    BY <1>1 DEF IsReport
  <2>2. report[n] \in Items
    BY <1>2 DEF Items
  <2>3. report[n].key \in Keys /\ report[n].live \in Lives /\ report[n].fixed \in Fixeds
    BY <2>2 DEF Keys, Lives, Fixeds
  <2> QED
    BY <2>1, <2>3 DEF Row
<1>4. report = [n \in 1 .. Len(report) |-> report[n]]
  BY <1>1 DEF IsReport
<1>5. report \in [1 .. Len(report) -> Row]
  BY <1>3, <1>4
<1> QED
  BY <1>2, <1>5

(* Likewise, named: the list of a state.                                     *)
LEMMA ReportsTyped ==
    ASSUME NEW l \in List, NEW report \in Reports[l]
    PROVE  /\ report \in Seq(Row)
           /\ l = "drives" => \A n \in DOMAIN report : report[n].live \in Seq(Row)
           /\ l = "services" => \A n \in DOMAIN report : Width(report[n].live) \in Nat
<1>1. report \in Reported
  BY DEF Reported
<1>2. ASSUME l = "drives", NEW n \in DOMAIN report PROVE report[n].live \in Reported
  BY <1>2 DEF Reported
<1> QED
  BY <1>1, <1>2, ReportTyped, ListAssumption

-------------------------------------------------------------------------------
(* A vector without some of its rows.  Two vectors of one length lose the    *)
(* same positions.                                                           *)

(* at lists, in order, the positions of 1 .. N that are in keep.             *)
Left(at, N, keep) ==
    /\ at \in Seq(1 .. N)
    /\ \A i \in DOMAIN at : at[i] \in keep
    /\ \A i, j \in DOMAIN at : i < j => at[i] < at[j]
    /\ \A k \in keep \cap (1 .. N) : \E i \in DOMAIN at : at[i] = k

(* s has the elements of t at the positions at.                              *)
Picks(s, t, at) ==
    /\ Len(s) = Len(at)
    /\ \A i \in DOMAIN at : s[i] = t[at[i]]

Numbers(N) == [i \in 1 .. N |-> i]

(* Filtering the numbers of N rows leaves those kept, in order and each      *)
(* once.                                                                     *)
LEMMA NumbersLeft ==
    ASSUME NEW N \in Nat, NEW keep
    PROVE  Left(Kept(Numbers(N), keep), N, keep)
<1>1. Numbers(N) \in Seq(1 .. N) /\ Len(Numbers(N)) = N /\ \A i \in 1 .. N : Numbers(N)[i] = i
  BY DEF Numbers
<1> DEFINE k == Kept(Numbers(N), keep)
<1>a. PICK S : S = 1 .. N
  OBVIOUS
<1>b. Numbers(N) \in Seq(S)
  BY <1>1, <1>a, Zenon
<1>2. k \in Seq(1 .. N)
  BY <1>a, <1>b, KeptPositions, Zenon
<1>3. PICK at \in [1 .. Len(k) -> 1 .. Len(Numbers(N))] :
         /\ \A i \in 1 .. Len(k) : at[i] \in keep /\ k[i] = Numbers(N)[at[i]]
         /\ \A i, j \in 1 .. Len(k) : i < j => at[i] < at[j]
         /\ \A m \in keep \cap (1 .. Len(Numbers(N))) : \E i \in 1 .. Len(k) : at[i] = m
  <2>1. \E at \in [1 .. Len(k) -> 1 .. Len(Numbers(N))] : Selects(at, k, Numbers(N), keep)
    BY <1>b, KeptPositions, Zenon
  <2> QED
    BY <2>1, Zenon DEF Selects
<1> HIDE DEF k
<1>4. \A i \in 1 .. Len(k) : at[i] \in 1 .. N /\ k[i] = at[i]
  BY <1>1, <1>3
<1>5. DOMAIN k = 1 .. Len(k)
  BY <1>2
<1>6. Left(k, N, keep)
  BY <1>1, <1>2, <1>3, <1>4, <1>5 DEF Left
<1> QED
  BY <1>6 DEF k

(* Erasing rows picks the ones that stay, in their order: what Without       *)
(* leaves is a filter of the row numbers.                                    *)
LEMMA WithoutPicks ==
    ASSUME NEW S, NEW s \in Seq(S), NEW gone
    PROVE  Picks(Without(s, gone), s, Kept(Numbers(Len(s)), DOMAIN s \ gone))
<1> DEFINE N == Len(s)
           keep == DOMAIN s \ gone
           k == Numbers(N)
<1>0. N \in Nat /\ k \in Seq(1 .. N) /\ Len(k) = N /\ \A i \in 1 .. N : k[i] = i
  BY DEF Numbers
<1>1. PICK f : KeptUpTo(s, keep, f) /\ Kept(s, keep) = f[Len(s)]
  <2> HIDE DEF keep
  <2> QED
    BY KeptRecursion
<1>2. PICK g : KeptUpTo(k, keep, g) /\ Kept(k, keep) = g[Len(k)]
  <2> HIDE DEF keep, k
  <2> QED
    BY <1>0, KeptRecursion
<1> HIDE DEF keep, k
<1>3. /\ f \in [0 .. N -> Seq(S)] /\ f[0] = <<>>
      /\ \A n \in 1 .. N : f[n] = IF n \in keep THEN Append(f[n - 1], s[n]) ELSE f[n - 1]
  BY <1>1, KeptTyped
<1>4. /\ g \in [0 .. N -> Seq(1 .. N)] /\ g[0] = <<>>
      /\ \A n \in 1 .. N : g[n] = IF n \in keep THEN Append(g[n - 1], k[n]) ELSE g[n - 1]
  <2>1. /\ g \in [0 .. Len(k) -> Seq(1 .. N)] /\ g[0] = <<>>
        /\ \A n \in 1 .. Len(k) : g[n] = IF n \in keep THEN Append(g[n - 1], k[n]) ELSE g[n - 1]
    <3> DEFINE M == 1 .. N
    <3>1. k \in Seq(M)
      BY <1>0
    <3>2. KeptUpTo(k, keep, g)
      BY <1>2
    <3> HIDE DEF M
    <3>3. /\ g \in [0 .. Len(k) -> Seq(M)] /\ g[0] = <<>>
          /\ \A n \in 1 .. Len(k) : g[n] = IF n \in keep THEN Append(g[n - 1], k[n]) ELSE g[n - 1]
      BY <3>1, <3>2, KeptTyped
    <3> QED
      BY <3>3 DEF M
  <2> QED
    BY <1>0, <2>1
<1> DEFINE T == {n \in 0 .. N : Picks(f[n], s, g[n])}
<1>5. 0 \in T
  <2>1. 0 \in 0 .. N
    BY <1>0
  <2>2. Picks(<<>>, s, <<>>)
    BY DEF Picks
  <2> QED
    BY <1>3, <1>4, <2>1, <2>2, Zenon
<1>6. ASSUME NEW n \in 1 .. N, n - 1 \in T PROVE n \in T
  <2>1. n \in 0 .. N /\ n - 1 \in 0 .. N
    BY <1>0
  <2>2. PICK u : u \in Seq(S) /\ u = f[n - 1]
    BY <1>3, <2>1
  <2>3. PICK v : v \in Seq(1 .. N) /\ v = g[n - 1]
    BY <1>4, <2>1
  <2>4. Picks(u, s, v)
    BY <1>6, <2>2, <2>3
  <2>5. CASE n \in keep
    <3>1. f[n] = Append(u, s[n]) /\ g[n] = Append(v, n)
      BY <1>0, <1>3, <1>4, <2>2, <2>3, <2>5
    <3>2. s[n] \in S
      OBVIOUS
    <3>3. Picks(Append(u, s[n]), s, Append(v, n))
      <4>1. Len(u) = Len(v) /\ \A i \in 1 .. Len(v) : u[i] = s[v[i]]
        BY <2>3, <2>4 DEF Picks
      <4>2. /\ Len(Append(u, s[n])) = Len(u) + 1
            /\ Append(u, s[n])[Len(u) + 1] = s[n]
            /\ \A i \in 1 .. Len(u) : Append(u, s[n])[i] = u[i]
        BY <2>2, <3>2
      <4>3. /\ Len(Append(v, n)) = Len(v) + 1 /\ Len(v) \in Nat
            /\ DOMAIN Append(v, n) = 1 .. Len(v) + 1
            /\ Append(v, n)[Len(v) + 1] = n
            /\ \A i \in 1 .. Len(v) : Append(v, n)[i] = v[i]
        BY <2>3
      <4>4. \A i \in 1 .. Len(v) + 1 : i \in 1 .. Len(v) \/ i = Len(v) + 1
        BY <4>3
      <4> QED
        BY <4>1, <4>2, <4>3, <4>4 DEF Picks
    <3> QED
      BY <2>1, <3>1, <3>3
  <2>6. CASE n \notin keep
    BY <1>3, <1>4, <2>1, <2>2, <2>3, <2>4, <2>6
  <2> QED
    BY <2>5, <2>6
<1>7. N \in T
  <2>1. \A n \in 0 .. N : n \in T
    <3> HIDE DEF T, N
    <3> QED
      BY <1>0, <1>5, <1>6, InductionUpTo
  <2> QED
    BY <1>0, <2>1
<1>8. Picks(Kept(s, keep), s, Kept(k, keep))
  BY <1>0, <1>1, <1>2, <1>7
<1> QED
  BY <1>8 DEF Without, keep, k

-------------------------------------------------------------------------------
(* The width of a column.                                                    *)

Column == [size : Nat, index : Nat]

(* resize_columns never narrows a column and makes it hold the cell that was *)
(* set.                                                                      *)
LEMMA WiderFits ==
    ASSUME NEW width \in Column, NEW size \in Nat, NEW index \in Nat
    PROVE  /\ Wider(width, size, index) \in Column
           /\ Wider(width, size, index).size >= width.size
           /\ Wider(width, size, index).size >= size
<1>1. CASE size > width.size
  BY <1>1 DEF Wider, Column
<1>2. CASE ~(size > width.size)
  BY <1>2 DEF Wider, Column
<1> QED
  BY <1>1, <1>2

(* scanned of the definition of Rescan.                                      *)
ScannedUpTo(scanned, width, rows, row) ==
    scanned = [a \in 0 .. Len(rows) |->
                  IF a = 0 THEN Wider(width, HeaderWidth, 0)
                  ELSE IF a = row THEN scanned[a - 1]
                                  ELSE Wider(scanned[a - 1], Width(rows[a].live), a)]

(* Scanning the rows after a change keeps the column as wide as it was.      *)
LEMMA RescanFits ==
    ASSUME NEW width \in Column, NEW rows \in Seq(Row), NEW row,
           \A a \in DOMAIN rows : Width(rows[a].live) \in Nat
    PROVE  /\ Rescan(width, rows, row) \in Column
           /\ Rescan(width, rows, row).size >= width.size
<1> DEFINE N == Len(rows)
           X == {c \in Column : c.size >= width.size}
           Then(a, c) == IF a = row THEN c ELSE Wider(c, Width(rows[a].live), a)
           step == [a \in 1 .. N |-> [c \in X |-> Then(a, c)]]
           base == Wider(width, HeaderWidth, 0)
<1>1. N \in Nat /\ DOMAIN rows = 1 .. N
  OBVIOUS
<1>2. base \in X
  BY WiderFits, ListAssumption
<1>3. ASSUME NEW a \in 1 .. N, NEW c \in X PROVE Then(a, c) \in X
  <2>1. c \in Column /\ Width(rows[a].live) \in Nat /\ a \in Nat /\ c.size \in Nat /\ width.size \in Nat
    BY <1>1 DEF Column
  <2>2. PICK w : w = Wider(c, Width(rows[a].live), a)
    OBVIOUS
  <2>3. w \in Column /\ w.size >= c.size /\ w.size \in Nat
    <3>1. w \in Column /\ w.size >= c.size
      BY <2>1, <2>2, WiderFits
    <3> QED
      BY <3>1 DEF Column
  <2>4. w \in X
    BY <2>1, <2>3
  <2> QED
    BY <2>2, <2>4
<1> HIDE DEF Then, base, X, N
<1>4. step \in [1 .. N -> [X -> X]]
  BY <1>3
<1>5. \A a \in 1 .. N, c \in X : step[a][c] = Then(a, c)
  OBVIOUS
<1> HIDE DEF step
<1>6. PICK g \in [0 .. N -> X] : StepsFrom(g, base, step, N)
  BY <1>1, <1>2, <1>4, Recursion
<1>7. ASSUME NEW a \in 0 .. N PROVE g[a] = IF a = 0 THEN base ELSE Then(a, g[a - 1])
  <2>1. a # 0 => a \in 1 .. N /\ a - 1 \in 0 .. N
    BY <1>1
  <2> QED
    BY <1>5, <1>6, <2>1 DEF StepsFrom
<1>8. ScannedUpTo(g, width, rows, row)
  <2>1. g = [a \in 0 .. N |-> IF a = 0 THEN base ELSE Then(a, g[a - 1])]
    BY <1>7
  <2> QED
    BY <2>1 DEF ScannedUpTo, base, Then, N
<1> DEFINE f == CHOOSE h : ScannedUpTo(h, width, rows, row)
<1>9. ScannedUpTo(f, width, rows, row)
  BY <1>8
<1>a. Rescan(width, rows, row) = f[N]
  BY DEF Rescan, ScannedUpTo, N
<1> HIDE DEF f
<1> DEFINE T == {a \in 0 .. N : f[a] \in X}
<1>b. 0 \in T
  <2>1. 0 \in 0 .. N
    BY <1>1
  <2>2. f[0] = base
    BY <1>1, <1>9, <2>1 DEF ScannedUpTo, base, N
  <2> QED
    BY <1>2, <2>1, <2>2
<1>c. ASSUME NEW a \in 1 .. N, a - 1 \in T PROVE a \in T
  <2>1. a \in 0 .. N /\ a # 0 /\ f[a - 1] \in X
    BY <1>1, <1>c
  <2>2. f[a] = Then(a, f[a - 1])
    BY <1>9, <2>1 DEF ScannedUpTo, Then, N
  <2> QED
    BY <1>3, <2>1, <2>2
<1>d. N \in T
  <2>1. \A a \in 0 .. N : a \in T
    <3> HIDE DEF T
    <3> QED
      BY <1>1, <1>b, <1>c, InductionUpTo
  <2> QED
    BY <1>1, <2>1
<1> QED
  BY <1>a, <1>d DEF X

(* Flagging one row for its new cell makes the column hold that cell.        *)
LEMMA FlagFits ==
    ASSUME NEW width \in Column, NEW rows \in Seq(Row), NEW row \in DOMAIN rows,
           \A a \in DOMAIN rows : Width(rows[a].live) \in Nat
    PROVE  /\ flag(width, rows, row) \in Column
           /\ flag(width, rows, row).size >= width.size
           /\ flag(width, rows, row).size >= Width(rows[row].live)
<1>1. width.size \in Nat /\ Width(rows[row].live) \in Nat /\ row \in Nat
  BY DEF Column
<1>2. CASE row = width.index /\ Width(rows[row].live) < width.size
  <2>1. PICK w : w = Rescan(width, rows, row)
    OBVIOUS
  <2>2. w \in Column /\ w.size >= width.size
    BY <2>1, RescanFits
  <2>3. w.size \in Nat
    BY <2>2 DEF Column
  <2>4. w.size >= Width(rows[row].live)
    BY <1>1, <1>2, <2>2, <2>3
  <2> QED
    BY <1>2, <2>1, <2>2, <2>4 DEF flag
<1>3. CASE ~(row = width.index /\ Width(rows[row].live) < width.size)
  <2>1. flag(width, rows, row) = Wider(width, Width(rows[row].live), row)
    BY <1>3 DEF flag
  <2> QED
    BY <1>1, <2>1, WiderFits
<1> QED
  BY <1>2, <1>3

-------------------------------------------------------------------------------
(* Rows by position.                                                         *)

(* Assigning the rows by position shows every reported key and value.        *)
LEMMA PositionalShows ==
    ASSUME NEW rows \in Seq(Row), NEW report \in Seq(Row)
    PROVE  /\ Positional(rows, report) \in Seq(Row)
           /\ DOMAIN Positional(rows, report) = DOMAIN report
           /\ Len(Positional(rows, report)) = Len(report)
           /\ \A i \in DOMAIN report :
                 /\ Positional(rows, report)[i].key = report[i].key
                 /\ Positional(rows, report)[i].live = report[i].live
<1>1. DOMAIN report = 1 .. Len(report) /\ Len(report) \in Nat
  OBVIOUS
<1>2. Blank \in Row
  BY DEF Blank, Row, Keys, Lives, Fixeds
<1>3. ASSUME NEW row \in Row, NEW item \in Row
      PROVE  Fill(row, item) \in Row /\ Fill(row, item).key = item.key
             /\ Fill(row, item).live = item.live
  BY DEF Fill, Row
<1> DEFINE sized == Resized(rows, Len(report))
<1>4. ASSUME NEW i \in DOMAIN report PROVE sized[i] \in Row
  <2>1. sized[i] = IF i <= Len(rows) THEN rows[i] ELSE Blank
    BY <1>1 DEF Resized
  <2>2. i <= Len(rows) => rows[i] \in Row
    BY <1>1
  <2> QED
    BY <1>2, <2>1, <2>2
<1> HIDE DEF sized
<1>5. Positional(rows, report) = [i \in DOMAIN report |-> Fill(sized[i], report[i])]
  BY DEF Positional, sized
<1>6. \A i \in DOMAIN report : report[i] \in Row
  OBVIOUS
<1> DEFINE p == Positional(rows, report)
<1>7. ASSUME NEW i \in DOMAIN report
      PROVE  p[i] \in Row /\ p[i].key = report[i].key /\ p[i].live = report[i].live
  <2>1. p[i] = Fill(sized[i], report[i])
    BY <1>5
  <2> QED
    BY <1>3, <1>4, <1>6, <2>1
<1>8. p = [i \in 1 .. Len(report) |-> p[i]]
  BY <1>1, <1>5
<1> HIDE DEF p
<1>9. p \in [1 .. Len(report) -> Row]
  BY <1>1, <1>7, <1>8
<1>a. p \in Seq(Row) /\ Len(p) = Len(report)
  BY <1>1, <1>9
<1> QED
  BY <1>1, <1>7, <1>9, <1>a DEF p

-------------------------------------------------------------------------------
(* One item of a report.                                                     *)

Double == list \in {"drives", "adapters"}
Sample == IF list = "drives" THEN Seq(Row) ELSE Lives
Lists == [rows : Seq(Row), beside : Seq(Sample), width : Column]
Unique(rows) == \A i, j \in DOMAIN rows : rows[i].key = rows[j].key => i = j

(* The rows of a service list fit into its column.                           *)
Fitting(rows, width) ==
    list = "services" => \A i \in DOMAIN rows : /\ Width(rows[i].live) \in Nat
                                                /\ Width(rows[i].live) <= width.size

Whole(lists) ==
    /\ lists \in Lists
    /\ Len(lists.beside) = IF Double THEN Len(lists.rows) ELSE 0
    /\ Unique(lists.rows)
    /\ lists.width.size >= HeaderWidth
    /\ Fitting(lists.rows, lists.width)

Reportable(item) ==
    /\ item \in Row
    /\ list = "drives" => item.live \in Seq(Row)
    /\ list = "services" => Width(item.live) \in Nat

(* What the row at i shows of an item.                                       *)
Shows(lists, i, item) ==
    /\ list \in {"adapters", "services"} => lists.rows[i].live = item.live
    /\ list = "drives" =>
          /\ DOMAIN lists.beside[i] = DOMAIN item.live
          /\ \A p \in DOMAIN item.live : /\ lists.beside[i][p].key = item.live[p].key
                                         /\ lists.beside[i][p].live = item.live[p].live

(* after is before with the item in its row p, old or new; every other row   *)
(* is as it was.                                                             *)
MergesAt(lists, item, after, p) ==
    /\ p \in 1 .. Len(lists.rows) + 1
    /\ Len(after.rows) = IF p = Len(lists.rows) + 1 THEN p ELSE Len(lists.rows)
    /\ after.rows[p].key = item.key
    /\ \A i \in DOMAIN lists.rows :
          /\ after.rows[i].key = lists.rows[i].key
          /\ i # p => /\ lists.rows[i].key # item.key
                      /\ after.rows[i] = lists.rows[i]
                      /\ after.beside[i] = lists.beside[i]
    /\ Shows(after, p, item)
    /\ list = "adapters" =>
          after.beside[p] = IF p \in DOMAIN lists.rows THEN lists.rows[p].live ELSE item.live

(* Setting the value of one row changes no other row and no key.             *)
LEMMA ShowingRows ==
    ASSUME NEW rows \in Seq(Row), NEW a \in DOMAIN rows, NEW live \in Lives
    PROVE  /\ Showing(rows, a, live) \in Seq(Row)
           /\ Len(Showing(rows, a, live)) = Len(rows)
           /\ DOMAIN Showing(rows, a, live) = DOMAIN rows
           /\ Showing(rows, a, live)[a].live = live
           /\ \A i \in DOMAIN rows :
                 /\ Showing(rows, a, live)[i].key = rows[i].key
                 /\ i # a => Showing(rows, a, live)[i] = rows[i]
<1> DEFINE new == [key |-> rows[a].key, live |-> live, fixed |-> rows[a].fixed]
<1>1. rows[a] \in Row
  OBVIOUS
<1>2. new \in Row /\ new.key = rows[a].key /\ new.live = live
  BY <1>1 DEF Row
<1>3. Showing(rows, a, live) = [rows EXCEPT ![a] = new]
  BY DEF Showing
<1> HIDE DEF new
<1>4. /\ [rows EXCEPT ![a] = new] \in Seq(Row)
      /\ Len([rows EXCEPT ![a] = new]) = Len(rows)
      /\ DOMAIN [rows EXCEPT ![a] = new] = DOMAIN rows
  BY <1>2
<1>5. /\ [rows EXCEPT ![a] = new][a] = new
      /\ \A i \in DOMAIN rows : i # a => [rows EXCEPT ![a] = new][i] = rows[i]
  OBVIOUS
<1> QED
  BY <1>2, <1>3, <1>4, <1>5

(* An item whose key has a row: the handler sets that row's value.           *)
LEMMA KnownMerges ==
    ASSUME NEW lists, Whole(lists), NEW item, Reportable(item), list \in List \ {"updates"},
           NEW a \in DOMAIN lists.rows, lists.rows[a].key = item.key
    PROVE  Whole(Known(lists, item, a)) /\ MergesAt(lists, item, Known(lists, item, a), a)
<1> DEFINE after == Known(lists, item, a)
<1>1. /\ lists.rows \in Seq(Row) /\ lists.beside \in Seq(Sample) /\ lists.width \in Column
      /\ lists = [rows |-> lists.rows, beside |-> lists.beside, width |-> lists.width]
      /\ item.live \in Lives /\ item.key \in Keys
      /\ lists.width.size \in Nat /\ HeaderWidth \in Nat
  BY ListAssumption DEF Whole, Lists, Reportable, Row, Column
<1>2. /\ DOMAIN lists.rows = 1 .. Len(lists.rows) /\ Len(lists.rows) \in Nat
      /\ a \in 1 .. Len(lists.rows) /\ a \in 1 .. Len(lists.rows) + 1 /\ a # Len(lists.rows) + 1
  BY <1>1
<1>3. \A i \in DOMAIN lists.rows : i # a => lists.rows[i].key # item.key
  BY DEF Whole, Unique
<1>4. CASE list = "adapters"
  <2> DEFINE rows == Showing(lists.rows, a, item.live)
             beside2 == [lists.beside EXCEPT ![a] = lists.rows[a].live]
  <2>1. /\ rows \in Seq(Row) /\ Len(rows) = Len(lists.rows) /\ DOMAIN rows = DOMAIN lists.rows
        /\ rows[a].live = item.live
        /\ \A i \in DOMAIN lists.rows : /\ rows[i].key = lists.rows[i].key
                                        /\ i # a => rows[i] = lists.rows[i]
    BY <1>1, ShowingRows
  <2>2. after = [lists EXCEPT !.rows = rows, !.beside = beside2]
    BY <1>4 DEF Known, KnownAdapter
  <2> HIDE DEF rows
  <2>3. Len(lists.beside) = Len(lists.rows) /\ DOMAIN lists.beside = DOMAIN lists.rows
    BY <1>1, <1>4 DEF Whole, Double
  <2>4. lists.rows[a].live \in Sample
    <3>1. lists.rows[a] \in Row
      BY <1>1
    <3>2. lists.rows[a].live \in Lives
      BY <3>1 DEF Row
    <3> QED
      BY <1>4, <3>2 DEF Sample
  <2>5. /\ beside2 \in Seq(Sample) /\ Len(beside2) = Len(lists.rows)
        /\ beside2[a] = lists.rows[a].live
        /\ \A i \in DOMAIN lists.rows : i # a => beside2[i] = lists.beside[i]
    BY <1>1, <2>3, <2>4
  <2> HIDE DEF beside2, after
  <2>6. after = [rows |-> rows, beside |-> beside2, width |-> lists.width]
    BY <1>1, <2>2
  <2>7. after.rows = rows /\ after.beside = beside2 /\ after.width = lists.width
    BY <2>6
  <2>8. Whole(after)
    <3>1. after \in Lists
      BY <1>1, <2>1, <2>5, <2>6 DEF Lists
    <3>2. Unique(after.rows)
      BY <2>1, <2>7 DEF Unique, Whole
    <3> QED
      BY <1>4, <2>1, <2>5, <2>7, <3>1, <3>2 DEF Whole, Double, Fitting
  <2>9. MergesAt(lists, item, after, a)
    BY <1>2, <1>3, <1>4, <2>1, <2>5, <2>7 DEF MergesAt, Shows
  <2> QED
    BY <2>8, <2>9 DEF after
<1>5. CASE list = "drives"
  <2> DEFINE parts == Positional(lists.beside[a], item.live)
             beside2 == [lists.beside EXCEPT ![a] = parts]
  <2>1. Len(lists.beside) = Len(lists.rows) /\ DOMAIN lists.beside = DOMAIN lists.rows
    BY <1>1, <1>5 DEF Whole, Double
  <2>2. lists.beside[a] \in Seq(Row) /\ item.live \in Seq(Row) /\ Sample = Seq(Row)
    BY <1>1, <1>5, <2>1 DEF Sample, Reportable
  <2>3. /\ parts \in Seq(Row) /\ DOMAIN parts = DOMAIN item.live
        /\ \A p \in DOMAIN item.live : /\ parts[p].key = item.live[p].key
                                       /\ parts[p].live = item.live[p].live
    BY <2>2, PositionalShows
  <2>4. after = [lists EXCEPT !.beside = beside2]
    BY <1>5 DEF Known, KnownDrive
  <2> HIDE DEF parts
  <2>5. /\ beside2 \in Seq(Sample) /\ Len(beside2) = Len(lists.rows)
        /\ beside2[a] = parts
        /\ \A i \in DOMAIN lists.rows : i # a => beside2[i] = lists.beside[i]
    BY <1>1, <2>1, <2>2, <2>3
  <2> HIDE DEF beside2, after
  <2>6. after = [rows |-> lists.rows, beside |-> beside2, width |-> lists.width]
    BY <1>1, <2>4
  <2>7. after.rows = lists.rows /\ after.beside = beside2 /\ after.width = lists.width
    BY <2>6
  <2>8. Whole(after)
    <3>1. after \in Lists
      BY <1>1, <2>5, <2>6 DEF Lists
    <3> QED
      BY <1>5, <2>5, <2>7, <3>1 DEF Whole, Double, Fitting
  <2>9. MergesAt(lists, item, after, a)
    <3>1. Shows(after, a, item)
      BY <1>5, <2>3, <2>5, <2>7 DEF Shows
    <3> QED
      BY <1>2, <1>3, <1>5, <2>5, <2>7, <3>1 DEF MergesAt
  <2> QED
    BY <2>8, <2>9 DEF after
<1>6. CASE list = "services" /\ lists.rows[a].live = item.live
  <2>1. after = lists
    BY <1>6 DEF Known, KnownService
  <2>2. MergesAt(lists, item, lists, a)
    BY <1>2, <1>3, <1>6 DEF MergesAt, Shows
  <2> QED
    BY <2>1, <2>2
<1>7. CASE list = "services" /\ lists.rows[a].live # item.live
  <2> DEFINE rows == Showing(lists.rows, a, item.live)
             width == flag(lists.width, rows, a)
  <2>1. /\ rows \in Seq(Row) /\ Len(rows) = Len(lists.rows) /\ DOMAIN rows = DOMAIN lists.rows
        /\ rows[a].live = item.live
        /\ \A i \in DOMAIN lists.rows : /\ rows[i].key = lists.rows[i].key
                                        /\ i # a => rows[i] = lists.rows[i]
    BY <1>1, ShowingRows
  <2>2. after = [lists EXCEPT !.rows = rows, !.width = width]
    BY <1>7 DEF Known, KnownService
  <2> HIDE DEF rows
  <2>3. \A i \in DOMAIN rows : Width(rows[i].live) \in Nat
    <3>1. \A i \in DOMAIN lists.rows : Width(lists.rows[i].live) \in Nat
      BY <1>7 DEF Whole, Fitting
    <3>2. Width(rows[a].live) \in Nat
      BY <1>7, <2>1 DEF Reportable
    <3> QED
      BY <2>1, <3>1, <3>2
  <2>4. /\ width \in Column /\ width.size >= lists.width.size
        /\ width.size >= Width(rows[a].live)
    BY <1>1, <2>1, <2>3, FlagFits
  <2> HIDE DEF width, after
  <2>5. after = [rows |-> rows, beside |-> lists.beside, width |-> width]
    BY <1>1, <2>2
  <2>6. after.rows = rows /\ after.beside = lists.beside /\ after.width = width
    BY <2>5
  <2>7. width.size \in Nat
    BY <2>4 DEF Column
  <2>8. Whole(after)
    <3>1. after \in Lists
      BY <1>1, <2>1, <2>4, <2>5 DEF Lists
    <3>2. Unique(after.rows)
      BY <2>1, <2>6 DEF Unique, Whole
    <3>3. ASSUME NEW i \in DOMAIN rows PROVE Width(rows[i].live) <= width.size
      <4>1. CASE i = a
        BY <2>3, <2>4, <2>7, <4>1
      <4>2. CASE i # a
        <5>1. Width(lists.rows[i].live) <= lists.width.size /\ rows[i] = lists.rows[i]
          BY <1>7, <2>1, <4>2 DEF Whole, Fitting
        <5> QED
          BY <1>1, <2>3, <2>4, <2>7, <5>1
      <4> QED
        BY <4>1, <4>2
    <3>4. Fitting(after.rows, after.width)
      BY <2>3, <2>6, <3>3 DEF Fitting
    <3>5. after.width.size >= HeaderWidth
      BY <1>1, <2>4, <2>6, <2>7 DEF Whole
    <3> QED
      BY <1>7, <2>1, <2>6, <3>1, <3>2, <3>4, <3>5 DEF Whole, Double
  <2>9. MergesAt(lists, item, after, a)
    BY <1>2, <1>3, <1>7, <2>1, <2>6 DEF MergesAt, Shows
  <2> QED
    BY <2>8, <2>9 DEF after
<1>8. CASE list = "types"
  <2>1. after = lists
    BY <1>8 DEF Known
  <2>2. MergesAt(lists, item, lists, a)
    BY <1>2, <1>3, <1>8 DEF MergesAt, Shows
  <2> QED
    BY <2>1, <2>2
<1> QED
  BY <1>4, <1>5, <1>6, <1>7, <1>8 DEF List

(* An item without a row: the handler appends one.                           *)
LEMMA InsertedMerges ==
    ASSUME NEW lists, Whole(lists), NEW item, Reportable(item), list \in List \ {"updates"},
           ~Has(lists.rows, item.key)
    PROVE  /\ Whole(Inserted(lists, item))
           /\ MergesAt(lists, item, Inserted(lists, item), Len(lists.rows) + 1)
<1> DEFINE after == Inserted(lists, item)
           N == Len(lists.rows)
           row == IF list = "drives" THEN [key |-> item.key, live |-> "", fixed |-> item.fixed]
                                     ELSE item
           rows == Append(lists.rows, row)
           second == InsertedBeside(lists, item)
           width == IF list = "services" THEN flag(lists.width, rows, Len(rows)) ELSE lists.width
<1>1. /\ lists.rows \in Seq(Row) /\ lists.beside \in Seq(Sample) /\ lists.width \in Column
      /\ item \in Row /\ item.live \in Lives /\ item.key \in Keys
      /\ lists.width.size \in Nat /\ HeaderWidth \in Nat
      /\ N \in Nat /\ DOMAIN lists.rows = 1 .. N
  BY ListAssumption DEF Whole, Lists, Reportable, Row, Column
<1>2. \A i \in DOMAIN lists.rows : lists.rows[i].key # item.key
  BY DEF Has
<1>3. row \in Row /\ row.key = item.key /\ (list # "drives" => row = item)
  BY <1>1 DEF Row, Lives
<1>4. after = [rows |-> rows, beside |-> second, width |-> width]
  BY DEF Inserted
<1> HIDE DEF row
<1>5. /\ rows \in Seq(Row) /\ Len(rows) = N + 1 /\ DOMAIN rows = 1 .. N + 1
      /\ rows[N + 1] = row
      /\ \A i \in 1 .. N : rows[i] = lists.rows[i]
  BY <1>1, <1>3
<1> HIDE DEF rows, second, width, after
<1>6. after.rows = rows /\ after.beside = second /\ after.width = width
  BY <1>4
<1>7. \A i \in 1 .. N + 1 : i \in 1 .. N \/ i = N + 1
  BY <1>1
<1>8. Unique(rows)
  <2> SUFFICES ASSUME NEW i \in 1 .. N + 1, NEW j \in 1 .. N + 1, rows[i].key = rows[j].key
               PROVE  i = j
    BY <1>5 DEF Unique
  <2>1. CASE i \in 1 .. N /\ j \in 1 .. N
    BY <1>1, <1>5, <2>1 DEF Whole, Unique
  <2>2. CASE ~(i \in 1 .. N /\ j \in 1 .. N)
    BY <1>1, <1>2, <1>3, <1>5, <1>7, <2>2
  <2> QED
    BY <2>1, <2>2
<1>9. width \in Column /\ width.size >= lists.width.size /\ Fitting(rows, width)
  <2>1. CASE list = "services"
    <3>1. ASSUME NEW i \in DOMAIN rows PROVE Width(rows[i].live) \in Nat
      BY <1>1, <1>3, <1>5, <1>7, <2>1 DEF Whole, Fitting, Reportable
    <3>2. width = flag(lists.width, rows, N + 1)
      BY <1>5, <2>1 DEF width
    <3>3. N + 1 \in DOMAIN rows
      BY <1>1, <1>5
    <3>4. width \in Column /\ width.size >= lists.width.size /\ width.size >= Width(rows[N + 1].live)
      BY <1>1, <1>5, <3>1, <3>2, <3>3, FlagFits
    <3>5. width.size \in Nat
      BY <3>4 DEF Column
    <3>6. ASSUME NEW i \in DOMAIN rows PROVE Width(rows[i].live) <= width.size
      <4>1. CASE i = N + 1
        BY <3>1, <3>4, <3>5, <4>1
      <4>2. CASE i \in 1 .. N
        <5>1. Width(lists.rows[i].live) <= lists.width.size /\ rows[i] = lists.rows[i]
          BY <1>1, <1>5, <2>1, <4>2 DEF Whole, Fitting
        <5> QED
          BY <1>1, <3>1, <3>4, <3>5, <5>1
      <4> QED
        BY <1>5, <1>7, <4>1, <4>2
    <3> QED
      BY <3>1, <3>4, <3>6 DEF Fitting
  <2>2. CASE list # "services"
    <3>1. width = lists.width
      BY <2>2 DEF width
    <3> QED
      BY <1>1, <2>2, <3>1 DEF Fitting
  <2> QED
    BY <2>1, <2>2
<1>a. width.size \in Nat /\ width.size >= HeaderWidth
  <2>1. width.size \in Nat
    BY <1>9 DEF Column
  <2> QED
    BY <1>1, <1>9, <2>1 DEF Whole
<1>b. /\ second \in Seq(Sample)
      /\ Len(second) = IF Double THEN N + 1 ELSE 0
      /\ \A i \in 1 .. N : second[i] = lists.beside[i]
      /\ list = "adapters" => second[N + 1] = item.live
      /\ Shows(after, N + 1, item)
  <2>1. CASE list = "adapters"
    <3>1. second = Append(lists.beside, item.live)
      BY <2>1 DEF second, InsertedBeside
    <3>2. Len(lists.beside) = N /\ item.live \in Sample
      BY <1>1, <2>1 DEF Whole, Double, Sample
    <3>3. /\ second \in Seq(Sample) /\ Len(second) = N + 1 /\ second[N + 1] = item.live
          /\ \A i \in 1 .. N : second[i] = lists.beside[i]
      BY <1>1, <3>1, <3>2
    <3>4. after.rows[N + 1].live = item.live
      BY <1>3, <1>5, <1>6, <2>1
    <3>5. Shows(after, N + 1, item)
      BY <2>1, <3>4 DEF Shows
    <3> QED
      BY <2>1, <3>3, <3>5 DEF Double
  <2>2. CASE list = "drives"
    <3> DEFINE parts == Positional(<<>>, item.live)
    <3>1. second = Append(lists.beside, parts)
      BY <2>2 DEF second, InsertedBeside
    <3>2. Len(lists.beside) = N /\ item.live \in Seq(Row) /\ Sample = Seq(Row) /\ <<>> \in Seq(Row)
      BY <1>1, <2>2 DEF Whole, Double, Sample, Reportable
    <3>3. PICK none : none \in Seq(Row) /\ none = <<>>
      BY <3>2, Zenon
    <3>4. /\ Positional(none, item.live) \in Seq(Row)
          /\ DOMAIN Positional(none, item.live) = DOMAIN item.live
          /\ \A p \in DOMAIN item.live :
                /\ Positional(none, item.live)[p].key = item.live[p].key
                /\ Positional(none, item.live)[p].live = item.live[p].live
      BY <3>2, <3>3, PositionalShows
    <3>5. parts = Positional(none, item.live)
      BY <3>3, Zenon
    <3> HIDE DEF parts
    <3>6. /\ second \in Seq(Sample) /\ Len(second) = N + 1 /\ second[N + 1] = parts
          /\ \A i \in 1 .. N : second[i] = lists.beside[i]
      BY <1>1, <3>1, <3>2, <3>4, <3>5
    <3>7. Shows(after, N + 1, item)
      BY <1>6, <2>2, <3>4, <3>5, <3>6 DEF Shows
    <3> QED
      BY <2>2, <3>6, <3>7 DEF Double
  <2>3. CASE ~Double
    <3>1. list # "drives" /\ list # "adapters"
      BY <2>3 DEF Double
    <3>2. second = lists.beside
      BY <3>1 DEF second, InsertedBeside
    <3>3. Len(lists.beside) = 0
      BY <2>3 DEF Whole
    <3>4. after.rows[N + 1].live = item.live
      BY <1>3, <1>5, <1>6, <3>1
    <3>5. Shows(after, N + 1, item)
      BY <3>1, <3>4 DEF Shows
    <3> QED
      BY <1>1, <2>3, <3>1, <3>2, <3>3, <3>5
  <2> QED
    BY <2>1, <2>2, <2>3 DEF Double
<1>c. Whole(after)
  <2>1. after \in Lists
    BY <1>4, <1>5, <1>9, <1>b DEF Lists
  <2> QED
    BY <1>5, <1>6, <1>8, <1>9, <1>a, <1>b, <2>1 DEF Whole
<1>d. MergesAt(lists, item, after, N + 1)
  <2>1. N + 1 \in 1 .. N + 1 /\ N + 1 \notin 1 .. N
    BY <1>1
  <2>2. after.rows[N + 1].key = item.key
    BY <1>3, <1>5, <1>6
  <2>3. list = "adapters" => after.beside[N + 1] = item.live
    BY <1>6, <1>b
  <2>4. ASSUME NEW i \in 1 .. N
        PROVE  after.rows[i] = lists.rows[i] /\ after.beside[i] = lists.beside[i]
    BY <1>5, <1>6, <1>b
  <2>5. Len(after.rows) = N + 1
    BY <1>5, <1>6
  <2> HIDE DEF N
  <2>6. Len(lists.rows) = N
    BY DEF N
  <2> QED
    BY <1>1, <1>2, <1>b, <2>1, <2>2, <2>3, <2>4, <2>5, <2>6 DEF MergesAt
<1> QED
  BY <1>c, <1>d DEF after, N

(* walked of the definition of Merge.                                        *)
WalkedUpTo(walked, lists, item) ==
    walked = [a \in 0 .. Len(lists.rows) |->
                 IF a = 0 THEN lists
                 ELSE IF lists.rows[a].key = item.key THEN Known(walked[a - 1], item, a)
                                                      ELSE walked[a - 1]]

(* As no two rows have one key, the walk changes one of them.                *)
LEMMA WalkedOnce ==
    ASSUME NEW lists, Whole(lists), NEW item, NEW a \in DOMAIN lists.rows,
           lists.rows[a].key = item.key
    PROVE  Merge(lists, item) = Known(lists, item, a)
<1> DEFINE N == Len(lists.rows)
           g == [b \in 0 .. N |-> IF b < a THEN lists ELSE Known(lists, item, a)]
           f == CHOOSE h : WalkedUpTo(h, lists, item)
<1>1. N \in Nat /\ DOMAIN lists.rows = 1 .. N /\ a \in 1 .. N
  BY DEF Whole, Lists
<1>2. \A b \in 1 .. N : lists.rows[b].key = item.key <=> b = a
  BY <1>1 DEF Whole, Unique
<1>3. WalkedUpTo(g, lists, item)
  <2>1. ASSUME NEW b \in 0 .. N
        PROVE  g[b] = IF b = 0 THEN lists
                      ELSE IF lists.rows[b].key = item.key THEN Known(g[b - 1], item, b)
                                                           ELSE g[b - 1]
    <3>1. CASE b = 0
      BY <1>1, <3>1
    <3>2. CASE b # 0
      <4>1. b \in 1 .. N /\ b - 1 \in 0 .. N
        BY <1>1, <3>2
      <4>2. /\ g[b] = IF b < a THEN lists ELSE Known(lists, item, a)
            /\ g[b - 1] = IF b - 1 < a THEN lists ELSE Known(lists, item, a)
        BY <4>1
      <4> HIDE DEF g
      <4>3. CASE b = a
        <5>1. g[b] = Known(lists, item, a) /\ g[b - 1] = lists
          BY <1>1, <4>1, <4>2, <4>3
        <5> QED
          BY <1>2, <3>2, <4>1, <4>3, <5>1, Zenon
      <4>4. CASE b # a
        <5>1. g[b] = g[b - 1]
          BY <1>1, <4>1, <4>2, <4>4
        <5> QED
          BY <1>2, <3>2, <4>1, <4>4, <5>1, Zenon
      <4> QED
        BY <4>3, <4>4
    <3> QED
      BY <3>1, <3>2
  <2> DEFINE F(b) == IF b = 0 THEN lists
                     ELSE IF lists.rows[b].key = item.key THEN Known(g[b - 1], item, b)
                                                          ELSE g[b - 1]
  <2>2. \A b \in 0 .. N : g[b] = F(b)
    BY <2>1
  <2>3. g = [b \in 0 .. N |-> g[b]]
    OBVIOUS
  <2>4. g = [b \in 0 .. N |-> F(b)]
    <3> HIDE DEF g, F
    <3> QED
      BY <2>2, <2>3
  <2> QED
    BY <2>4 DEF WalkedUpTo
<1>4. WalkedUpTo(f, lists, item)
  <2> HIDE DEF g
  <2> QED
    BY <1>3
<1>5. Merge(lists, item) = f[N]
  <2>1. Has(lists.rows, item.key)
    BY DEF Has
  <2> QED
    BY <2>1 DEF Merge, WalkedUpTo
<1>6. /\ f[0] = lists
      /\ \A b \in 1 .. N : f[b] = IF b = a THEN Known(f[b - 1], item, b) ELSE f[b - 1]
  <2> HIDE DEF f
  <2>1. ASSUME NEW b \in 0 .. N
        PROVE  f[b] = IF b = 0 THEN lists
                      ELSE IF lists.rows[b].key = item.key THEN Known(f[b - 1], item, b)
                                                           ELSE f[b - 1]
    BY <1>4 DEF WalkedUpTo
  <2>2. 0 \in 0 .. N
    BY <1>1
  <2>3. ASSUME NEW b \in 1 .. N PROVE b \in 0 .. N /\ b # 0
    BY <1>1
  <2> HIDE DEF N
  <2> QED
    BY <1>2, <2>1, <2>2, <2>3, Zenon
<1> HIDE DEF f
<1> DEFINE T == {b \in 0 .. N : f[b] = IF b < a THEN lists ELSE Known(lists, item, a)}
<1>7. 0 \in T
  <2>1. 0 \in 0 .. N /\ 0 < a
    BY <1>1
  <2> QED
    BY <1>6, <2>1
<1>8. ASSUME NEW b \in 1 .. N, b - 1 \in T PROVE b \in T
  <2>1. b \in 0 .. N /\ f[b - 1] = IF b - 1 < a THEN lists ELSE Known(lists, item, a)
    BY <1>1, <1>8
  <2>2. CASE b = a
    <3>1. f[b - 1] = lists /\ ~(b < a)
      BY <1>1, <2>1, <2>2
    <3>2. f[b] = Known(lists, item, a)
      BY <1>6, <2>2, <3>1, Zenon
    <3> QED
      BY <2>1, <3>1, <3>2
  <2>3. CASE b # a
    <3>1. f[b] = f[b - 1]
      BY <1>6, <2>3
    <3>2. b - 1 < a <=> b < a
      BY <1>1, <2>3
    <3> QED
      BY <2>1, <3>1, <3>2
  <2> QED
    BY <2>2, <2>3
<1>9. f[N] = Known(lists, item, a)
  <2>1. \A b \in 0 .. N : b \in T
    <3> HIDE DEF T
    <3> QED
      BY <1>1, <1>7, <1>8, InductionUpTo
  <2>2. N \in 0 .. N /\ ~(N < a)
    BY <1>1
  <2> QED
    BY <2>1, <2>2
<1> QED
  BY <1>5, <1>9

Merges(lists, item, after) == \E p \in Nat : MergesAt(lists, item, after, p)

(* Either way, one item of a report leaves a whole list that shows it.       *)
LEMMA MergeMerges ==
    ASSUME NEW lists, Whole(lists), NEW item, Reportable(item), list \in List \ {"updates"}
    PROVE  Whole(Merge(lists, item)) /\ Merges(lists, item, Merge(lists, item))
<1>1. CASE Has(lists.rows, item.key)
  <2>1. PICK a \in DOMAIN lists.rows : lists.rows[a].key = item.key
    BY <1>1 DEF Has
  <2>2. Merge(lists, item) = Known(lists, item, a)
    BY <2>1, WalkedOnce
  <2>3. Whole(Known(lists, item, a)) /\ MergesAt(lists, item, Known(lists, item, a), a)
    BY <2>1, KnownMerges
  <2>4. a \in Nat
    BY DEF Whole, Lists
  <2> QED
    BY <2>2, <2>3, <2>4 DEF Merges
<1>2. CASE ~Has(lists.rows, item.key)
  <2>1. Merge(lists, item) = Inserted(lists, item)
    BY <1>2 DEF Merge
  <2>2. /\ Whole(Inserted(lists, item))
        /\ MergesAt(lists, item, Inserted(lists, item), Len(lists.rows) + 1)
    BY <1>2, InsertedMerges
  <2>3. Len(lists.rows) + 1 \in Nat
    BY DEF Whole, Lists
  <2> QED
    BY <2>1, <2>2, <2>3 DEF Merges
<1> QED
  BY <1>1, <1>2

-------------------------------------------------------------------------------
(* A whole report, item by item.                                             *)

(* merged of the definition of Merged.                                       *)
MergedUpTo(merged, lists, report) ==
    merged = [n \in 0 .. Len(report) |->
                 IF n = 0 THEN lists ELSE Merge(merged[n - 1], report[n])]

Chain(g, lists, report) ==
    /\ g[0] = lists
    /\ \A n \in 0 .. Len(report) : Whole(g[n])
    /\ \A n \in 1 .. Len(report) : Merges(g[n - 1], report[n], g[n])

(* The loop of a handler over a report is a chain of single merges.          *)
LEMMA MergedChain ==
    ASSUME NEW lists, Whole(lists), NEW report \in Seq(Row), list \in List \ {"updates"},
           \A n \in DOMAIN report : Reportable(report[n])
    PROVE  \E g : Chain(g, lists, report) /\ Merged(lists, report) = g[Len(report)]
<1> DEFINE N == Len(report)
           X == {l \in Lists : Whole(l)}
           step == [n \in 1 .. N |-> [l \in X |-> Merge(l, report[n])]]
           f == CHOOSE h : MergedUpTo(h, lists, report)
<1>1. N \in Nat /\ DOMAIN report = 1 .. N
  OBVIOUS
<1>2. lists \in X
  BY DEF Whole
<1>3. ASSUME NEW n \in 1 .. N, NEW l \in X
      PROVE  Merge(l, report[n]) \in X /\ Merges(l, report[n], Merge(l, report[n]))
  <2>1. Whole(l) /\ Reportable(report[n])
    BY <1>1
  <2>2. Whole(Merge(l, report[n])) /\ Merges(l, report[n], Merge(l, report[n]))
    BY <2>1, MergeMerges
  <2>3. Merge(l, report[n]) \in Lists
    BY <2>2 DEF Whole
  <2> QED
    BY <2>2, <2>3
<1> HIDE DEF X, N
<1>4. step \in [1 .. N -> [X -> X]]
  BY <1>3
<1>5. \A n \in 1 .. N, l \in X : step[n][l] = Merge(l, report[n])
  OBVIOUS
<1> HIDE DEF step
<1>6. PICK g \in [0 .. N -> X] : StepsFrom(g, lists, step, N)
  BY <1>1, <1>2, <1>4, Recursion
<1>7. ASSUME NEW n \in 0 .. N PROVE g[n] = IF n = 0 THEN lists ELSE Merge(g[n - 1], report[n])
  <2>1. n # 0 => n \in 1 .. N /\ n - 1 \in 0 .. N
    BY <1>1
  <2> QED
    BY <1>5, <1>6, <2>1 DEF StepsFrom
<1>8. MergedUpTo(g, lists, report)
  <2>1. g = [n \in 0 .. N |-> IF n = 0 THEN lists ELSE Merge(g[n - 1], report[n])]
    BY <1>7
  <2> QED
    BY <2>1 DEF MergedUpTo, N
<1>9. MergedUpTo(f, lists, report)
  BY <1>8
<1>a. Merged(lists, report) = f[N]
  BY DEF Merged, MergedUpTo, N
<1> HIDE DEF f
<1>b. ASSUME NEW n \in 0 .. N PROVE f[n] = IF n = 0 THEN lists ELSE Merge(f[n - 1], report[n])
  BY <1>9 DEF MergedUpTo, N
<1> DEFINE T == {n \in 0 .. N : f[n] \in X}
<1>c. 0 \in T
  <2>1. 0 \in 0 .. N
    BY <1>1
  <2> QED
    BY <1>2, <1>b, <2>1
<1>d. ASSUME NEW n \in 1 .. N, n - 1 \in T PROVE n \in T
  <2>1. n \in 0 .. N /\ n # 0 /\ f[n - 1] \in X
    BY <1>1, <1>d
  <2> QED
    BY <1>3, <1>b, <2>1
<1>e. \A n \in 0 .. N : f[n] \in X
  <2>1. \A n \in 0 .. N : n \in T
    <3> HIDE DEF T
    <3> QED
      BY <1>1, <1>c, <1>d, InductionUpTo
  <2> QED
    BY <2>1
<1>f. f[0] = lists
  <2>1. 0 \in 0 .. N
    BY <1>1
  <2> QED
    BY <1>b, <2>1
<1>g. ASSUME NEW n \in 1 .. N PROVE Merges(f[n - 1], report[n], f[n])
  <2>1. n \in 0 .. N /\ n - 1 \in 0 .. N /\ n # 0
    BY <1>1
  <2>2. f[n] = Merge(f[n - 1], report[n]) /\ f[n - 1] \in X
    BY <1>b, <1>e, <2>1
  <2> QED
    BY <1>3, <2>2
<1>h. Chain(f, lists, report)
  BY <1>e, <1>f, <1>g DEF Chain, X, N
<1> QED
  BY <1>a, <1>h DEF N

(* The key is among the first n items of a report.                           *)
Listed(report, n, key) == \E m \in 1 .. n : report[m].key = key

(* now is what the lists have become when n items were merged: rows stay and *)
(* keep their keys, and each item has its row.                               *)
Follows(lists, report, n, now) ==
    /\ Len(now.rows) >= Len(lists.rows)
    /\ \A i \in DOMAIN lists.rows : now.rows[i].key = lists.rows[i].key
    /\ \A i \in DOMAIN now.rows :
          i \in DOMAIN lists.rows \/ Listed(report, n, now.rows[i].key)
    /\ \A m \in 1 .. n : Has(now.rows, report[m].key)

(* Each row shows the latest of its items.                                   *)
IsCurrent(report, n, now) ==
    \A i \in DOMAIN now.rows, m \in 1 .. n :
        (/\ report[m].key = now.rows[i].key
         /\ \A k \in m + 1 .. n : report[k].key # now.rows[i].key) => Shows(now, i, report[m])

(* Beside a row is what it showed before, or its first sample.               *)
IsPaired(lists, report, n, now) ==
    \A i \in DOMAIN now.rows :
        IF Listed(report, n, now.rows[i].key)
        THEN now.beside[i] = IF i \in DOMAIN lists.rows THEN lists.rows[i].live
                                                        ELSE now.rows[i].live
        ELSE now.rows[i] = lists.rows[i]

(* One item more.                                                            *)
LEMMA OneMore ==
    ASSUME NEW old, Whole(old), NEW new, Whole(new), NEW item, Merges(old, item, new)
    PROVE  /\ Len(new.rows) >= Len(old.rows)
           /\ \A i \in DOMAIN old.rows : i \in DOMAIN new.rows /\ new.rows[i].key = old.rows[i].key
           /\ \A i \in DOMAIN new.rows :
                 \/ /\ i \in DOMAIN old.rows
                    /\ new.rows[i].key # item.key
                    /\ new.rows[i] = old.rows[i]
                    /\ new.beside[i] = old.beside[i]
                 \/ /\ new.rows[i].key = item.key
                    /\ Shows(new, i, item)
                    /\ list = "adapters" =>
                          new.beside[i] = IF i \in DOMAIN old.rows THEN old.rows[i].live
                                                                   ELSE item.live
           /\ Has(new.rows, item.key)
<1>1. PICK p \in Nat : MergesAt(old, item, new, p)
  BY DEF Merges
<1>2. /\ DOMAIN old.rows = 1 .. Len(old.rows) /\ DOMAIN new.rows = 1 .. Len(new.rows)
      /\ Len(old.rows) \in Nat /\ Len(new.rows) \in Nat
  BY DEF Whole, Lists
<1>3. /\ p \in DOMAIN new.rows /\ new.rows[p].key = item.key
      /\ Len(new.rows) >= Len(old.rows)
      /\ \A i \in DOMAIN old.rows : i \in DOMAIN new.rows
      /\ \A i \in DOMAIN new.rows : i = p \/ i \in DOMAIN old.rows
  BY <1>1, <1>2 DEF MergesAt
<1>4. \A i \in DOMAIN old.rows : new.rows[i].key = old.rows[i].key
  BY <1>1 DEF MergesAt
<1>5. ASSUME NEW i \in DOMAIN new.rows, i # p
      PROVE  /\ i \in DOMAIN old.rows /\ new.rows[i].key # item.key
             /\ new.rows[i] = old.rows[i] /\ new.beside[i] = old.beside[i]
  BY <1>1, <1>3, <1>4, <1>5 DEF MergesAt
<1>6. /\ Shows(new, p, item)
      /\ list = "adapters" =>
            new.beside[p] = IF p \in DOMAIN old.rows THEN old.rows[p].live ELSE item.live
  BY <1>1 DEF MergesAt
<1>7. Has(new.rows, item.key)
  BY <1>3 DEF Has
<1> QED
  BY <1>3, <1>4, <1>5, <1>6, <1>7

(* Along the chain the rows keep their order and new keys come behind them.  *)
LEMMA ChainFollows ==
    ASSUME NEW lists, NEW report \in Seq(Row), NEW g, Chain(g, lists, report)
    PROVE  \A n \in 0 .. Len(report) : Follows(lists, report, n, g[n])
<1> DEFINE N == Len(report)
           T == {n \in 0 .. N : Follows(lists, report, n, g[n])}
<1>1. N \in Nat
  OBVIOUS
<1>2. 0 \in T
  <2>1. 0 \in 0 .. N /\ Whole(g[0]) /\ g[0] = lists
    BY <1>1 DEF Chain
  <2>2. Len(lists.rows) \in Nat
    BY <2>1 DEF Whole, Lists
  <2>3. Follows(lists, report, 0, lists)
    BY <2>2 DEF Follows
  <2> QED
    BY <2>1, <2>3
<1>3. ASSUME NEW n \in 1 .. N, n - 1 \in T PROVE n \in T
  <2>1. n \in 0 .. N /\ n - 1 \in 0 .. N /\ 0 \in 0 .. N /\ n \in Nat
    BY <1>1
  <2>2. PICK old : old = g[n - 1]
    OBVIOUS
  <2>3. PICK new : new = g[n]
    OBVIOUS
  <2>4. PICK item : item = report[n]
    OBVIOUS
  <2>5. Whole(lists) /\ Whole(old) /\ Whole(new) /\ Merges(old, item, new)
    BY <2>1, <2>2, <2>3, <2>4 DEF Chain
  <2>6. Follows(lists, report, n - 1, old)
    BY <1>3, <2>2
  <2>7. /\ Len(new.rows) >= Len(old.rows)
        /\ \A i \in DOMAIN old.rows : i \in DOMAIN new.rows /\ new.rows[i].key = old.rows[i].key
        /\ \A i \in DOMAIN new.rows : i \in DOMAIN old.rows \/ new.rows[i].key = item.key
        /\ Has(new.rows, item.key)
    BY <2>5, OneMore
  <2>8. /\ DOMAIN lists.rows = 1 .. Len(lists.rows) /\ DOMAIN old.rows = 1 .. Len(old.rows)
        /\ Len(lists.rows) \in Nat /\ Len(old.rows) \in Nat /\ Len(new.rows) \in Nat
    BY <2>5 DEF Whole, Lists
  <2>9. /\ Len(old.rows) >= Len(lists.rows)
        /\ \A i \in DOMAIN lists.rows : i \in DOMAIN old.rows /\ old.rows[i].key = lists.rows[i].key
    BY <2>6, <2>8 DEF Follows
  <2>10. ASSUME NEW key, Listed(report, n - 1, key) PROVE Listed(report, n, key)
    BY <2>1, <2>10 DEF Listed
  <2>11. Listed(report, n, item.key)
    BY <2>1, <2>4 DEF Listed
  <2>12. ASSUME NEW i \in DOMAIN new.rows
         PROVE  i \in DOMAIN lists.rows \/ Listed(report, n, new.rows[i].key)
    <3>1. CASE i \in DOMAIN old.rows
      <4>1. i \in DOMAIN lists.rows \/ Listed(report, n - 1, old.rows[i].key)
        BY <2>6, <3>1 DEF Follows
      <4> QED
        BY <2>7, <2>10, <3>1, <4>1
    <3>2. CASE new.rows[i].key = item.key
      BY <2>11, <3>2
    <3> QED
      BY <2>7, <3>1, <3>2
  <2>13. ASSUME NEW m \in 1 .. n PROVE Has(new.rows, report[m].key)
    <3>1. CASE m = n
      BY <2>4, <2>7, <3>1
    <3>2. CASE m # n
      <4>1. m \in 1 .. n - 1
        BY <2>1, <3>2
      <4>2. Has(old.rows, report[m].key)
        BY <2>6, <4>1 DEF Follows
      <4>3. PICK i \in DOMAIN old.rows : old.rows[i].key = report[m].key
        BY <4>2 DEF Has
      <4> QED
        BY <2>7, <4>3 DEF Has
    <3> QED
      BY <3>1, <3>2
  <2>14. Len(new.rows) >= Len(lists.rows)
    BY <2>7, <2>8, <2>9
  <2>15. \A i \in DOMAIN lists.rows : new.rows[i].key = lists.rows[i].key
    BY <2>7, <2>9
  <2>16. Follows(lists, report, n, new)
    BY <2>12, <2>13, <2>14, <2>15 DEF Follows
  <2> QED
    BY <2>1, <2>3, <2>16
<1> QED
  <2> HIDE DEF T
  <2>1. \A n \in 0 .. N : n \in T
    BY <1>1, <1>2, <1>3, InductionUpTo
  <2> QED
    BY <2>1 DEF T

(* Along the chain every item handled so far is shown with its latest value. *)
LEMMA ChainCurrent ==
    ASSUME NEW lists, NEW report \in Seq(Row), NEW g, Chain(g, lists, report)
    PROVE  \A n \in 0 .. Len(report) : IsCurrent(report, n, g[n])
<1> DEFINE N == Len(report)
           T == {n \in 0 .. N : IsCurrent(report, n, g[n])}
<1>1. N \in Nat
  OBVIOUS
<1>2. 0 \in T
  BY <1>1 DEF IsCurrent
<1>3. ASSUME NEW n \in 1 .. N, n - 1 \in T PROVE n \in T
  <2>1. n \in 0 .. N /\ n - 1 \in 0 .. N /\ n \in Nat
    BY <1>1
  <2>2. PICK old : old = g[n - 1]
    OBVIOUS
  <2>3. PICK new : new = g[n]
    OBVIOUS
  <2>4. PICK item : item = report[n]
    OBVIOUS
  <2>5. Whole(old) /\ Whole(new) /\ Merges(old, item, new)
    BY <2>1, <2>2, <2>3, <2>4 DEF Chain
  <2>6. IsCurrent(report, n - 1, old)
    BY <1>3, <2>2
  <2>7. ASSUME NEW i \in DOMAIN new.rows, NEW m \in 1 .. n,
               report[m].key = new.rows[i].key,
               \A k \in m + 1 .. n : report[k].key # new.rows[i].key
        PROVE  Shows(new, i, report[m])
    <3>1. CASE new.rows[i].key = item.key
      <4>1. m = n
        <5>1. n \notin m + 1 .. n
          BY <2>4, <2>7, <3>1
        <5> QED
          BY <2>1, <5>1
      <4>2. Shows(new, i, item)
        BY <2>5, <3>1, OneMore
      <4> QED
        BY <2>4, <4>1, <4>2
    <3>2. CASE new.rows[i].key # item.key
      <4>1. i \in DOMAIN old.rows /\ new.rows[i] = old.rows[i] /\ new.beside[i] = old.beside[i]
        BY <2>5, <3>2, OneMore
      <4>2. m # n
        BY <2>4, <2>7, <3>2
      <4>3. m \in 1 .. n - 1 /\ \A k \in m + 1 .. n - 1 : k \in m + 1 .. n
        BY <2>1, <4>2
      <4>4. Shows(old, i, report[m])
        BY <2>6, <2>7, <4>1, <4>3 DEF IsCurrent
      <4> QED
        BY <4>1, <4>4 DEF Shows
    <3> QED
      BY <3>1, <3>2
  <2>8. IsCurrent(report, n, new)
    BY <2>7 DEF IsCurrent
  <2> QED
    BY <2>1, <2>3, <2>8
<1> QED
  <2> HIDE DEF T
  <2>1. \A n \in 0 .. N : n \in T
    BY <1>1, <1>2, <1>3, InductionUpTo
  <2> QED
    BY <2>1 DEF T

(* Only when no adapter is reported twice.                                   *)
LEMMA ChainPaired ==
    ASSUME NEW lists, NEW report \in Seq(Row), NEW g, Chain(g, lists, report),
           list = "adapters", Unique(report)
    PROVE  \A n \in 0 .. Len(report) : IsPaired(lists, report, n, g[n])
<1> DEFINE N == Len(report)
           T == {n \in 0 .. N : IsPaired(lists, report, n, g[n])}
<1>1. N \in Nat /\ DOMAIN report = 1 .. N
  OBVIOUS
<1>2. 0 \in T
  <2>1. 0 \in 0 .. N /\ g[0] = lists
    BY <1>1 DEF Chain
  <2>2. \A key : ~Listed(report, 0, key)
    BY DEF Listed
  <2>3. IsPaired(lists, report, 0, lists)
    BY <2>2 DEF IsPaired
  <2> QED
    BY <2>1, <2>3
<1>3. ASSUME NEW n \in 1 .. N, n - 1 \in T PROVE n \in T
  <2>1. n \in 0 .. N /\ n - 1 \in 0 .. N /\ 0 \in 0 .. N /\ n \in Nat
    BY <1>1
  <2>2. PICK old : old = g[n - 1]
    OBVIOUS
  <2>3. PICK new : new = g[n]
    OBVIOUS
  <2>4. PICK item : item = report[n]
    OBVIOUS
  <2>5. Whole(lists) /\ Whole(old) /\ Whole(new) /\ Merges(old, item, new)
    BY <2>1, <2>2, <2>3, <2>4 DEF Chain
  <2>6. IsPaired(lists, report, n - 1, old)
    BY <1>3, <2>2
  <2>7. Follows(lists, report, n - 1, old)
    BY <2>1, <2>2, ChainFollows
  <2>8. DOMAIN lists.rows \subseteq DOMAIN old.rows
    <3>1. /\ DOMAIN lists.rows = 1 .. Len(lists.rows) /\ DOMAIN old.rows = 1 .. Len(old.rows)
          /\ Len(lists.rows) \in Nat /\ Len(old.rows) \in Nat
      BY <2>5 DEF Whole, Lists
    <3> QED
      BY <2>7, <3>1 DEF Follows
  <2>9. ~Listed(report, n - 1, item.key)
    <3> SUFFICES ASSUME NEW m \in 1 .. n - 1, report[m].key = item.key PROVE FALSE
      BY DEF Listed
    <3>1. m \in DOMAIN report /\ n \in DOMAIN report /\ m # n
      BY <1>1, <2>1
    <3> QED
      BY <2>4, <3>1 DEF Unique
  <2>10. \A key : Listed(report, n, key) <=> Listed(report, n - 1, key) \/ key = item.key
    <3>1. \A m \in 1 .. n : m \in 1 .. n - 1 \/ m = n
      BY <2>1
    <3>2. \A m \in 1 .. n - 1 : m \in 1 .. n
      BY <2>1
    <3>3. n \in 1 .. n
      BY <2>1
    <3> QED
      BY <2>4, <3>1, <3>2, <3>3 DEF Listed
  <2>11. ASSUME NEW i \in DOMAIN new.rows
         PROVE  IF Listed(report, n, new.rows[i].key)
                THEN new.beside[i] = IF i \in DOMAIN lists.rows THEN lists.rows[i].live
                                                                ELSE new.rows[i].live
                ELSE new.rows[i] = lists.rows[i]
    <3>1. CASE new.rows[i].key # item.key
      <4>1. i \in DOMAIN old.rows /\ new.rows[i] = old.rows[i] /\ new.beside[i] = old.beside[i]
        BY <2>5, <3>1, OneMore
      <4>2. Listed(report, n, new.rows[i].key) <=> Listed(report, n - 1, old.rows[i].key)
        BY <2>10, <3>1, <4>1
      <4> QED
        BY <2>6, <4>1, <4>2 DEF IsPaired
    <3>2. CASE new.rows[i].key = item.key
      <4>1. /\ Shows(new, i, item)
            /\ new.beside[i] = IF i \in DOMAIN old.rows THEN old.rows[i].live ELSE item.live
        BY <2>5, <3>2, OneMore
      <4>2. new.rows[i].live = item.live
        BY <4>1 DEF Shows
      <4>3. Listed(report, n, new.rows[i].key)
        BY <2>10, <3>2
      <4>4. CASE i \in DOMAIN old.rows
        <5>1. old.rows[i].key = item.key
          BY <2>5, <3>2, <4>4, OneMore
        <5>2. old.rows[i] = lists.rows[i]
          BY <2>6, <2>9, <4>4, <5>1 DEF IsPaired
        <5>3. i \in DOMAIN lists.rows
          BY <2>7, <2>9, <4>4, <5>1 DEF Follows
        <5> QED
          BY <4>1, <4>3, <4>4, <5>2, <5>3
      <4>5. CASE i \notin DOMAIN old.rows
        BY <2>8, <4>1, <4>2, <4>3, <4>5
      <4> QED
        BY <4>4, <4>5
    <3> QED
      BY <3>1, <3>2
  <2>12. IsPaired(lists, report, n, new)
    BY <2>11 DEF IsPaired
  <2> QED
    BY <2>1, <2>3, <2>12
<1> QED
  <2> HIDE DEF T
  <2>1. \A n \in 0 .. N : n \in T
    BY <1>1, <1>2, <1>3, InductionUpTo
  <2> QED
    BY <2>1 DEF T

(* All of it, for the report as a whole.                                     *)
LEMMA MergedReport ==
    ASSUME NEW lists, Whole(lists), NEW report \in Seq(Row), list \in List \ {"updates"},
           \A n \in DOMAIN report : Reportable(report[n])
    PROVE  /\ Whole(Merged(lists, report))
           /\ Follows(lists, report, Len(report), Merged(lists, report))
           /\ IsCurrent(report, Len(report), Merged(lists, report))
           /\ (list = "adapters" /\ Unique(report)) =>
                 IsPaired(lists, report, Len(report), Merged(lists, report))
<1>1. PICK g : Chain(g, lists, report) /\ Merged(lists, report) = g[Len(report)]
  BY MergedChain
<1>2. Len(report) \in 0 .. Len(report)
  OBVIOUS
<1>3. Whole(g[Len(report)])
  BY <1>1, <1>2 DEF Chain
<1>4. Follows(lists, report, Len(report), g[Len(report)])
  BY <1>1, <1>2, ChainFollows
<1>5. IsCurrent(report, Len(report), g[Len(report)])
  BY <1>1, <1>2, ChainCurrent
<1>6. ASSUME list = "adapters", Unique(report)
      PROVE  IsPaired(lists, report, Len(report), g[Len(report)])
  BY <1>1, <1>2, <1>6, ChainPaired
<1> QED
  BY <1>1, <1>3, <1>4, <1>5, <1>6

-------------------------------------------------------------------------------
(* The rows that stay.                                                       *)

Now == [rows |-> updates, beside |-> beside, width |-> min_width]

Base(report) ==
    [rows |-> Without(updates, Missing(updates, report)),
     beside |-> Without(beside, Missing(updates, report)),
     width |-> min_width]

(* Row i of the lists was row at[i]; those that stay are those reported.     *)
Stayed(at, report, lists) ==
    /\ at \in Seq(DOMAIN updates)
    /\ Len(lists.rows) = Len(at)
    /\ \A i \in DOMAIN at : /\ lists.rows[i] = updates[at[i]]
                            /\ Double => lists.beside[i] = beside[at[i]]
                            /\ Has(report, updates[at[i]].key)
    /\ \A i, j \in DOMAIN at : i < j => at[i] < at[j]
    /\ \A k \in DOMAIN updates : Has(report, updates[k].key) => \E i \in DOMAIN at : at[i] = k

(* What a handler keeps before the loop: the rows that stay are in their     *)
(* order.                                                                    *)
LEMMA BaseStays ==
    ASSUME Whole(Now), NEW report
    PROVE  /\ Whole(Base(report))
           /\ \E at : Stayed(at, report, Base(report))
<1> DEFINE N == Len(updates)
           gone == Missing(updates, report)
           base == Base(report)
           at == Kept(Numbers(N), DOMAIN updates \ gone)
<1>1. /\ updates \in Seq(Row) /\ beside \in Seq(Sample) /\ min_width \in Column
      /\ N \in Nat /\ DOMAIN updates = 1 .. N
      /\ Len(beside) = IF Double THEN N ELSE 0
  BY DEF Whole, Lists, Now
<1>2. \A k \in DOMAIN updates : k \notin gone <=> Has(report, updates[k].key)
  BY DEF Missing
<1>3. base.rows = Without(updates, gone) /\ base.beside = Without(beside, gone)
      /\ base.width = min_width /\ base = [rows |-> base.rows, beside |-> base.beside, width |-> base.width]
  BY DEF Base
<1>4. Left(at, N, DOMAIN updates \ gone)
  <2> HIDE DEF N, gone
  <2>1. N \in Nat
    BY <1>1
  <2> QED
    BY <2>1, NumbersLeft
<1>5. Picks(base.rows, updates, at)
  <2> HIDE DEF gone, base
  <2> QED
    BY <1>1, <1>3, WithoutPicks
<1>6. base.rows \in Seq(Row) /\ base.beside \in Seq(Sample)
  <2> HIDE DEF gone, base
  <2>1. Without(updates, gone) \in Seq(Row)
    BY <1>1, KeptPositions DEF Without, Selects
  <2>2. PICK S : S = Sample
    OBVIOUS
  <2>3. Without(beside, gone) \in Seq(S)
    <3>1. beside \in Seq(S)
      BY <1>1, <2>2
    <3> QED
      BY <3>1, KeptPositions DEF Without, Selects
  <2> QED
    BY <1>3, <2>1, <2>2, <2>3
<1>7. /\ Len(base.beside) = IF Double THEN Len(base.rows) ELSE 0
      /\ \A i \in DOMAIN at : Double => base.beside[i] = beside[at[i]]
  <2>1. CASE Double
    <3>0. Len(beside) = N /\ DOMAIN beside = DOMAIN updates
      BY <1>1, <2>1
    <3>1. Picks(base.beside, beside, at)
      <4> HIDE DEF gone, base, N
      <4>2. PICK S : S = Sample
        OBVIOUS
      <4>3. beside \in Seq(S)
        BY <1>1, <4>2
      <4>4. Picks(Without(beside, gone), beside, Kept(Numbers(Len(beside)), DOMAIN beside \ gone))
        BY <4>3, WithoutPicks
      <4> QED
        BY <1>3, <3>0, <4>4
    <3> HIDE DEF at, gone, base
    <3>2. Len(base.beside) = Len(base.rows) /\ \A i \in DOMAIN at : base.beside[i] = beside[at[i]]
      BY <1>5, <3>1 DEF Picks
    <3> QED
      BY <2>1, <3>2
  <2>2. CASE ~Double
    <3> HIDE DEF at, gone, base
    <3>1. Len(beside) = 0
      BY <1>1, <2>2
    <3>2. PICK S : S = Sample
      OBVIOUS
    <3>3. beside \in Seq(S)
      BY <1>1, <3>2
    <3>4. PICK none : none = Kept(Numbers(Len(beside)), DOMAIN beside \ gone)
      OBVIOUS
    <3>5. Picks(Without(beside, gone), beside, none)
      BY <3>3, <3>4, WithoutPicks
    <3>6. Left(none, 0, DOMAIN beside \ gone)
      BY <3>1, <3>4, NumbersLeft
    <3>7. Len(none) = 0
      <4>1. none \in Seq({})
        BY <3>6 DEF Left
      <4> QED
        BY <4>1
    <3> QED
      BY <1>3, <2>2, <3>5, <3>7 DEF Picks
  <2> QED
    BY <2>1, <2>2
<1> HIDE DEF at, gone, base
<1>8. /\ at \in Seq(DOMAIN updates) /\ Len(at) \in Nat /\ DOMAIN at = 1 .. Len(at)
      /\ Len(base.rows) = Len(at) /\ DOMAIN base.rows = DOMAIN at
      /\ \A i \in DOMAIN at : at[i] \in DOMAIN updates /\ base.rows[i] = updates[at[i]]
  <2>1. at \in Seq(1 .. N)
    BY <1>4 DEF Left
  <2>2. Len(base.rows) = Len(at) /\ \A i \in DOMAIN at : base.rows[i] = updates[at[i]]
    BY <1>5 DEF Picks
  <2> HIDE DEF N
  <2> QED
    BY <1>1, <1>6, <2>1, <2>2
<1>9. Stayed(at, report, base)
  <2>1. \A i \in DOMAIN at : at[i] \in DOMAIN updates \ gone
    BY <1>4 DEF Left
  <2>2. \A i, j \in DOMAIN at : i < j => at[i] < at[j]
    BY <1>4 DEF Left
  <2>3. ASSUME NEW k \in DOMAIN updates, Has(report, updates[k].key)
        PROVE  \E i \in DOMAIN at : at[i] = k
    <3>1. k \in (DOMAIN updates \ gone) \cap (1 .. N)
      BY <1>1, <1>2, <2>3
    <3> QED
      BY <1>4, <3>1 DEF Left
  <2> QED
    BY <1>2, <1>7, <1>8, <2>1, <2>2, <2>3 DEF Stayed
<1>a. Whole(base)
  <2>1. base \in Lists
    BY <1>1, <1>3, <1>6 DEF Lists
  <2>2. Unique(base.rows)
    <3> SUFFICES ASSUME NEW i \in DOMAIN at, NEW j \in DOMAIN at, base.rows[i].key = base.rows[j].key
                 PROVE  i = j
      BY <1>8 DEF Unique
    <3>1. at[i] = at[j]
      BY <1>8 DEF Whole, Unique, Now
    <3>2. i \in Nat /\ j \in Nat /\ ~(at[i] < at[j]) /\ ~(at[j] < at[i])
      <4>1. at[i] \in 1 .. N
        BY <1>1, <1>8
      <4> QED
        BY <1>1, <1>8, <3>1, <4>1
    <3>3. ~(i < j) /\ ~(j < i)
      BY <1>4, <3>2 DEF Left
    <3> QED
      BY <3>2, <3>3
  <2>3. Fitting(base.rows, base.width)
    BY <1>3, <1>8 DEF Whole, Fitting, Now
  <2>4. base.width.size >= HeaderWidth
    BY <1>3 DEF Whole, Now
  <2> QED
    BY <1>7, <2>1, <2>2, <2>3, <2>4 DEF Whole
<1> QED
  BY <1>9, <1>a DEF base

-------------------------------------------------------------------------------
(* The latest item of a key.                                                 *)

(* A reported key has a last item in the report.                             *)
LEMMA Latest ==
    ASSUME NEW report \in Seq(Row), NEW key, Has(report, key)
    PROVE  LET m == Max({n \in DOMAIN report : report[n].key = key})
           IN  /\ m \in 1 .. Len(report)
               /\ report[m].key = key
               /\ \A k \in m + 1 .. Len(report) : report[k].key # key
<1> DEFINE N == Len(report)
           Of(n) == {k \in 1 .. n : report[k].key = key}
           T == {n \in 0 .. N : Of(n) # {} => \E m \in Of(n) : \A k \in Of(n) : m >= k}
<1>1. N \in Nat /\ DOMAIN report = 1 .. N
  OBVIOUS
<1>2. 0 \in T
  BY <1>1
<1>3. ASSUME NEW n \in 1 .. N, n - 1 \in T PROVE n \in T
  <2>1. n \in 0 .. N /\ n \in Nat /\ n \in 1 .. n /\ \A k \in 1 .. n : k <= n /\ (k = n \/ k \in 1 .. n - 1)
    BY <1>1
  <2>2. CASE report[n].key = key
    <3>1. n \in Of(n) /\ \A k \in Of(n) : n >= k
      BY <2>1, <2>2
    <3> QED
      BY <2>1, <3>1
  <2>3. CASE report[n].key # key
    <3>1. Of(n) = Of(n - 1)
      BY <2>1, <2>3
    <3> HIDE DEF Of
    <3> QED
      BY <1>3, <2>1, <3>1
  <2> QED
    BY <2>2, <2>3
<1>4. N \in T
  <2>1. N \in 0 .. N
    BY <1>1
  <2> HIDE DEF T
  <2>2. \A n \in 0 .. N : n \in T
    BY <1>1, <1>2, <1>3, InductionUpTo
  <2> QED
    BY <2>1, <2>2, Zenon
<1> DEFINE S == {n \in DOMAIN report : report[n].key = key}
           m == Max(S)
<1>5. S = Of(N) /\ S # {}
  BY <1>1 DEF Has
<1>6. \E x \in S : \A k \in S : x >= k
  BY <1>4, <1>5
<1>7. m \in S /\ \A k \in S : m >= k
  <2> HIDE DEF S
  <2> QED
    BY <1>6 DEF Max
<1> HIDE DEF m
<1>8. \A k \in m + 1 .. N : k \in DOMAIN report /\ ~(m >= k)
  BY <1>1, <1>7
<1>9. /\ m \in 1 .. N /\ report[m].key = key
      /\ \A k \in m + 1 .. N : report[k].key # key
  BY <1>1, <1>7, <1>8
<1> QED
  BY <1>9 DEF m

-------------------------------------------------------------------------------
(* The invariant.                                                            *)

SameKeys(rows, report) == ToSet(KeysOf(rows)) = ToSet(KeysOf(report))

Typed ==
    /\ list \in List
    /\ reported \in Reports[list] \cup {<<>>}
    /\ before \in Reports[list] \cup {<<>>}
    /\ list = "updates" => /\ updates \in Seq(Row)
                           /\ beside = <<>>
                           /\ min_width \in Column
                           /\ min_width.size >= HeaderWidth
    /\ list # "updates" => Whole(Now)

Inv ==
    /\ Typed
    /\ Keyed => SameKeys(updates, reported)
    /\ RowsCurrent

(* Equal sets of keys, read item by item.                                    *)
LEMMA SameKeysHas ==
    ASSUME NEW rows, NEW report
    PROVE  /\ SameKeys(rows, report) =>
                  /\ \A i \in DOMAIN rows : Has(report, rows[i].key)
                  /\ \A i \in DOMAIN report : Has(rows, report[i].key)
           /\ (/\ \A i \in DOMAIN rows : Has(report, rows[i].key)
               /\ \A i \in DOMAIN report : Has(rows, report[i].key)) => SameKeys(rows, report)
<1>1. ToSet(KeysOf(rows)) = {rows[i].key : i \in DOMAIN rows}
  BY DEF ToSet, KeysOf
<1>2. ToSet(KeysOf(report)) = {report[i].key : i \in DOMAIN report}
  BY DEF ToSet, KeysOf
<1>3. ASSUME SameKeys(rows, report), NEW i \in DOMAIN rows PROVE Has(report, rows[i].key)
  <2>1. rows[i].key \in {report[k].key : k \in DOMAIN report}
    BY <1>1, <1>2, <1>3 DEF SameKeys
  <2> QED
    BY <2>1 DEF Has
<1>4. ASSUME SameKeys(rows, report), NEW i \in DOMAIN report PROVE Has(rows, report[i].key)
  <2>1. report[i].key \in {rows[k].key : k \in DOMAIN rows}
    BY <1>1, <1>2, <1>4 DEF SameKeys
  <2> QED
    BY <2>1 DEF Has
<1>5. ASSUME \A i \in DOMAIN rows : Has(report, rows[i].key),
             \A i \in DOMAIN report : Has(rows, report[i].key)
      PROVE  SameKeys(rows, report)
  <2>1. {rows[i].key : i \in DOMAIN rows} = {report[i].key : i \in DOMAIN report}
    BY <1>5 DEF Has
  <2> QED
    BY <1>1, <1>2, <2>1 DEF SameKeys
<1> QED
  BY <1>3, <1>4, <1>5

(* The empty lists satisfy the invariant.                                    *)
LEMMA InitInv == Init => Inv
<1> SUFFICES ASSUME Init PROVE Inv
  OBVIOUS
<1>1. /\ list \in List /\ updates = <<>> /\ beside = <<>> /\ reported = <<>> /\ before = <<>>
      /\ min_width = [size |-> HeaderWidth, index |-> 0] /\ HeaderWidth \in Nat
  BY ListAssumption DEF Init
<1>2. min_width \in Column /\ min_width.size >= HeaderWidth
  BY <1>1 DEF Column
<1>3. updates \in Seq(Row) /\ beside \in Seq(Sample) /\ DOMAIN updates = {} /\ Len(updates) = 0
      /\ Len(beside) = 0
  BY <1>1
<1>4. Now.rows = updates /\ Now.beside = beside /\ Now.width = min_width
  BY DEF Now
<1>5. Now \in Lists
  BY <1>2, <1>3 DEF Lists, Now
<1>6. Whole(Now)
  BY <1>2, <1>3, <1>4, <1>5 DEF Whole, Unique, Fitting
<1>7. SameKeys(updates, reported)
  BY <1>1 DEF SameKeys
<1>8. RowsCurrent
  BY <1>3 DEF RowsCurrent
<1> QED
  BY <1>1, <1>2, <1>3, <1>6, <1>7, <1>8 DEF Inv, Typed

(* What the report of a step is made of.                                     *)
LEMMA ReportedTyped ==
    ASSUME list \in List, NEW report \in Reports[list] \cup {<<>>}
    PROVE  report \in Seq(Row) /\ \A n \in DOMAIN report : Reportable(report[n])
<1>1. CASE report = <<>>
  BY <1>1
<1>2. CASE report \in Reports[list]
  <2>1. /\ report \in Seq(Row)
        /\ list = "drives" => \A n \in DOMAIN report : report[n].live \in Seq(Row)
        /\ list = "services" => \A n \in DOMAIN report : Width(report[n].live) \in Nat
    BY <1>2, ReportsTyped
  <2> QED
    BY <2>1 DEF Reportable
<1> QED
  BY <1>1, <1>2

(* What the lists became, put back into the variables.                       *)
LEMMA AppliedWhole ==
    ASSUME NEW lists, Whole(lists), Apply(lists), UNCHANGED list
    PROVE  Whole(Now)'
<1>1. lists = [rows |-> lists.rows, beside |-> lists.beside, width |-> lists.width]
  BY DEF Whole, Lists
<1>2. Now' = lists
  BY <1>1 DEF Now, Apply
<1> QED
  BY <1>2 DEF Whole, Lists, Sample, Double, Fitting

-------------------------------------------------------------------------------
(* The report of a keyed list.                                               *)

(* The same keys as the report, each once, and each row with its latest.     *)
LEMMA KeyedKeys ==
    ASSUME Inv, NEW report \in Reports[list], handle_keyed(report)
    PROVE  /\ Whole(Now)'
           /\ SameKeys(updates', report)
           /\ Unique(updates')
<1>1. Whole(Now) /\ list \in List \ {"updates"} /\ list \in List /\ UNCHANGED list /\ reported' = report
  BY DEF Inv, Typed, handle_keyed, Keyed, Record, List
<1>2. report \in Seq(Row) /\ \A n \in DOMAIN report : Reportable(report[n])
  BY <1>1, ReportedTyped
<1>3. PICK at : Whole(Base(report)) /\ Stayed(at, report, Base(report))
  BY <1>1, BaseStays
<1>4. PICK base : base = Base(report)
  OBVIOUS
<1>5. PICK after : after = Merged(base, report)
  OBVIOUS
<1>6. Apply(after)
  BY <1>4, <1>5 DEF handle_keyed, Base
<1>7. Whole(after) /\ Follows(base, report, Len(report), after)
  BY <1>1, <1>2, <1>3, <1>4, <1>5, MergedReport
<1>8. updates' = after.rows
  BY <1>6 DEF Apply
<1>9. /\ DOMAIN report = 1 .. Len(report) /\ Len(report) \in Nat
      /\ DOMAIN base.rows = 1 .. Len(base.rows)
  BY <1>2, <1>3, <1>4 DEF Whole, Lists
<1>a. ASSUME NEW i \in DOMAIN after.rows PROVE Has(report, after.rows[i].key)
  <2>1. CASE i \in DOMAIN base.rows
    <3>1. after.rows[i].key = base.rows[i].key
      BY <1>7, <2>1 DEF Follows
    <3>2. i \in DOMAIN at
      BY <1>3, <1>4, <1>9, <2>1 DEF Stayed
    <3>3. base.rows[i] = updates[at[i]] /\ Has(report, updates[at[i]].key)
      BY <1>3, <1>4, <3>2 DEF Stayed
    <3> QED
      BY <3>1, <3>3
  <2>2. CASE Listed(report, Len(report), after.rows[i].key)
    BY <1>9, <2>2 DEF Listed, Has
  <2> QED
    BY <1>7, <2>1, <2>2 DEF Follows
<1>b. ASSUME NEW n \in DOMAIN report PROVE Has(after.rows, report[n].key)
  BY <1>7, <1>9 DEF Follows
<1>c. SameKeys(after.rows, report)
  BY <1>a, <1>b, SameKeysHas
<1> QED
  BY <1>1, <1>6, <1>7, <1>8, <1>c, AppliedWhole DEF Whole

(* A handler that looks rows up by key never swaps two rows that stay.       *)
LEMMA KeyedOrder ==
    ASSUME Inv, NEW report \in Reports[list], handle_keyed(report)
    PROVE  OrderKept(updates, updates')
<1>1. Whole(Now) /\ list \in List \ {"updates"} /\ list \in List
  BY DEF Inv, Typed, handle_keyed, Keyed, List
<1>2. report \in Seq(Row) /\ \A n \in DOMAIN report : Reportable(report[n])
  BY <1>1, ReportedTyped
<1>3. PICK at : Whole(Base(report)) /\ Stayed(at, report, Base(report))
  BY <1>1, BaseStays
<1>4. PICK base : base = Base(report)
  OBVIOUS
<1>5. PICK new : new = updates'
  OBVIOUS
<1>6. Follows(base, report, Len(report), Merged(base, report))
  BY <1>1, <1>2, <1>3, <1>4, MergedReport
<1>7. new = Merged(base, report).rows
  BY <1>4, <1>5 DEF handle_keyed, Apply, Base
<1>8. SameKeys(new, report) /\ Unique(new) /\ Whole(Merged(base, report))
  BY <1>1, <1>2, <1>3, <1>4, <1>5, KeyedKeys, MergedReport
<1>9. /\ DOMAIN base.rows = 1 .. Len(base.rows) /\ DOMAIN new = 1 .. Len(new)
      /\ Len(base.rows) \in Nat /\ Len(new) \in Nat
  BY <1>3, <1>4, <1>7, <1>8 DEF Whole, Lists
<1>a. /\ Len(new) >= Len(base.rows) /\ DOMAIN base.rows \subseteq DOMAIN new
      /\ \A i \in DOMAIN base.rows : new[i].key = base.rows[i].key
  BY <1>6, <1>7, <1>9 DEF Follows
<1>b. /\ DOMAIN at = DOMAIN base.rows
      /\ \A i \in DOMAIN at : base.rows[i] = updates[at[i]] /\ at[i] \in DOMAIN updates
      /\ \A i, j \in DOMAIN at : i < j => at[i] < at[j]
      /\ \A k \in DOMAIN updates : Has(report, updates[k].key) => \E i \in DOMAIN at : at[i] = k
  BY <1>3, <1>4, <1>9 DEF Stayed
<1>c. ASSUME NEW k \in DOMAIN updates, Has(new, updates[k].key)
      PROVE  Position(new, updates[k].key) \in DOMAIN at /\ at[Position(new, updates[k].key)] = k
  <2>1. Has(report, updates[k].key)
    <3>1. PICK i \in DOMAIN new : new[i].key = updates[k].key
      BY <1>c DEF Has
    <3> QED
      BY <1>8, <3>1, SameKeysHas
  <2>2. PICK i \in DOMAIN at : at[i] = k
    BY <1>b, <2>1
  <2>3. i \in DOMAIN new /\ new[i].key = updates[k].key
    BY <1>a, <1>b, <2>2
  <2>4. Position(new, updates[k].key) \in DOMAIN new
        /\ new[Position(new, updates[k].key)].key = updates[k].key
    BY <2>3 DEF Position
  <2>5. Position(new, updates[k].key) = i
    BY <1>8, <2>3, <2>4 DEF Unique
  <2> QED
    BY <2>2, <2>5
<1>d. updates \in Seq(Row)
  BY <1>1 DEF Whole, Lists, Now
<1>e. ASSUME NEW i \in DOMAIN updates, NEW j \in DOMAIN updates, i < j,
             Has(new, updates[i].key), Has(new, updates[j].key)
      PROVE  Position(new, updates[i].key) < Position(new, updates[j].key)
  <2>1. PICK p : p = Position(new, updates[i].key)
    OBVIOUS
  <2>2. PICK q : q = Position(new, updates[j].key)
    OBVIOUS
  <2>3. p \in DOMAIN at /\ at[p] = i /\ q \in DOMAIN at /\ at[q] = j
    BY <1>c, <1>e, <2>1, <2>2
  <2>4. p \in Nat /\ q \in Nat /\ i \in Nat /\ j \in Nat
    BY <1>9, <1>b, <1>d, <2>3
  <2>5. ~(q < p) /\ p # q
    BY <1>b, <1>e, <2>3, <2>4
  <2> QED
    BY <2>1, <2>2, <2>4, <2>5
<1>f. OrderKept(updates, new)
  BY <1>e DEF OrderKept
<1> QED
  BY <1>5, <1>f

(* After it the list shows the report.                                       *)
LEMMA KeyedCurrent ==
    ASSUME Inv, NEW report \in Reports[list], handle_keyed(report)
    PROVE  RowsCurrent'
<1>1. Whole(Now) /\ list \in List \ {"updates"} /\ list \in List
      /\ list' = list /\ reported' = report /\ Keyed
  BY DEF Inv, Typed, handle_keyed, Keyed, Record, List
<1>2. report \in Seq(Row) /\ \A n \in DOMAIN report : Reportable(report[n])
  BY <1>1, ReportedTyped
<1>3. Whole(Base(report))
  BY <1>1, BaseStays
<1>4. PICK after : after = Merged(Base(report), report)
  OBVIOUS
<1>5. updates' = after.rows /\ beside' = after.beside
  BY <1>4 DEF handle_keyed, Apply, Base
<1>6. IsCurrent(report, Len(report), after)
  BY <1>1, <1>2, <1>3, <1>4, MergedReport
<1>7. SameKeys(after.rows, report)
  BY <1>5, KeyedKeys
<1> SUFFICES ASSUME NEW i \in DOMAIN after.rows
             PROVE  CASE list \in {"adapters", "services"} ->
                           after.rows[i].live = Item(after.rows[i].key)'.live
                      [] list = "drives" ->
                           LET parts == Item(after.rows[i].key)'.live
                           IN  /\ KeysOf(after.beside[i]) = KeysOf(parts)
                               /\ \A p \in DOMAIN parts : after.beside[i][p].live = parts[p].live
                      [] list = "updates" -> /\ after.rows[i].key = report[i].key
                                             /\ after.rows[i].live = report[i].live
                      [] OTHER -> TRUE
  BY <1>1, <1>5 DEF RowsCurrent
<1>8. PICK item : item = report[Max({n \in DOMAIN report : report[n].key = after.rows[i].key})]
  OBVIOUS
<1>9. Item(after.rows[i].key)' = item
  BY <1>1, <1>8 DEF Item
<1>a. Shows(after, i, item)
  <2>1. Has(report, after.rows[i].key)
    BY <1>7, SameKeysHas
  <2>2. PICK key : key = after.rows[i].key
    OBVIOUS
  <2>3. PICK m : m = Max({n \in DOMAIN report : report[n].key = key})
    OBVIOUS
  <2>4. /\ m \in 1 .. Len(report) /\ report[m].key = key
        /\ \A k \in m + 1 .. Len(report) : report[k].key # key
    BY <1>2, <2>1, <2>2, <2>3, Latest
  <2>5. Shows(after, i, report[m])
    BY <1>6, <2>2, <2>4 DEF IsCurrent
  <2> QED
    BY <1>8, <2>2, <2>3, <2>5
<1>b. CASE list \in {"adapters", "services"}
  <2>1. after.rows[i].live = item.live
    BY <1>a, <1>b DEF Shows
  <2> QED
    BY <1>9, <1>b, <2>1
<1>c. CASE list = "drives"
  <2>1. /\ DOMAIN after.beside[i] = DOMAIN item.live
        /\ \A p \in DOMAIN item.live : /\ after.beside[i][p].key = item.live[p].key
                                       /\ after.beside[i][p].live = item.live[p].live
    BY <1>a, <1>c DEF Shows
  <2>2. KeysOf(after.beside[i]) = KeysOf(item.live)
    BY <2>1 DEF KeysOf
  <2> QED
    BY <1>9, <1>c, <2>1, <2>2
<1> QED
  BY <1>1, <1>b, <1>c DEF Keyed

(* An adapter that is reported once in each report is seen beside its sample *)
(* of the report before.                                                     *)
LEMMA KeyedPaired ==
    ASSUME Inv, NEW report \in Reports[list], handle_keyed(report),
           list = "adapters", Unique(report), Unique(reported)
    PROVE  SamplesPaired'
<1>1. Whole(Now) /\ list \in List \ {"updates"} /\ list \in List /\ list' = list
      /\ reported' = report /\ before' = reported /\ Keyed
      /\ SameKeys(updates, reported) /\ RowsCurrent
  BY DEF Inv, Typed, handle_keyed, Keyed, Record, List
<1>2. /\ report \in Seq(Row) /\ \A n \in DOMAIN report : Reportable(report[n])
      /\ reported \in Seq(Row)
  BY <1>1, ReportedTyped DEF Inv, Typed
<1>3. PICK at : Whole(Base(report)) /\ Stayed(at, report, Base(report))
  BY <1>1, BaseStays
<1>4. PICK base : base = Base(report)
  OBVIOUS
<1>5. PICK after : after = Merged(base, report)
  OBVIOUS
<1>6. updates' = after.rows /\ beside' = after.beside
  BY <1>4, <1>5 DEF handle_keyed, Apply, Base
<1>7. Follows(base, report, Len(report), after) /\ IsPaired(base, report, Len(report), after)
  BY <1>1, <1>2, <1>3, <1>4, <1>5, MergedReport
<1>8. SameKeys(after.rows, report) /\ Unique(after.rows)
  BY <1>6, KeyedKeys
<1>9. /\ DOMAIN report = 1 .. Len(report)
      /\ DOMAIN base.rows = 1 .. Len(base.rows) /\ Len(base.rows) \in Nat
      /\ DOMAIN after.rows = 1 .. Len(after.rows) /\ Len(after.rows) \in Nat
  <2>1. Whole(after)
    BY <1>1, <1>2, <1>3, <1>4, <1>5, MergedReport
  <2> QED
    BY <1>2, <1>3, <1>4, <2>1 DEF Whole, Lists
<1>a. /\ DOMAIN base.rows \subseteq DOMAIN after.rows
      /\ \A i \in DOMAIN base.rows : after.rows[i].key = base.rows[i].key
  BY <1>7, <1>9 DEF Follows
<1>b. /\ DOMAIN at = DOMAIN base.rows
      /\ \A i \in DOMAIN at : base.rows[i] = updates[at[i]] /\ at[i] \in DOMAIN updates
      /\ \A k \in DOMAIN updates : Has(report, updates[k].key) => \E i \in DOMAIN at : at[i] = k
  BY <1>3, <1>4, <1>9 DEF Stayed
<1> SUFFICES ASSUME NEW i \in DOMAIN after.rows
             PROVE  after.beside[i] = IF Has(reported, after.rows[i].key)
                                      THEN reported[Position(reported, after.rows[i].key)].live
                                      ELSE after.rows[i].live
  BY <1>1, <1>6 DEF SamplesPaired
<1>c. PICK key : key = after.rows[i].key
  OBVIOUS
<1>d. Has(report, key)
  BY <1>8, <1>c, SameKeysHas
<1>e. Listed(report, Len(report), key)
  BY <1>9, <1>d DEF Has, Listed
<1>f. after.beside[i] = IF i \in DOMAIN base.rows THEN base.rows[i].live ELSE after.rows[i].live
  BY <1>7, <1>c, <1>e DEF IsPaired
<1>g. CASE i \in DOMAIN base.rows
  <2>1. PICK k \in DOMAIN updates : base.rows[i] = updates[k]
    BY <1>b, <1>g
  <2>2. updates[k].key = key
    BY <1>a, <1>c, <1>g, <2>1
  <2>3. Has(reported, key)
    BY <1>1, <2>2, SameKeysHas
  <2>4. PICK m : m = Max({n \in DOMAIN reported : reported[n].key = key})
    OBVIOUS
  <2>5. m \in DOMAIN reported /\ reported[m].key = key
    <3>1. m \in 1 .. Len(reported) /\ reported[m].key = key
      BY <1>2, <2>3, <2>4, Latest
    <3> QED
      BY <1>2, <3>1
  <2>6. updates[k].live = reported[m].live
    <3>1. updates[k].live = Item(updates[k].key).live
      BY <1>1 DEF RowsCurrent
    <3> QED
      BY <2>2, <2>4, <3>1 DEF Item
  <2>7. Position(reported, key) = m
    BY <2>5 DEF Position, Unique
  <2> QED
    BY <1>c, <1>f, <1>g, <2>1, <2>3, <2>6, <2>7
<1>h. CASE i \notin DOMAIN base.rows
  <2>1. ASSUME Has(reported, key) PROVE FALSE
    <3>1. PICK n \in DOMAIN reported : reported[n].key = key
      BY <2>1 DEF Has
    <3>2. Has(updates, reported[n].key)
      BY <1>1, SameKeysHas
    <3>3. PICK k \in DOMAIN updates : updates[k].key = key
      BY <3>1, <3>2 DEF Has
    <3>4. PICK j \in DOMAIN at : at[j] = k
      BY <1>b, <1>d, <3>3
    <3>5. j \in DOMAIN after.rows /\ after.rows[j].key = key
      BY <1>a, <1>b, <3>3, <3>4
    <3>6. j = i
      BY <1>8, <1>c, <3>5 DEF Unique
    <3> QED
      BY <1>b, <1>h, <3>6
  <2> QED
    BY <1>c, <1>f, <1>h, <2>1
<1> QED
  BY <1>g, <1>h

-------------------------------------------------------------------------------
(* The other handlers, and every step.                                       *)

(* The reports remembered are reports of the list.                           *)
LEMMA HistoryTyped ==
    ASSUME Typed, NEW report \in Reports[list], Record(report)
    PROVE  /\ list' \in List
           /\ reported' \in Reports[list'] \cup {<<>>}
           /\ before' \in Reports[list'] \cup {<<>>}
<1>1. list' = list /\ reported' = report /\ before' \in {reported, <<>>}
  BY DEF Record
<1> QED
  BY <1>1 DEF Typed

(* A handler that looks rows up by key preserves the invariant.              *)
LEMMA KeyedStep ==
    ASSUME Inv, NEW report \in Reports[list], handle_keyed(report)
    PROVE  Inv'
<1>1. list' = list /\ reported' = report /\ Record(report) /\ Keyed
  BY DEF handle_keyed, Record
<1>2. list # "updates"
  BY <1>1 DEF Keyed
<1>3. Typed'
  BY <1>1, <1>2, KeyedKeys, HistoryTyped DEF Inv, Typed
<1>4. SameKeys(updates, reported)'
  <2>1. SameKeys(updates', report)
    BY KeyedKeys
  <2> QED
    BY <1>1, <2>1 DEF SameKeys
<1> QED
  BY <1>3, <1>4, KeyedCurrent DEF Inv

(* The handler of the service types preserves the invariant.                 *)
LEMMA TypesStep ==
    ASSUME Inv, NEW report \in Reports[list], handle_service(report)
    PROVE  Inv'
<1>1. /\ list = "types" /\ list' = list /\ list \in List \ {"updates"} /\ list \in List
      /\ Whole(Now) /\ Record(report) /\ UNCHANGED list
  BY DEF handle_service, Record, List, Inv, Typed
<1>2. report \in Seq(Row) /\ \A n \in DOMAIN report : Reportable(report[n])
  BY <1>1, ReportedTyped
<1>3. PICK after : after = Merged(Now, report)
  OBVIOUS
<1>4. Whole(after)
  BY <1>1, <1>2, <1>3, MergedReport
<1>5. Apply(after)
  BY <1>3 DEF handle_service, Now
<1>6. Whole(Now)'
  BY <1>1, <1>4, <1>5, AppliedWhole
<1>7. Typed'
  BY <1>1, <1>6, HistoryTyped DEF Inv, Typed
<1>8. ~Keyed'
  BY <1>1 DEF Keyed
<1>9. RowsCurrent'
  BY <1>1 DEF RowsCurrent
<1> QED
  BY <1>7, <1>8, <1>9 DEF Inv

(* The handler of the updates, which reuses rows by position, preserves it.  *)
LEMMA UpdatesStep ==
    ASSUME Inv, NEW report \in Reports[list], handle_updates(report)
    PROVE  Inv'
<1>1. /\ list = "updates" /\ list' = list /\ list \in List /\ Record(report) /\ reported' = report
      /\ updates' = Positional(updates, report) /\ beside' = beside /\ min_width' = min_width
  BY DEF handle_updates, Record, List
<1>2. report \in Seq(Row) /\ updates \in Seq(Row)
  BY <1>1, ReportedTyped DEF Inv, Typed
<1>3. /\ Positional(updates, report) \in Seq(Row)
      /\ DOMAIN Positional(updates, report) = DOMAIN report
      /\ \A i \in DOMAIN report : /\ Positional(updates, report)[i].key = report[i].key
                                  /\ Positional(updates, report)[i].live = report[i].live
  BY <1>2, PositionalShows
<1>4. Typed'
  BY <1>1, <1>3, HistoryTyped DEF Inv, Typed
<1>5. ~Keyed'
  BY <1>1 DEF Keyed
<1>6. RowsCurrent'
  BY <1>1, <1>3 DEF RowsCurrent
<1> QED
  BY <1>4, <1>5, <1>6 DEF Inv

(* So does every step.                                                       *)
LEMMA NextInv == Inv /\ [Next]_vars => Inv'
<1> SUFFICES ASSUME Inv, [Next]_vars PROVE Inv'
  OBVIOUS
<1>1. CASE Next
  <2>1. PICK report \in Reports[list] :
           handle_keyed(report) \/ handle_updates(report) \/ handle_service(report)
    BY <1>1 DEF Next
  <2> QED
    BY <2>1, KeyedStep, UpdatesStep, TypesStep
<1>2. CASE UNCHANGED vars
  <2>1. /\ list' = list /\ updates' = updates /\ beside' = beside /\ min_width' = min_width
        /\ reported' = reported /\ before' = before
    BY <1>2 DEF vars
  <2>2. Now' = Now
    BY <2>1 DEF Now
  <2>3. Whole(Now) => Whole(Now)'
    BY <2>1, <2>2 DEF Whole, Lists, Sample, Double, Fitting
  <2>4. Typed'
    BY <2>1, <2>3 DEF Inv, Typed
  <2>5. Keyed' = Keyed
    BY <2>1 DEF Keyed
  <2>6. RowsCurrent'
    BY <2>1 DEF Inv, RowsCurrent, Item
  <2> QED
    BY <2>1, <2>4, <2>5, <2>6 DEF Inv, SameKeys
<1> QED
  BY <1>1, <1>2

-------------------------------------------------------------------------------
(* The lists keep their shape: a second vector as long as the rows where     *)
(* there is one, and a column at least as wide as its header.                *)
THEOREM TypesHold == Spec => []TypeOK
<1>1. Inv => TypeOK
  <2> SUFFICES ASSUME Inv PROVE TypeOK
    OBVIOUS
  <2>1. Typed
    BY DEF Inv
  <2>2. CASE list = "updates"
    <3>1. updates \in Seq(Row) /\ beside = <<>> /\ min_width \in Column
          /\ min_width.size >= HeaderWidth
      BY <2>1, <2>2 DEF Typed
    <3>2. \A i \in DOMAIN updates : updates[i] \in Row
      BY <3>1
    <3>3. \A i \in DOMAIN updates : {"key", "live", "fixed"} = DOMAIN updates[i]
      BY <3>2 DEF Row
    <3>4. min_width.index \in Nat
      BY <3>1 DEF Column
    <3> QED
      BY <2>1, <2>2, <3>1, <3>3, <3>4 DEF Typed, TypeOK
  <2>3. CASE list # "updates"
    <3>1. Whole(Now)
      BY <2>1, <2>3 DEF Typed
    <3>2. /\ updates \in Seq(Row) /\ min_width \in Column /\ min_width.size >= HeaderWidth
          /\ Len(beside) = IF Double THEN Len(updates) ELSE 0
      BY <3>1 DEF Whole, Lists, Now
    <3>3. \A i \in DOMAIN updates : updates[i] \in Row
      BY <3>2
    <3>4. \A i \in DOMAIN updates : {"key", "live", "fixed"} = DOMAIN updates[i]
      BY <3>3 DEF Row
    <3>5. min_width.index \in Nat
      BY <3>2 DEF Column
    <3> QED
      BY <2>1, <3>2, <3>4, <3>5 DEF Typed, TypeOK, Double
  <2> QED
    BY <2>2, <2>3
<1> QED
  BY <1>1, InitInv, NextInv, PTL DEF Spec

(* What a row shows is what the last report says of its key, whatever was    *)
(* removed and inserted before it, for every list and every report.          *)
THEOREM AlwaysCurrent == Spec => []RowsCurrent
<1>1. Inv => RowsCurrent
  BY DEF Inv
<1> QED
  BY <1>1, InitInv, NextInv, PTL DEF Spec

(* The column of the services is never narrower than a cell in it.           *)
THEOREM CellsAlwaysFit == Spec => []CellsFit
<1>1. Inv => CellsFit
  BY DEF Inv, Typed, CellsFit, Whole, Fitting, Now
<1> QED
  BY <1>1, InitInv, NextInv, PTL DEF Spec

(* A report leaves one row for each of its keys and no other, and the rows   *)
(* that stay in their order.                                                 *)
THEOREM AlwaysFollow == Spec => RowsFollow
<1>1. ASSUME Inv, Next PROVE Keyed => OneRowPerKey(updates', reported') /\ OrderKept(updates, updates')
  <2> SUFFICES ASSUME Keyed
               PROVE  OneRowPerKey(updates', reported') /\ OrderKept(updates, updates')
    OBVIOUS
  <2>1. PICK report \in Reports[list] : handle_keyed(report)
    BY <1>1 DEF Next, handle_updates, handle_service, Keyed
  <2>2. SameKeys(updates', report) /\ Unique(updates') /\ OrderKept(updates, updates')
    BY <1>1, <2>1, KeyedKeys, KeyedOrder
  <2>3. reported' = report
    BY <2>1 DEF handle_keyed, Record
  <2>4. IsInjective(KeysOf(updates'))
    BY <2>2 DEF IsInjective, KeysOf, Unique
  <2> QED
    BY <2>2, <2>3, <2>4 DEF OneRowPerKey, SameKeys
<1>2. Inv /\ [Next]_vars =>
         [Keyed => OneRowPerKey(updates', reported') /\ OrderKept(updates, updates')]_vars
  BY <1>1
<1> QED
  BY <1>2, InitInv, NextInv, PTL DEF Spec, RowsFollow

(* A machine names each of its adapters once.                                *)
AdaptersDistinct == \A report \in Reports["adapters"] : IsInjective(KeysOf(report))

(* If it does, a transfer rate is taken between two samples of one adapter,  *)
(* the latest and the one of the report before.                              *)
THEOREM AlwaysPaired ==
    ASSUME AdaptersDistinct
    PROVE  Spec => []SamplesPaired
<1>1. ASSUME NEW report \in Reports["adapters"] \cup {<<>>} PROVE Unique(report)
  BY AdaptersDistinct DEF AdaptersDistinct, IsInjective, KeysOf, Unique
<1>2. Init => SamplesPaired
  BY DEF Init, SamplesPaired
<1>3. ASSUME Inv, SamplesPaired, [Next]_vars PROVE SamplesPaired'
  <2>1. CASE list # "adapters"
    <3>1. list' = list
      BY <1>3 DEF Next, handle_keyed, handle_updates, handle_service, Record, vars
    <3> QED
      BY <2>1, <3>1 DEF SamplesPaired
  <2>2. CASE UNCHANGED vars
    BY <1>3, <2>2 DEF vars, SamplesPaired
  <2>3. CASE list = "adapters" /\ Next
    <3>1. PICK report \in Reports[list] : handle_keyed(report)
      BY <2>3 DEF Next, handle_updates, handle_service
    <3>2. Unique(report) /\ Unique(reported)
      BY <1>1, <1>3, <2>3 DEF Inv, Typed
    <3> QED
      BY <1>3, <2>3, <3>1, <3>2, KeyedPaired
  <2> QED
    BY <1>3, <2>1, <2>2, <2>3
<1> QED
  BY <1>2, <1>3, InitInv, NextInv, PTL DEF Spec
===============================================================================
