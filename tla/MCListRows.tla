----------------------------- MODULE MCListRows ------------------------------
(* Instances of ListRows for TLC. *)
EXTENDS ListRows, FiniteSets

Rows(keys, lives, fixed) == [key : keys, live : lives, fixed : fixed]

(* Reports in which every key occurs once.                                   *)
Distinct(rows, n) ==
    {report \in SeqOf(rows, n) : Cardinality(ToSet(KeysOf(report))) = Len(report)}

Partitions == Distinct(Rows({"sda1", "sda2"}, {1, 2}, {0}), 2)

(* Two drives, one of which may be replaced by another at the same node;     *)
(* three adapters; systemd may report a unit twice, as loaded and as a file. *)
MCReports ==
    [drives   |-> Distinct(Rows({"sda", "sdb"}, Partitions, {"old", "new"}), 1)
                    \cup Distinct(Rows({"sda", "sdb"}, Partitions, {"old"}), 2),
     updates  |-> Distinct(Rows({"gcc", "qt"}, {1, 2}, {0, 1}), 2),
     adapters |-> Distinct(Rows({"lo", "eth0", "wlan0"}, {1, 2}, {"mac"}), 3),
     services |-> SeqOf(Rows({"ssh", "dbus"}, {1, 2}, {"Service"}), 3),
     types    |-> SeqOf(Rows({"Service", "Timer"}, {0}, {0}), 3)]

(* State 1 is shown as a text as wide as the header, state 2 as a wider one. *)
MCWidth(live) == live + 2
===============================================================================
