----------------------------- MODULE MCLibrary -----------------------------
(* Two requests of Annotations and two visitors, in a server that serves    *)
(* d1 or d2, or that starts on a database of an earlier version.            *)
EXTENDS Library, SequencesExt

ListAll == [op |-> "list"]
LoadOf(d) == [op |-> "load", dataset |-> d]
PatchOf(e, g, tags) == [op |-> "patch", eps |-> {e}, grade |-> g, tags |-> tags]
BulkOf(es, g) == [op |-> "bulk", eps |-> es, grade |-> g]
Ask(op) == [op |-> op]
ChartOf(d) == [op |-> "chart", dataset |-> d]
ColumnOf(d) == [op |-> "column", dataset |-> d]
ExportBut(g) == [op |-> "export", exclude |-> {g}]

MCDatasets == {"d1", "d2"}
MCCell == <<"d1", "d2">>

(* d1 has two episodes in two tables, one of them severe; d2 has two in one *)
(* table, both with legacy annotations.                                     *)
MCFileOf == [d \in MCDatasets |-> [e \in {0, 1} |-> IF d = "d1" THEN e ELSE 0]]
MCSevere == [d \in MCDatasets |-> IF d = "d1" THEN {1} ELSE {}]
OldRows == [e \in {0, 1} |-> [grade |-> "good", tags |-> {}]]
MCSidecar == [d \in MCDatasets |-> IF d = "d2" THEN OldRows ELSE EmptyNotes]

Asked2(requests, visitors) ==
    /\ ask = [r \in Reqs |-> IF r \in DOMAIN requests THEN requests[r] ELSE Ask("none")]
    /\ want = [v \in Visitors |-> visitors[v]]

Empty == [reg |-> {}, stamp |-> {}, notes |-> [d \in MCDatasets |-> EmptyNotes],
          stats |-> [d \in MCDatasets |-> [g \in Grades |-> 0]]]

Serving(d, base) ==
    /\ loaded = d /\ map = d /\ db = base /\ Idle
    /\ version = 3 /\ has = {M!Adds[n] : n \in 1 .. 3} /\ boot = "up" /\ cut = {}

(* d1 was registered, and one of its episodes graded, before version 3.     *)
Starting ==
    /\ loaded = None /\ map = None /\ M!Init
    /\ db = IF version = 0 THEN Empty
            ELSE [Empty EXCEPT !.reg = {"d1"},
                    !.stamp = IF version = 3 THEN {"d1"} ELSE {},
                    !.notes["d1"] = [e \in {0} |-> [grade |-> "good", tags |-> {}, reason |-> None]],
                    !.stats["d1"].good = 1]
    /\ Idle

Scanning ==
    Serving("d1", Empty) /\ Asked2(<<ListAll, PatchOf(0, "bad", {})>>,
                            11 :> Ask("scan") @@ 12 :> ChartOf("d1"))
Editing ==
    /\ Serving("d1", Empty)
    /\ \E asked \in {<<BulkOf({0, 1}, "bad")>>, <<BulkOf({1}, "bad"), PatchOf(0, "normal", {})>>} :
         Asked2(asked, 11 :> ColumnOf("d1") @@ 12 :> ExportBut("bad"))
Texting ==
    Serving("d2", [Empty EXCEPT !.reg = {"d2"}, !.stamp = {"d2"}]) /\ Asked2(<<ListAll, LoadOf("d2")>>,
                            11 :> Ask("task") @@ 12 :> ChartOf("d2"))
Upgrading ==
    Starting /\ Asked2(<<LoadOf("d1"), ListAll>>,
                       11 :> Ask("scan") @@ 12 :> ExportBut("good"))
    /\ IF version < M!Latest THEN UpgradeInit ELSE TRUE

MCInit == (Scanning \/ Editing \/ Texting \/ Upgrading) /\ LibraryInit

MCSpec == MCInit /\ [][LibraryNext]_libraryVars
=============================================================================
