---------------------------- MODULE MCAnnotations ----------------------------
EXTENDS Annotations, Sequences, SequencesExt

LoadOf(d) == [op |-> "load", dataset |-> d]
ListAll == [op |-> "list"]
GetOf(e) == [op |-> "get", eps |-> {e}]
PatchOf(e, g, tags) == [op |-> "patch", eps |-> {e}, grade |-> g, tags |-> tags]
BulkOf(es, g) == [op |-> "bulk", eps |-> es, grade |-> g]
Nothing == [op |-> "none"]

MCDatasets == {"d1", "d2"}
MCTags == {"t"}

(* d1 has two episodes in one table.  d2 has three in two tables, all with  *)
(* legacy annotations, the second of them without a grade.                  *)
MCFileOf == [d \in MCDatasets |->
    IF d = "d1" THEN [e \in {0, 1} |-> 0] ELSE [e \in {0, 1, 2} |-> IF e = 0 THEN 0 ELSE 1]]
MCSevere == [d \in MCDatasets |-> {1}]
OldRows == [e \in {0, 1, 2} |-> [grade |-> IF e = 1 THEN None ELSE "good", tags |-> {"t"}]]
MCSidecar == [d \in MCDatasets |-> IF d = "d2" THEN OldRows ELSE EmptyNotes]

(* The server has loaded a dataset that nobody has looked at before, or d1, *)
(* which has been listed.                                                   *)
Serving(d, requests) ==
    /\ loaded = d /\ map = d /\ gen = 0 /\ cache = None /\ chart = None
    /\ db = [reg |-> {}, stamp |-> {}, notes |-> [x \in Datasets |-> EmptyNotes],
             stats |-> [x \in Datasets |-> [g \in Grades |-> 0]]]
    /\ disk = db
    /\ file = [f \in AllFiles |-> Ungraded(f[1], f)]
    /\ locks = {}
    /\ pc = [r \in Reqs |-> "new"]
    /\ my = [r \in Reqs |-> Blank]
    /\ ask = [r \in Reqs |-> IF r \in DOMAIN requests THEN requests[r] ELSE Nothing]
    /\ aim = [r \in Reqs |-> None]
    /\ calm = TRUE /\ unread = {}

(* A list with its auto-grade pass, and the grades of two episodes of one   *)
(* table.                                                                   *)
GradeTwo == Serving("d1", << ListAll, PatchOf(0, "good", None), BulkOf({1}, "bad") >>)

(* Another dataset, or the same, is loaded at any moment of a PATCH, with   *)
(* or without tags, and of a list or a bulk grade.                          *)
Switch == Serving("d1", << LoadOf("d2"), PatchOf(1, "bad", {"t"}), ListAll >>)
Twice == Serving("d1", << LoadOf("d2"), PatchOf(1, "bad", None), BulkOf({0}, "good") >>)
Reload == Serving("d1", << LoadOf("d1"), PatchOf(1, "bad", {"t"}), BulkOf({0}, "good") >>)

(* Two requests migrate the legacy annotations.                             *)
Legacy == Serving("d2", << GetOf(1), PatchOf(0, "bad", None) >>)

MCSpec == (GradeTwo \/ Switch \/ Twice \/ Reload \/ Legacy) /\ [][Next]_vars
MCFairSpec == MCSpec /\ \A r \in Reqs : WF_vars(Handler(r))

(* For the runs that show one thing.                                        *)
ReloadSpec ==
    Serving("d1", << LoadOf("d1"), PatchOf(0, "good", {}), PatchOf(1, "bad", {"t"}) >>)
      /\ [][Next /\ ~Crash]_vars
SwitchSpec == Serving("d1", << LoadOf("d2"), ListAll >>) /\ [][Next /\ ~Crash]_vars
StaleSpec == Serving("d1", << ListAll, PatchOf(1, "good", {"t"}) >>) /\ [][Next /\ ~Crash]_vars
==============================================================================
