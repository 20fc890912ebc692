------------------------------ MODULE DatasetOps ------------------------------
(***************************************************************************)
(* Delete, split and merge jobs down to the files they read and write      *)
(* (backend/datasets/services/dataset_ops_service.py and                   *)
(* dataset_ops_engine.py).  An engine function reads the metadata of its   *)
(* sources, copies one data file per selected episode, and writes the      *)
(* metadata of its output last.  A data file that is not there when its    *)
(* turn comes is skipped without an error.  Jobs run in the thread pool,   *)
(* and nothing serialises jobs that share a source or an output.           *)
(*                                                                         *)
(* A dataset holds its k-th episode in its k-th data file, as every        *)
(* dataset these functions write does.  The removal of a backup and the    *)
(* restore of one are single steps here: InPlaceJobs has their parts.      *)
(***************************************************************************)
EXTENDS Naturals, Sequences, FiniteSets, SequencesExt, TLC

CONSTANTS
    Paths,      \* dataset paths
    Original,   \* Original[p]: the episodes there at first, NoMeta if no dataset
    Request,    \* Request[j]: what job j is asked, see Requests
    NoMeta      \* metadata that is not there

Jobs == DOMAIN Request
Episodes == UNION {Range(Original[p]) : p \in {q \in Paths : Original[q] # NoMeta}}

(* pick: the 0-based episode_ids of the request; output is the source when  *)
(* the request names no output_dir (inPlace).                               *)
Requests == [op : {"delete", "split", "merge"}, sources : Seq(Paths),
             output : Paths, inPlace : BOOLEAN, pick : SUBSET Nat]

ASSUME DatasetOpsAssumption ==
    /\ \A j \in Jobs :
         LET r == Request[j] IN
         /\ r \in Requests
         /\ r.sources # <<>>
         /\ r.inPlace => r.op = "delete" /\ r.sources = <<r.output>>
    /\ \A p \in Paths : Original[p] # NoMeta =>
         Original[p] \in Seq(Range(Original[p])) /\ IsInjective(Original[p])
    /\ NoMeta \notin Seq(Episodes)

VARIABLES
    fs,         \* fs[<<p, kind>>]: the directory at p or at p's ".bak" name
    status,     \* status[j]: the job's entry in _jobs
    pc,         \* pc[j]: where its worker is
    plan,       \* plan[j]: source_map, the file each new episode comes from
    copied,     \* copied[j]: new episodes copied so far
    disturbed   \* history: did another job write to a directory j was using?

vars == <<fs, status, pc, plan, copied, disturbed>>

Dirs == Paths \X {"own", "bak"}
Dataset(eps) == [there |-> TRUE, meta |-> eps, data |-> eps]
Absent == [there |-> FALSE, meta |-> NoMeta, data |-> <<>>]
Whole(dir) == dir.there /\ dir.meta # NoMeta /\ \A k \in DOMAIN dir.meta :
                 k \in DOMAIN dir.data /\ dir.data[k] = dir.meta[k]

Source(j, i) == <<Request[j].sources[i], IF Request[j].inPlace THEN "bak" ELSE "own">>
Output(j) == <<Request[j].output, "own">>
Uses(j) == {Source(j, i) : i \in DOMAIN Request[j].sources} \cup {Output(j)}
Working(j) == pc[j] \in {"read", "copy", "discard", "undo", "ok"}

TypeOK ==
    /\ \A d \in Dirs : fs[d].there =>
         /\ fs[d].meta # NoMeta => Range(fs[d].meta) \subseteq Episodes
         /\ Range(fs[d].data) \subseteq Episodes
    /\ status \in [Jobs -> {"none", "queued", "running", "complete", "failed", "lost"}]
    /\ pc \in [Jobs -> {"idle", "start", "rename", "read", "copy",
                        "discard", "undo", "ok", "error"}]
    /\ \A j \in Jobs : copied[j] \in 0 .. Len(plan[j])
    /\ disturbed \in [Jobs -> BOOLEAN]

Init ==
    /\ fs = [d \in Dirs |-> IF d[2] = "own" /\ Original[d[1]] # NoMeta
                            THEN Dataset(Original[d[1]]) ELSE Absent]
    /\ status = [j \in Jobs |-> "none"]
    /\ pc = [j \in Jobs |-> "idle"]
    /\ plan = [j \in Jobs |-> <<>>]
    /\ copied = [j \in Jobs |-> 0]
    /\ disturbed = [j \in Jobs |-> FALSE]

----------------------------------------------------------------------------
Write(j, touched) ==
    disturbed' = [i \in Jobs |-> disturbed[i] \/
                    (i # j /\ Working(i) /\ touched \cap Uses(i) # {})]

Step(j, to) == pc' = [pc EXCEPT ![j] = to]

(* The router's check that every source exists, and _create_job.            *)
Submit(j) ==
    /\ status[j] = "none"
    /\ \A i \in DOMAIN Request[j].sources : fs[<<Request[j].sources[i], "own">>].there
    /\ status' = [status EXCEPT ![j] = "queued"]
    /\ Step(j, "start")
    /\ UNCHANGED <<fs, plan, copied, disturbed>>

(* A job whose output another job is using starts disturbed.                *)
Start(j) ==
    /\ pc[j] = "start"
    /\ status' = [status EXCEPT ![j] = "running"]
    /\ Step(j, IF Request[j].inPlace THEN "rename" ELSE "read")
    /\ disturbed' = [disturbed EXCEPT ![j] = \E i \in Jobs \ {j} :
                        Working(i) /\ Output(i) \in Uses(j)]
    /\ UNCHANGED <<fs, plan, copied>>

Rename(j) ==
    LET own == Output(j)  bak == <<Request[j].output, "bak">> IN
    /\ pc[j] = "rename"
    /\ fs[own].there /\ ~fs[bak].there
    /\ fs' = [fs EXCEPT ![bak] = fs[own], ![own] = Absent]
    /\ Step(j, "read")
    /\ Write(j, {own, bak})
    /\ UNCHANGED <<status, plan, copied>>

(* Mutant: the 0-based ids of the request compared with 1-based rows.       *)
KeepsOneBased(r, k) == k \notin r.pick

(* Does an operation keep the k-th row of a source's episode table?         *)
Keeps(r, k) ==
    \/ r.op = "delete" /\ k - 1 \notin r.pick
    \/ r.op = "split" /\ k - 1 \in r.pick
    \/ r.op = "merge"

(* The rows it keeps, <<i, k>> for the k-th row of its i-th source, and the *)
(* order they are in: source after source, and in each as its table has     *)
(* them.                                                                    *)
Rows(j) ==
    UNION {{i} \X {k \in DOMAIN fs[Source(j, i)].meta : Keeps(Request[j], k)} :
             i \in DOMAIN Request[j].sources}
UpTo(x, S) == {y \in S : y[1] < x[1] \/ (y[1] = x[1] /\ y[2] <= x[2])}

(* source_map: the n-th row has the data of a file of its source, which is  *)
(* copied to the n-th file of the output.                                   *)
Planned(j) ==
    [n \in 1 .. Cardinality(Rows(j)) |->
        LET x == CHOOSE x \in Rows(j) : Cardinality(UpTo(x, Rows(j))) = n
        IN [dir |-> Source(j, x[1]), file |-> x[2], ep |-> fs[Source(j, x[1])].meta[x[2]]]]

(* read_info and read_episodes of every source, the selection and           *)
(* reindex_episodes; write_dataset then makes the output directory.  All    *)
(* the readings are one step, where the code opens one file after another:  *)
(* another job that comes between two of them could leave this one with     *)
(* one source as it was before and another as it is after that job.         *)
Opened(dir) == IF dir.there THEN dir ELSE [there |-> TRUE, meta |-> NoMeta, data |-> <<>>]

ReadSources(j) ==
    /\ pc[j] = "read"
    /\ \A i \in DOMAIN Request[j].sources :
         fs[Source(j, i)].there /\ fs[Source(j, i)].meta # NoMeta
    /\ plan' = [plan EXCEPT ![j] = Planned(j)]
    /\ copied' = [copied EXCEPT ![j] = 0]
    /\ fs' = [fs EXCEPT ![Output(j)] = Opened(@)]
    /\ Step(j, "copy")
    /\ Write(j, IF fs[Output(j)].there THEN {} ELSE {Output(j)})
    /\ UNCHANGED status

(* Mutant: a file that is already in the output is not copied again.        *)
CopyFileResumed(j) ==
    LET k == copied[j] + 1
        row == plan[j][k]
        src == fs[row.dir]
        out == Opened(fs[Output(j)]) IN
    /\ pc[j] = "copy" /\ copied[j] < Len(plan[j])
    /\ fs' = [fs EXCEPT ![Output(j)] =
                IF src.there /\ row.file \in DOMAIN src.data /\ k \notin DOMAIN out.data
                THEN [out EXCEPT !.data = @ @@ (k :> src.data[row.file])]
                ELSE out]
    /\ copied' = [copied EXCEPT ![j] = k]
    /\ Write(j, {Output(j)})
    /\ UNCHANGED <<status, pc, plan>>

(* One turn of write_dataset's loop: a missing source file is no error.     *)
CopyFile(j) ==
    LET k == copied[j] + 1
        row == plan[j][k]
        src == fs[row.dir]
        out == Opened(fs[Output(j)]) IN
    /\ pc[j] = "copy" /\ copied[j] < Len(plan[j])
    /\ fs' = [fs EXCEPT ![Output(j)] =
                IF src.there /\ row.file \in DOMAIN src.data
                THEN [out EXCEPT !.data = [f \in DOMAIN @ \cup {k} |->
                        IF f = k THEN src.data[row.file] ELSE out.data[f]]]
                ELSE out]
    /\ copied' = [copied EXCEPT ![j] = k]
    /\ Write(j, {Output(j)})
    /\ UNCHANGED <<status, pc, plan>>

(* Mutant: the metadata written while files are still to be copied.         *)
WriteMetaEarly(j) ==
    /\ pc[j] = "copy"
    /\ fs' = [fs EXCEPT ![Output(j)] =
                [Opened(@) EXCEPT !.meta = [k \in 1 .. Len(plan[j]) |-> plan[j][k].ep]]]
    /\ Step(j, IF Request[j].inPlace THEN "discard" ELSE "ok")
    /\ Write(j, {Output(j)})
    /\ UNCHANGED <<status, plan, copied>>

(* The output's episode table, tasks and info.json.                         *)
WriteMeta(j) ==
    /\ pc[j] = "copy" /\ copied[j] = Len(plan[j])
    /\ fs' = [fs EXCEPT ![Output(j)] =
                [Opened(@) EXCEPT !.meta = [k \in 1 .. Len(plan[j]) |-> plan[j][k].ep]]]
    /\ Step(j, IF Request[j].inPlace THEN "discard" ELSE "ok")
    /\ Write(j, {Output(j)})
    /\ UNCHANGED <<status, plan, copied>>

DiscardBackup(j) ==
    /\ pc[j] = "discard"
    /\ fs' = [fs EXCEPT ![<<Request[j].output, "bak">>] = Absent]
    /\ Step(j, "ok")
    /\ UNCHANGED <<status, plan, copied, disturbed>>

Raises(j) ==
    /\ pc[j] \in {"rename", "read", "copy"}
    /\ Step(j, IF Request[j].inPlace /\ pc[j] # "rename" THEN "undo" ELSE "error")
    /\ UNCHANGED <<fs, status, plan, copied, disturbed>>

Undo(j) ==
    LET own == Output(j)  bak == <<Request[j].output, "bak">> IN
    /\ pc[j] = "undo"
    /\ fs' = [fs EXCEPT ![own] = fs[bak], ![bak] = Absent]
    /\ Step(j, "error")
    /\ Write(j, {own})
    /\ UNCHANGED <<status, plan, copied>>

(* Mutant: the status word the pollers of the web page also accept.         *)
ReportCompleted(j) ==
    /\ pc[j] \in {"ok", "error"}
    /\ status' = [status EXCEPT ![j] = IF pc[j] = "ok" THEN "completed" ELSE "failed"]
    /\ Step(j, "idle")
    /\ UNCHANGED <<fs, plan, copied, disturbed>>

Report(j) ==
    /\ pc[j] \in {"ok", "error"}
    /\ status' = [status EXCEPT ![j] = IF pc[j] = "ok" THEN "complete" ELSE "failed"]
    /\ Step(j, "idle")
    /\ UNCHANGED <<fs, plan, copied, disturbed>>

Crash ==
    /\ status' = [j \in Jobs |-> IF status[j] = "none" THEN "none" ELSE "lost"]
    /\ pc' = [j \in Jobs |-> "idle"]
    /\ UNCHANGED <<fs, plan, copied, disturbed>>

Worker(j) ==
    \/ Start(j) \/ Rename(j) \/ ReadSources(j) \/ CopyFile(j) \/ WriteMeta(j)
    \/ DiscardBackup(j) \/ Raises(j) \/ Undo(j) \/ Report(j)

Next == (\E j \in Jobs : Submit(j) \/ Worker(j)) \/ Crash

Spec == Init /\ [][Next]_vars

----------------------------------------------------------------------------
(* Properties *)

(* Requests that do not write into each other's datasets: a job that names  *)
(* an output_dir names no dataset that is there, and no job's source.       *)
Separate ==
    \A j \in Jobs : ~Request[j].inPlace =>
        /\ Original[Request[j].output] = NoMeta
        /\ \A i \in Jobs : Request[j].output \notin Range(Request[i].sources)

(* A dataset is deleted from in place at most once: the ids of a second     *)
(* request are places in what the first has left.                           *)
OneDelete ==
    \A i, j \in Jobs : Request[i].inPlace /\ Request[j].inPlace
                        /\ Request[i].output = Request[j].output => i = j

(* The function of a job that works in place reads the backup, which        *)
(* nothing else can reach: whatever other jobs read, write and fail, what   *)
(* it has built when it turns to the backup is whole, and is the selection  *)
(* from the very dataset it took away.                                      *)
InPlaceBuildIsExact ==
    \A j \in Jobs : pc[j] = "discard" =>
        /\ Whole(fs[Output(j)])
        /\ LET taken == fs[<<Request[j].output, "bak">>].meta IN
           /\ fs[Output(j)].meta = [k \in DOMAIN plan[j] |-> taken[plan[j][k].file]]
           /\ {plan[j][k].file : k \in DOMAIN plan[j]}
                = {i \in DOMAIN taken : i - 1 \notin Request[j].pick}

(* A job none of whose directories was written by another job while it      *)
(* worked, and which does not write over its own source, reports complete   *)
(* only with an output that is whole: also when the output directory held   *)
(* what a failed or killed job had left there.                              *)
UndisturbedIsWhole ==
    \A j \in Jobs : pc[j] = "ok" /\ ~disturbed[j] => Whole(fs[Output(j)])

(* What was asked to be deleted is all that can go: an episode no delete    *)
(* request selects, by its place in the original dataset, stays in a whole  *)
(* copy of the dataset.                                                     *)
Chosen(p) == {Original[p][k] : k \in {i \in DOMAIN Original[p] :
                \E j \in Jobs : /\ Request[j].op = "delete" /\ Request[j].inPlace
                                /\ Request[j].output = p /\ status[j] # "none"
                                /\ i - 1 \in Request[j].pick}}

OnlyChosenGo ==
    \A p \in Paths : Original[p] # NoMeta =>
        \E d \in {<<p, "own">>, <<p, "bak">>} :
            Whole(fs[d]) /\ Range(Original[p]) \ Chosen(p) \subseteq Range(fs[d].meta)

(* A finished job's output holds the data of every episode it lists.        *)
CompleteIsWhole == \A j \in Jobs : pc[j] = "ok" => Whole(fs[Output(j)])
==============================================================================
