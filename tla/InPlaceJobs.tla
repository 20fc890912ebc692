----------------------------- MODULE InPlaceJobs -----------------------------
(***************************************************************************)
(* In-place dataset jobs: delete_episodes without an output directory and  *)
(* stamp_cycles, of backend/datasets/services/dataset_ops_service.py.      *)
(* Each job is a worker in the executor's thread pool that runs            *)
(* _run_with_backup: rename the dataset to its ".bak" sibling, rebuild the *)
(* dataset from the backup, remove the backup; on any exception remove the *)
(* rebuilt directory and rename the backup back.  Nothing serialises two   *)
(* jobs on one dataset, and the server can die between any two steps.      *)
(*                                                                         *)
(* What a directory holds is abstract: a value of Values when every file   *)
(* of a dataset is in place, Partial when some are not, Emptied when       *)
(* rmtree has removed everything but the directory itself.                 *)
(***************************************************************************)
CONSTANTS
    Datasets,       \* dataset directories (their ".bak" names are distinct)
    Jobs,           \* job ids, each used once
    StampJobs,      \* the jobs that are stamp_cycles; the others delete
    Values,         \* what a complete dataset can hold
    Effect,         \* Effect[j][v]: what job j's function makes of v
    Absent,         \* no such directory
    Partial,        \* a directory some files of which are missing
    Emptied,        \* an empty directory, just before rmtree's last rmdir
    Rejected,       \* Effect of a job whose function raises on that value
    RmtreeTears     \* may rmtree of the backup fail once it has begun?

NotWhole == {Absent, Partial, Emptied}

ASSUME InPlaceAssumption ==
    /\ Values \cap (NotWhole \cup {Rejected}) = {}
    /\ Absent # Partial /\ Absent # Emptied /\ Partial # Emptied
    /\ StampJobs \subseteq Jobs
    /\ Effect \in [Jobs -> [Values -> Values \cup {Rejected}]]
    /\ RmtreeTears \in BOOLEAN

VARIABLES
    dir,        \* dir[d]: what is at the dataset's own path
    bak,        \* bak[d]: what is at its path with ".bak" appended
    status,     \* status[j]: the job's entry in _jobs ("none": no entry yet,
                \* "lost": the entry went with the process)
    target,     \* target[j]: the dataset job j is a request for
    pc,         \* pc[j]: where its worker thread is
    read,       \* read[j]: what its function read from the backup
    overtaken   \* history: the datasets that were renamed to their backup's
                \* path while another worker was about to rmdir it

vars == <<dir, bak, status, target, pc, read, overtaken>>

Statuses == {"none", "queued", "running", "complete", "failed", "lost"}
Steps == {"idle", "start", "rename", "fn", "write", "discard", "purge",
          "rmdir", "undo", "unbuild", "restore", "ok", "error"}

TypeOK ==
    /\ dir \in [Datasets -> Values \cup NotWhole]
    /\ bak \in [Datasets -> Values \cup NotWhole]
    /\ status \in [Jobs -> Statuses]
    /\ target \in [Jobs -> Datasets]
    /\ pc \in [Jobs -> Steps]
    /\ read \in [Jobs -> Values \cup NotWhole]
    /\ overtaken \subseteq Datasets

Init ==
    /\ dir \in [Datasets -> Values]
    /\ bak = [d \in Datasets |-> Absent]
    /\ status = [j \in Jobs |-> "none"]
    /\ target \in [Jobs -> Datasets]
    /\ pc = [j \in Jobs |-> "idle"]
    /\ read = [j \in Jobs |-> Absent]
    /\ overtaken = {}

----------------------------------------------------------------------------
(* The endpoint checks that the path exists, _create_job registers the job  *)
(* and run_in_executor hands it to a worker.                                *)
Submit(j) ==
    /\ status[j] = "none"
    /\ dir[target[j]] # Absent
    /\ status' = [status EXCEPT ![j] = "queued"]
    /\ pc' = [pc EXCEPT ![j] = "start"]
    /\ UNCHANGED <<dir, bak, target, read, overtaken>>

Start(j) ==
    /\ pc[j] = "start"
    /\ status' = [status EXCEPT ![j] = "running"]
    /\ pc' = [pc EXCEPT ![j] = "rename"]
    /\ UNCHANGED <<dir, bak, target, read, overtaken>>

(* rename(2) replaces an empty directory and refuses any other.             *)
CanRename(from, to) == from # Absent /\ to \in {Absent, Emptied}

(* What a rename of d to its backup adds to the history.                    *)
Overtaken(d) ==
    IF \E i \in Jobs : pc[i] = "rmdir" /\ target[i] = d THEN overtaken \cup {d} ELSE overtaken

(* Mutant: a backup that is already there is removed first.                 *)
RenameOverBackup(j) ==
    LET d == target[j] IN
    /\ pc[j] = "rename"
    /\ dir[d] # Absent
    /\ bak' = [bak EXCEPT ![d] = dir[d]]
    /\ dir' = [dir EXCEPT ![d] = Absent]
    /\ pc' = [pc EXCEPT ![j] = "fn"]
    /\ overtaken' = Overtaken(d)
    /\ UNCHANGED <<status, target, read>>

(* target_path.rename(backup), outside the try.  It succeeds, too, between  *)
(* the last unlink of another worker's rmtree and its rmdir: the backup is  *)
(* an empty directory then.                                                 *)
RenameToBackup(j) ==
    LET d == target[j] IN
    /\ pc[j] = "rename"
    /\ CanRename(dir[d], bak[d])
    /\ bak' = [bak EXCEPT ![d] = dir[d]]
    /\ dir' = [dir EXCEPT ![d] = Absent]
    /\ pc' = [pc EXCEPT ![j] = "fn"]
    /\ overtaken' = Overtaken(d)
    /\ UNCHANGED <<status, target, read>>

(* Mutant: the rename's exception reaches no handler that updates the job.  *)
RenameRaisesUncaught(j) ==
    /\ pc[j] = "rename"
    /\ ~CanRename(dir[target[j]], bak[target[j]])
    /\ pc' = [pc EXCEPT ![j] = "idle"]
    /\ UNCHANGED <<dir, bak, status, target, read, overtaken>>

RenameRaises(j) ==
    /\ pc[j] = "rename"
    /\ ~CanRename(dir[target[j]], bak[target[j]])
    /\ pc' = [pc EXCEPT ![j] = "error"]
    /\ UNCHANGED <<dir, bak, status, target, read, overtaken>>

(* fn reads the backup and makes the output directory: write_dataset        *)
(* accepts an existing one, copytree does not.                              *)
FnBegin(j) ==
    LET d == target[j] IN
    /\ pc[j] = "fn"
    /\ bak[d] \notin {Absent, Emptied}
    /\ j \in StampJobs => dir[d] = Absent
    /\ read' = [read EXCEPT ![j] = bak[d]]
    /\ dir' = [dir EXCEPT ![d] = Partial]
    /\ pc' = [pc EXCEPT ![j] = "write"]
    /\ UNCHANGED <<bak, status, target, overtaken>>

(* What the rebuilt directory holds: files that have left the backup by     *)
(* the time they are copied are skipped without an error.                   *)
Built(j) ==
    LET d == target[j] IN
    IF read[j] \in Values /\ bak[d] = read[j] /\ dir[d] = Partial
    THEN Effect[j][read[j]] ELSE Partial

(* Mutant: fn returns normally where it should have raised.                 *)
FnEndUnchecked(j) ==
    /\ pc[j] = "write"
    /\ dir' = [dir EXCEPT ![target[j]] = Built(j)]
    /\ pc' = [pc EXCEPT ![j] = "discard"]
    /\ UNCHANGED <<bak, status, target, read, overtaken>>

FnEnd(j) ==
    /\ pc[j] = "write"
    /\ Built(j) # Rejected
    /\ dir' = [dir EXCEPT ![target[j]] = Built(j)]
    /\ pc' = [pc EXCEPT ![j] = "discard"]
    /\ UNCHANGED <<bak, status, target, read, overtaken>>

(* Any exception in fn: an unreadable file, a full disk, a stamp refused.   *)
FnRaises(j) ==
    /\ pc[j] \in {"fn", "write"}
    /\ pc' = [pc EXCEPT ![j] = "undo"]
    /\ UNCHANGED <<dir, bak, status, target, read, overtaken>>

(* shutil.rmtree(backup): entry by entry, then the directory itself.        *)
DiscardBegin(j) ==
    /\ pc[j] = "discard"
    /\ bak[target[j]] \notin {Absent, Emptied}
    /\ bak' = [bak EXCEPT ![target[j]] = Partial]
    /\ pc' = [pc EXCEPT ![j] = "purge"]
    /\ UNCHANGED <<dir, status, target, read, overtaken>>

DiscardEmpty(j) ==
    /\ pc[j] = "purge"
    /\ bak[target[j]] = Partial
    /\ bak' = [bak EXCEPT ![target[j]] = Emptied]
    /\ pc' = [pc EXCEPT ![j] = "rmdir"]
    /\ UNCHANGED <<dir, status, target, read, overtaken>>

DiscardEnd(j) ==
    /\ pc[j] = "rmdir"
    /\ bak[target[j]] = Emptied
    /\ bak' = [bak EXCEPT ![target[j]] = Absent]
    /\ pc' = [pc EXCEPT ![j] = "ok"]
    /\ UNCHANGED <<dir, status, target, read, overtaken>>

(* It raises before it has removed anything, when what it removes is not    *)
(* there any more, or (RmtreeTears) half way.                               *)
DiscardRaises(j) ==
    /\ \/ pc[j] = "discard"
       \/ pc[j] = "purge" /\ (RmtreeTears \/ bak[target[j]] # Partial)
       \/ pc[j] = "rmdir" /\ bak[target[j]] # Emptied
    /\ pc' = [pc EXCEPT ![j] = "undo"]
    /\ UNCHANGED <<dir, bak, status, target, read, overtaken>>

----------------------------------------------------------------------------
(* The except block: remove what fn built, then rename the backup back.     *)
Undo(j) ==
    LET d == target[j] IN
    /\ pc[j] = "undo"
    /\ \/ /\ dir[d] # Absent
          /\ dir' = [dir EXCEPT ![d] = Partial]
          /\ pc' = [pc EXCEPT ![j] = "unbuild"]
       \/ /\ dir[d] = Absent
          /\ pc' = [pc EXCEPT ![j] = "restore"]
          /\ UNCHANGED dir
    /\ UNCHANGED <<bak, status, target, read, overtaken>>

UnbuildEnd(j) ==
    /\ pc[j] = "unbuild"
    /\ dir' = [dir EXCEPT ![target[j]] = Absent]
    /\ pc' = [pc EXCEPT ![j] = "restore"]
    /\ UNCHANGED <<bak, status, target, read, overtaken>>

Restore(j) ==
    LET d == target[j] IN
    /\ pc[j] = "restore"
    /\ CanRename(bak[d], dir[d])
    /\ dir' = [dir EXCEPT ![d] = bak[d]]
    /\ bak' = [bak EXCEPT ![d] = Absent]
    /\ pc' = [pc EXCEPT ![j] = "error"]
    /\ UNCHANGED <<status, target, read, overtaken>>

(* An exception of the except block itself replaces the first one.          *)
UndoRaises(j) ==
    /\ pc[j] \in {"unbuild", "restore"}
    /\ pc' = [pc EXCEPT ![j] = "error"]
    /\ UNCHANGED <<dir, bak, status, target, read, overtaken>>

----------------------------------------------------------------------------
(* Mutant: the except block of _run_with_backup does not raise again.       *)
FinishComplete(j, step, outcome) ==
    /\ pc[j] = step
    /\ status' = [status EXCEPT ![j] = "complete"]
    /\ pc' = [pc EXCEPT ![j] = "idle"]
    /\ UNCHANGED <<dir, bak, target, read, overtaken>>

(* The end of _run_delete and _run_stamp_cycles.                            *)
Finish(j, step, outcome) ==
    /\ pc[j] = step
    /\ status' = [status EXCEPT ![j] = outcome]
    /\ pc' = [pc EXCEPT ![j] = "idle"]
    /\ UNCHANGED <<dir, bak, target, read, overtaken>>

ReportComplete(j) == Finish(j, "ok", "complete")
ReportFailed(j) == Finish(j, "error", "failed")

(* The process dies: its threads and _jobs go, the directories stay.        *)
Crash ==
    /\ status' = [j \in Jobs |-> IF status[j] = "none" THEN "none" ELSE "lost"]
    /\ pc' = [j \in Jobs |-> "idle"]
    /\ UNCHANGED <<dir, bak, target, read, overtaken>>

Discard(j) == DiscardBegin(j) \/ DiscardEmpty(j) \/ DiscardEnd(j)

Worker(j) ==
    \/ Start(j)
    \/ RenameToBackup(j) \/ RenameRaises(j)
    \/ FnBegin(j) \/ FnEnd(j) \/ FnRaises(j)
    \/ Discard(j) \/ DiscardRaises(j)
    \/ Undo(j) \/ UnbuildEnd(j) \/ Restore(j) \/ UndoRaises(j)
    \/ ReportComplete(j) \/ ReportFailed(j)

Next ==
    \/ \E j \in Jobs : Submit(j) \/ Worker(j)
    \/ Crash

Spec == Init /\ [][Next]_vars

(* The executor runs every worker it was handed until it returns.           *)
FairSpec == Spec /\ \A j \in Jobs : WF_vars(Worker(j))

----------------------------------------------------------------------------
(* Properties *)

(* The promise of AtomicReplace.  A dataset's value is the backup's until   *)
(* the backup starts to go, and the value at its own path from then on; a   *)
(* job has been applied once the removal of its backup has begun.           *)
Content == [d \in Datasets |-> IF bak[d] \in Values THEN bak[d] ELSE dir[d]]

Phase == [j \in Jobs |->
    CASE status[j] \in {"queued", "running"} /\ pc[j] \in {"purge", "rmdir", "ok"} -> "applied"
      [] status[j] \in {"queued", "running"} /\ pc[j] \notin {"purge", "rmdir", "ok"} -> "pending"
      [] status[j] \notin {"queued", "running"} -> status[j]]

Atomic == INSTANCE AtomicReplace WITH content <- Content, phase <- Phase

(* As long as no dataset has been overtaken the jobs implement              *)
(* AtomicReplace, whatever fails or dies and however many jobs run.         *)
JobsAreAtomic ==
    Atomic!Init /\ [][overtaken' # {} \/ Atomic!Next]_(Atomic!vars)

(* Whatever fails or dies, and however many jobs run on one dataset, a      *)
(* complete copy of it is on disk, at its path or at its ".bak" path:       *)
(* unless one worker's rename has overtaken another's rmdir, when the other *)
(* takes the failure of its rmdir for that of its job and undoes it.        *)
ACopySurvives ==
    \A d \in Datasets \ overtaken : dir[d] \in Values \/ bak[d] \in Values

(* The steps of a worker between its rename and its last use of the backup. *)
Owning == {"fn", "write", "discard", "purge", "rmdir", "undo", "unbuild", "restore"}

(* The rename that takes a dataset away excludes a second worker from its   *)
(* backup at every moment but one: two workers own one backup only when the *)
(* second has renamed between the last unlink and the rmdir of the first.   *)
OneOwner ==
    \A i, j \in Jobs :
        i # j /\ pc[i] \in Owning /\ pc[j] \in Owning /\ target[i] = target[j]
          => target[i] \in overtaken

(* A backup that no worker owns (its job died with the server, or failed in *)
(* its own except block) is what is left of the dataset.  No later job      *)
(* touches it or the directory beside it: every in-place job on that        *)
(* dataset fails at its rename until somebody puts the backup back.         *)
Orphaned(d) ==
    /\ bak[d] \notin {Absent, Emptied}
    /\ \A j \in Jobs : pc[j] \in Owning => target[j] # d

OrphanIsKept ==
    [][\A d \in Datasets : Orphaned(d) => dir'[d] = dir[d] /\ bak'[d] = bak[d]]_vars

(* Every submitted job is reported complete or failed, unless the server    *)
(* goes down with it.                                                       *)
JobsFinish ==
    \A j \in Jobs :
        status[j] = "queued" ~> status[j] \in {"complete", "failed", "lost"}
==============================================================================
