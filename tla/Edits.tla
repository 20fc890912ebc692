------------------------------- MODULE Edits -------------------------------
(***************************************************************************)
(* Datasets on a disk, and what users do to them one job after another:    *)
(* delete, split, merge, stamp and validate, in any order and with any     *)
(* output, each as the functions of Engine, CycleStamps and Validation     *)
(* compute it.  Jobs that overlap are the business of DatasetOps; here a   *)
(* job has the disk to itself and the question is what a sequence of legal *)
(* calls leads to.                                                         *)
(*                                                                         *)
(* A trace, the values of one joint as frames arrive, is there to compare  *)
(* the two series algorithms with their definitions.                       *)
(***************************************************************************)
EXTENDS Validation, CycleStamps, AutoGradeBands

CONSTANTS
    Names,          \* dataset directories
    Bak,            \* the ".bak" name of an in-place job
    Shelves,        \* what users may begin with: [Names -> datasets or Absent]
    Drafts,         \* the same with datasets that are faulty, or half converted
    SomeLoaders,    \* lerobot packages the server may have
    Length,         \* Length[o]: the frames of recording o
    Text,           \* Text[o]: the instruction it was recorded under
    Footage,        \* Footage[o]: the video that shows it
    Packed,         \* recordings that share a data file with others
    Samples,        \* pairs of values a joint takes
    MaxSteps,       \* bound: edits and checks of one run
    MaxTrace        \* bound: frames of a trace

ASSUME EditsAssumption ==
    /\ Bak \notin Names
    /\ MaxSteps \in Nat /\ MaxTrace \in Nat
    /\ SomeLoaders # {} /\ SomeLoaders \subseteq Loaders
    /\ Samples \subseteq Int \X Int
    /\ Length \in [DOMAIN Length -> Nat \ {0}]
    /\ \A o \in DOMAIN Length : \A i \in 1 .. Length[o] :
         Gripper([recording |-> o, frame |-> i]) \in Int \X Int

----------------------------------------------------------------------------
(* Any dataset, faulty or not, in types.                                    *)
InfoType == [fps : Int, episodes : Int, frames : Int, video : BOOLEAN]
TaskType == [index : Int, text : STRING]
EpisodeType == [episode : Int, from : Int, to : Int, length : Int, task : Int,
                file : Nat \X Nat, of : DOMAIN Length]
RowType == [index : Int, episode : Int, frame : Int, task : Int,
            of : [recording : DOMAIN Length, frame : Int], term : BOOLEAN, last : BOOLEAN]
FileType == [stamped : BOOLEAN, rows : Seq(RowType)]

AreFiles(files) == /\ files = [f \in DOMAIN files |-> files[f]]
                   /\ IsFiniteSet(DOMAIN files) /\ DOMAIN files \subseteq Nat \X Nat

IsDataset(d) ==
    /\ d = [info |-> d.info, tasks |-> d.tasks, tables |-> d.tables, data |-> d.data,
            video |-> d.video, torn |-> d.torn]
    /\ d.info \in InfoType /\ d.tasks \in Seq(TaskType)
    /\ AreFiles(d.tables) /\ \A f \in DOMAIN d.tables : d.tables[f] \in Seq(EpisodeType)
    /\ AreFiles(d.data) /\ \A f \in DOMAIN d.data : d.data[f] \in FileType
    /\ AreFiles(d.video)

(* What the validator means, without its order of work.                     *)
Span(e) == e.from .. e.to - 1

Sound(d) ==
    LET eps == TableRows(d)  rows == DataRows(d) IN
    /\ d # Absent
    /\ d.torn \cap {"info", "tasks", "episodes", "data"} = {}
    /\ d.tables # NoFiles /\ d.data # NoFiles
    /\ Len(eps) = d.info.episodes /\ Len(rows) = d.info.frames
    /\ \A k \in DOMAIN eps : Span(eps[k]) # {}
    /\ \A i, k \in DOMAIN eps : i # k => Span(eps[i]) \cap Span(eps[k]) = {}
    /\ UNION {Span(eps[k]) : k \in DOMAIN eps} = 0 .. Len(rows) - 1
    /\ d.info.video => d.video # NoFiles

(* Frame i ends a cycle of one arm: it is open, was closed since it was     *)
(* last open.                                                               *)
EndsCycle(values, i) ==
    /\ values[i] > Open
    /\ \E c \in 1 .. i - 1 : values[c] < Closed /\ \A k \in c .. i - 1 : values[k] <= Open

Arm(o, side) == [k \in 1 .. Length[o] |-> Gripper([recording |-> o, frame |-> k])[side]]

MarksAreRight(rows) ==
    \A k \in DOMAIN rows :
        LET o == rows[k].of.recording  i == rows[k].of.frame IN
        /\ rows[k].term = (EndsCycle(Arm(o, 1), i) \/ EndsCycle(Arm(o, 2), i))
        /\ rows[k].last = (i = Length[o])

(* The rows of an episode are the frames of its recording, in its file.     *)
Owns(d, e) ==
    /\ e.file \in DOMAIN d.data
    /\ \A f \in DOMAIN d.data : \A k \in DOMAIN d.data[f].rows :
         LET r == d.data[f].rows[k] IN
         r.episode = e.episode =>
           /\ f = e.file /\ r.frame + 1 \in 1 .. Length[e.of]
           /\ r.of = [recording |-> e.of, frame |-> r.frame + 1]
    /\ LET rows == d.data[e.file].rows
           own == {k \in DOMAIN rows : rows[k].episode = e.episode}
       IN  /\ \A i \in 1 .. Length[e.of] : \E k \in own : rows[k].frame + 1 = i
           /\ \A j, k \in own : rows[j].frame = rows[k].frame => j = k

(* What the converter leaves, and other exporters that put several episodes *)
(* into a file.                                                             *)
Faithful(d) ==
    LET eps == Range(TableRows(d)) IN
    /\ Sound(d)
    /\ \A f \in DOMAIN d.data :
         /\ d.data[f].rows # <<>>
         /\ \A r \in Range(d.data[f].rows) : \E e \in eps : e.episode = r.episode
         /\ d.data[f].stamped => MarksAreRight(d.data[f].rows)
    /\ \A e \in eps :
         /\ Owns(d, e) /\ e.length = Length[e.of]
         /\ e.of \notin Packed => Len(d.data[e.file].rows) = Length[e.of]
         /\ e.file \in DOMAIN d.video /\ d.video[e.file] = Footage[e.of]

ASSUME ShelvesAssumption ==
    /\ \A shelf \in Shelves, n \in Names : shelf[n] # Absent => IsDataset(shelf[n]) /\ Faithful(shelf[n])
    /\ \A draft \in Drafts, n \in Names : draft[n] # Absent => IsDataset(draft[n])

VARIABLES
    disk,       \* the directories
    past,       \* history: how the content of a directory came about
    badge,      \* convert_validation_state.json: the verdicts by dataset and mode
    loader,     \* the server's lerobot package
    steps,      \* edits and checks so far
    trace       \* <<observed, commanded>> values of a joint, or two grippers'

vars == <<disk, past, badge, loader, steps, trace>>

NoBadge == [quick |-> "not_run", full |-> "not_run"]

Init ==
    /\ badge = [n \in Names |-> NoBadge]
    /\ trace = <<>>
    /\ \/ \E shelf \in Shelves :
            /\ disk = [n \in Names \cup {Bak} |-> IF n \in Names THEN shelf[n] ELSE Absent]
            /\ past = [n \in Names |-> "fresh"]
            /\ loader = CHOOSE l \in SomeLoaders : TRUE
            /\ steps = 0
       \/ \E draft \in Drafts, l \in SomeLoaders :
            /\ disk = [n \in Names \cup {Bak} |-> IF n \in Names THEN draft[n] ELSE Absent]
            /\ past = [n \in Names |-> "spoilt"]
            /\ loader = l
            /\ steps = MaxSteps - 1

----------------------------------------------------------------------------
(* History of a directory: "over" when a job wrote into files of another    *)
(* dataset, "spoilt" when a job wrote into its own source, or read a        *)
(* directory that was not fresh.  Drafts count as spoilt.                   *)
After(roots, out) ==
    CASE out \in Range(roots) \/ \E n \in Range(roots) : past[n] # "fresh" -> "spoilt"
      [] disk[out] = Absent /\ \A n \in Range(roots) : past[n] = "fresh" -> "fresh"
      [] OTHER -> "over"

Edit(out, as) ==
    /\ steps < MaxSteps
    /\ steps' = steps + 1
    /\ past' = [past EXCEPT ![out] = as]
    /\ UNCHANGED <<badge, loader, trace>>

Into(out, roots) == Edit(out, After(roots, out))

(* In place, the source is read under its backup's name.                    *)
DeleteInPlace(n, ids) ==
    LET moved == [disk EXCEPT ![Bak] = disk[n], ![n] = Absent] IN
    /\ Edit(n, IF past[n] = "fresh" THEN "fresh" ELSE "spoilt")
    /\ Selectable(disk, n)
    /\ disk' = [DeleteEpisodes(moved, Bak, ids, n) EXCEPT ![Bak] = Absent]

DeleteInto(n, ids, out) ==
    /\ Into(out, <<n>>)
    /\ Selectable(disk, n)
    /\ disk' = DeleteEpisodes(disk, n, ids, out)

Split(n, ids, out) ==
    /\ Into(out, <<n>>)
    /\ Selectable(disk, n)
    /\ disk' = SplitDataset(disk, n, ids, out)

Merge(roots, out) ==
    /\ Into(out, roots)
    /\ Mergeable(disk, roots)
    /\ disk' = MergeDatasets(disk, roots, out)

Stamp(n, overwrite) ==
    /\ Edit(n, past[n])
    /\ disk[n] # Absent
    /\ Stampable(disk[n], overwrite)
    /\ disk' = [disk EXCEPT ![n] = StampDatasetCycles(disk[n])]

(* _run_validation_sync: the verdict is kept until the next one, whatever   *)
(* becomes of the dataset.                                                  *)
CheckQuick(n) ==
    /\ steps < MaxSteps
    /\ badge' = [badge EXCEPT ![n].quick = ValidateQuick(disk[n])]
    /\ steps' = steps + 1
    /\ UNCHANGED <<disk, past, loader, trace>>

CheckFull(n) ==
    /\ steps < MaxSteps
    /\ badge' = [badge EXCEPT ![n].full = ValidateFull(disk[n], loader)]
    /\ steps' = steps + 1
    /\ UNCHANGED <<disk, past, loader, trace>>

(* One more frame of a joint, on a disk with nothing to edit.               *)
Observe(s) ==
    /\ \A n \in Names : disk[n] = Absent
    /\ Len(trace) < MaxTrace
    /\ trace' = Append(trace, s)
    /\ UNCHANGED <<disk, past, badge, loader, steps>>

Episodes(n) == IF disk[n] = Absent THEN {} ELSE {e.episode : e \in Range(TableRows(disk[n]))}
Requested(n) == SUBSET Episodes(n) \ {{}}

Next ==
    \/ \E n \in Names, out \in Names : \E ids \in Requested(n) :
         DeleteInto(n, ids, out) \/ Split(n, ids, out)
    \/ \E n \in Names : \E ids \in Requested(n) : DeleteInPlace(n, ids)
    \/ \E roots \in SeqOf(Names, 2), out \in Names : Merge(roots, out)
    \/ \E n \in Names, overwrite \in BOOLEAN : Stamp(n, overwrite)
    \/ \E n \in Names : CheckQuick(n) \/ CheckFull(n)
    \/ \E s \in Samples : Observe(s)

Spec == Init /\ [][Next]_vars

----------------------------------------------------------------------------
(* What the full check means, without its order of work.                    *)
ThroughAndThrough(d) ==
    LET eps == Range(TableRows(d))  rows == DataRows(d) IN
    /\ Sound(d)
    /\ {e.task : e \in eps} = 0 .. Len(d.tasks) - 1
    /\ \A i \in 0 .. Len(d.tasks) - 1 : \E t \in Range(d.tasks) : t.index = i
    /\ \A i \in 0 .. Len(rows) - 1 : \E r \in Range(rows) :
         /\ r.index = i
         /\ \E e \in eps : i \in Span(e) /\ e.episode = r.episode /\ e.task = r.task
    /\ d.info.video => "video" \notin d.torn /\ \A e \in eps : e.file \in DOMAIN d.video

Recent(v) == Len(v) >= 1 /\ 100 * v[1] + (IF Len(v) > 1 THEN v[2] ELSE 0) >= 3

(* A verdict that is written says what the check means: quick passes just   *)
(* when the episodes' ranges tile the rows, full just when every row        *)
(* belongs to the episode whose range has its index, is of its task, and    *)
(* the loader of a recent lerobot does not refuse it; it is partial when    *)
(* there is no such loader.  (The cursors of _validate_episode_ranges and   *)
(* _validate_data_references, and the reading of versions.)                 *)
VerdictsAreExact ==
    [][\A n \in Names :
         LET quick == badge'[n].quick  full == badge'[n].full IN
         /\ quick # badge[n].quick =>
              quick = IF disk[n] # Absent /\ Sound(disk[n]) THEN "passed" ELSE "failed"
         /\ full # badge[n].full =>
              full = IF disk[n] = Absent \/ ~ThroughAndThrough(disk[n]) THEN "failed"
                     ELSE IF ~Recent(loader.version) \/ loader.fromLocal = "absent" THEN "partial"
                     ELSE IF loader.fromLocal = "raises" THEN "failed" ELSE "passed"]_vars

----------------------------------------------------------------------------
Holds(d, e) ==
    LET at == EpisodeRows(d, e.episode) IN
    /\ [k \in DOMAIN at |-> d.data[at[k].file].rows[at[k].row].of]
         = [k \in 1 .. Length[e.of] |-> [recording |-> e.of, frame |-> k]]
    /\ e.file \in DOMAIN d.video /\ d.video[e.file] = Footage[e.of]

(* Whatever sequence of jobs made it, and even in a directory another       *)
(* dataset had filled: a dataset that passes the quick check has, under     *)
(* each of its episodes, the frames and the video of that recording, all    *)
(* of them and in order.  (write_dataset copies whole files under one       *)
(* episode_index, and the totals of the check are what catches it when a    *)
(* file held more.)                                                         *)
QuickIsExact ==
    \A n \in Names : disk[n] # Absent /\ past[n] # "spoilt" =>
        (ValidateQuick(disk[n]) = "passed" =>
           \A e \in Range(TableRows(disk[n])) : Holds(disk[n], e))

(* Jobs that read tidy datasets, one recording to a file, and write to a    *)
(* new directory or in place leave tidy datasets: they pass the quick check *)
(* and can be edited again.  (reindex_episodes and write_dataset agree on   *)
(* where each episode is, across chunks, over any sequence of jobs.)        *)
TidyStaysTidy ==
    \A n \in Names : disk[n] # Absent /\ past[n] = "fresh" =>
        LET d == disk[n]  eps == TableRows(d) IN
        (eps # <<>> /\ \A e \in Range(eps) : e.of \notin Packed) =>
           /\ ValidateQuick(d) = "passed"
           /\ \A f \in DOMAIN d.data : \E e \in Range(eps) :
                e.file = f /\ Len(d.data[f].rows) = e.length

(* The marks in a stamped file are those of the recordings in it, whatever  *)
(* happened to the dataset since: is_terminal where an arm opens after it   *)
(* was closed, is_last on the last frame and nowhere else, by frame_index   *)
(* and not by place in the file.  (stamp_dataset_cycles, and the engine's   *)
(* copies of stamped files beside unstamped ones.)                          *)
StampsAreRight ==
    /\ \A n \in Names : disk[n] # Absent /\ past[n] # "spoilt" =>
         (ValidateQuick(disk[n]) = "passed" =>
            \A f \in DOMAIN disk[n].data : disk[n].data[f].stamped =>
              MarksAreRight(disk[n].data[f].rows))
    /\ \A i \in DOMAIN trace : i \in CycleEnds(trace) <=>
         \E side \in {1, 2} : EndsCycle([k \in DOMAIN trace |-> trace[k][side]], i)

BandsOf(obs, act, m) ==
    LET scale == Max({Spread(SubSeq(obs, 1, m)), Spread(act)})
        over(percent) == {i \in 1 .. m : scale # 0 /\ 100 * Distance(obs[i], act[i]) > percent * scale}
        diverging == over(15)
        severe == over(30)
        sustained == {i \in 1 .. m : \E a \in 1 .. i : /\ a + MinSevereRun - 1 \in i .. m
                                                       /\ a .. a + MinSevereRun - 1 \subseteq severe}
        level == [i \in 0 .. m + 1 |-> IF i \in sustained THEN "severe"
                                       ELSE IF i \in diverging THEN "moderate" ELSE "none"]
        runs == {r \in [start : 1 .. m, end : 1 .. m, level : {"moderate", "severe"}] :
                   /\ r.start <= r.end
                   /\ \A k \in r.start .. r.end : level[k] = r.level
                   /\ level[r.start - 1] # r.level /\ level[r.end + 1] # r.level}
        bands == ComputeBands(obs, act)
    IN  /\ Range(bands) = runs
        /\ \A k \in 1 .. Len(bands) - 1 : bands[k].end < bands[k + 1].start
        /\ SevereFrames(obs, act) = Cardinality({i \in 1 .. m : level[i] = "severe"})

(* The bands of a joint are the longest runs of frames of one level, in     *)
(* order, where a frame that diverges severely counts as moderate unless it *)
(* is in a run of at least MinSevereRun such frames.  (compute_bands merges *)
(* runs, downgrades the short ones and merges again; a frame more or less   *)
(* and an episode is graded down.)                                          *)
BandsAreMaximal ==
    \A m \in {Len(trace), Len(trace) - 1} \cap Nat :
        BandsOf([k \in DOMAIN trace |-> trace[k][1]], [k \in 1 .. m |-> trace[k][2]], m)

(* Every episode keeps the instruction it was recorded under: its task, and *)
(* that of its rows, looked up in the dataset's tasks.  (merge_datasets.)   *)
TextsAreKept ==
    \A n \in Names : disk[n] # Absent /\ past[n] # "spoilt" =>
        (ValidateQuick(disk[n]) = "passed" =>
           \A e \in Range(TableRows(disk[n])) : \A t \in Range(disk[n].tasks) :
              t.index = e.task => t.text = Text[e.of])
=============================================================================
