----------------------------- MODULE Validation -----------------------------
(***************************************************************************)
(* The quick and the full check of a converted dataset                     *)
(* (backend/converter/validation_service.py), as they compute.  What they  *)
(* mean is stated in Edits, without the cursors.                           *)
(***************************************************************************)
EXTENDS Engine

(* The lerobot package of the server: its version, <<>> when there is none  *)
(* to import or to parse, and what LeRobotDataset.from_local does.          *)
Loaders == [version : Seq(Nat), fromLocal : {"absent", "loads", "raises"}]
MinVersion == <<0, 3, 0>>

Padded(v) == [k \in 1 .. Max({Len(v), Len(MinVersion)}) |->
                IF k \in DOMAIN v THEN v[k] ELSE 0]

(* Tuples compare at the first place where they differ; a longer version    *)
(* that agrees with the minimum is above it.                                *)
VersionIsSupported(v) ==
    /\ v # <<>>
    /\ \/ \A k \in DOMAIN MinVersion : Padded(v)[k] = MinVersion[k]
       \/ \E k \in DOMAIN MinVersion :
            /\ Padded(v)[k] > MinVersion[k]
            /\ \A i \in 1 .. k - 1 : Padded(v)[i] = MinVersion[i]

SmokeTest(loader) ==
    CASE ~VersionIsSupported(loader.version) \/ loader.fromLocal = "absent" -> "partial"
      [] VersionIsSupported(loader.version) /\ loader.fromLocal = "raises" -> "failed"
      [] VersionIsSupported(loader.version) /\ loader.fromLocal = "loads" -> "passed"

DataRows(d) ==
    LET names == InOrder(d.data) IN Concat([k \in DOMAIN names |-> d.data[names[k]].rows])

(* Where ranges that should follow each other end.                          *)
Cursor(inRow) == FoldLeft(LAMBDA c, p : IF p[1] = c THEN p[2] ELSE -1, 0, inRow)

(* Mutant: in the order of the tables.                                      *)
RangesTileUnsorted(d) ==
    LET eps == TableRows(d) IN
    /\ \A k \in DOMAIN eps : eps[k].from >= 0 /\ eps[k].to > eps[k].from
    /\ Cursor([k \in DOMAIN eps |-> <<eps[k].from, eps[k].to>>]) = Len(DataRows(d))

(* _validate_episode_ranges: every range starts where the one before ends.  *)
RangesTile(d) ==
    LET eps == TableRows(d)
        ranges == {<<eps[k].from, eps[k].to, k>> : k \in DOMAIN eps}
        order == {r \in ranges \X ranges :
                    \/ Before(r[1], r[2])
                    \/ r[1][1] = r[2][1] /\ r[1][2] = r[2][2] /\ r[1][3] < r[2][3]}
        inRow == Ordered(ranges, order)
    IN  /\ \A k \in DOMAIN eps : eps[k].from >= 0 /\ eps[k].to > eps[k].from
        /\ Cursor(inRow) = Len(DataRows(d))

ValidateQuick(d) ==
    IF /\ d # Absent
       /\ d.torn \cap {"info", "tasks", "episodes", "data"} = {}
       /\ d.tables # NoFiles
       /\ d.data # NoFiles
       /\ Len(TableRows(d)) = d.info.episodes
       /\ Len(DataRows(d)) = d.info.frames
       /\ RangesTile(d)
       /\ d.info.video => d.video # NoFiles
    THEN "passed" ELSE "failed"

(* The walk of _validate_data_references: the segment moves on while the    *)
(* row lies behind it; 0 when a row has no segment.                         *)
SegmentOf(segments, index, s) ==
    LET ahead == {k \in s .. Len(segments) : index < segments[k].to} IN
    IF ahead # {} /\ segments[Min(ahead)].from <= index THEN Min(ahead) ELSE 0

Referred(segments, s, r) ==
    IF s = 0 THEN 0
    ELSE LET at == SegmentOf(segments, r.index, s) IN
         IF at # 0 /\ r.episode = segments[at].episode /\ r.task = segments[at].task
         THEN at ELSE 0
AllReferred(segments, refs) ==
    FoldLeft(LAMBDA s, r : Referred(segments, s, r), 1, refs) # 0

ReferencesMatch(d) ==
    LET eps == TableRows(d)
        rows == DataRows(d)
        segments == SortedBy(eps, [k \in DOMAIN eps |-> eps[k].from])
        refs == SortedBy(rows, [k \in DOMAIN rows |-> rows[k].index])
    IN  /\ \A k \in DOMAIN refs : refs[k].index = k - 1
        /\ AllReferred(segments, refs)

TaskIndicesMatch(d) ==
    LET listed == {d.tasks[k].index : k \in DOMAIN d.tasks}
        used == {TableRows(d)[k].task : k \in DOMAIN TableRows(d)}
    IN  listed = 0 .. Len(d.tasks) - 1 /\ used = listed

VideosAccessible(d) ==
    /\ d.video # NoFiles
    /\ \A k \in DOMAIN TableRows(d) : TableRows(d)[k].file \in DOMAIN d.video
    /\ "video" \notin d.torn

ValidateFull(d, loader) ==
    IF /\ ValidateQuick(d) = "passed"
       /\ TaskIndicesMatch(d)
       /\ ReferencesMatch(d)
       /\ d.info.video => VideosAccessible(d)
    THEN SmokeTest(loader) ELSE "failed"
=============================================================================
