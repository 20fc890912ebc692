------------------------------- MODULE Engine -------------------------------
(***************************************************************************)
(* What the functions of backend/datasets/services/dataset_ops_engine.py   *)
(* compute: a disk with one more dataset, from a disk and a request.  A    *)
(* disk maps names to datasets or Absent; it is passed from copy to copy,  *)
(* so a job whose output is one of its sources reads what it has written.  *)
(*                                                                         *)
(* A dataset is                                                            *)
(*   info     [fps, episodes, frames, video] of meta/info.json             *)
(*   tasks    meta/tasks.parquet, a sequence of [index, text]              *)
(*   tables   the files of meta/episodes, each a sequence of               *)
(*            [episode, from, to, length, task, file, of]                  *)
(*   data     the files of data, each [stamped, rows], rows a sequence of  *)
(*            [index, episode, frame, task, of, term, last]                *)
(*   video    the files of its one camera, each the episode it shows       *)
(*   torn     the parts that cannot be read or lack a required column      *)
(* A file is named <<chunk_index, file_index>>.  The field `of' is what no *)
(* function rewrites: which recording (and which of its frames) this is.   *)
(***************************************************************************)
EXTENDS Integers, Sequences, FiniteSets, SequencesExt

CONSTANTS
    ChunksSize,     \* 1000 in the code
    Absent          \* a name with no directory

ASSUME EngineAssumption == ChunksSize \in Nat \ {0}

NoFiles == [f \in {} |-> f]
Empty == [info |-> [fps |-> 0, episodes |-> 0, frames |-> 0, video |-> FALSE],
          tasks |-> <<>>, tables |-> NoFiles, data |-> NoFiles,
          video |-> NoFiles, torn |-> {}]

Before(f, g) == f[1] < g[1] \/ (f[1] = g[1] /\ f[2] < g[2])

(* The members of a set by a strict total order of them, a set of pairs.    *)
Ordered(S, order) ==
    [k \in 1 .. Cardinality(S) |->
       CHOOSE x \in S : Cardinality({y \in S : <<y, x>> \in order}) = k - 1]

(* The elements of a sequence at some of its places.                        *)
Kept(s, places) ==
    LET at == Ordered(places, {p \in places \X places : p[1] < p[2]}) IN
    [i \in DOMAIN at |-> s[at[i]]]

(* A file is written, over one of that name if there is any.                *)
With(files, name, file) ==
    [f \in DOMAIN files \cup {name} |-> IF f = name THEN file ELSE files[f]]

(* sorted(glob(...)): the names are padded, so they sort as numbers do.     *)
InOrder(files) ==
    Ordered(DOMAIN files, {p \in (DOMAIN files) \X (DOMAIN files) : Before(p[1], p[2])})

(* sorted(s, key=...), which is stable; key[k] is the key of s[k].          *)
SortedBy(s, key) ==
    LET order == {p \in (DOMAIN s) \X (DOMAIN s) :
                    key[p[1]] < key[p[2]] \/ (key[p[1]] = key[p[2]] /\ p[1] < p[2])}
        at == Ordered(DOMAIN s, order)
    IN  [k \in DOMAIN s |-> s[at[k]]]

Concat(ss) == FoldLeft(LAMBDA all, s : all \o s, <<>>, ss)
Total(s) == FoldLeft(LAMBDA n, x : n + x, 0, s)

TableRows(d) ==
    LET names == InOrder(d.tables) IN Concat([k \in DOMAIN names |-> d.tables[names[k]]])
ReadEpisodes(d) ==
    LET eps == TableRows(d) IN SortedBy(eps, [k \in DOMAIN eps |-> eps[k].episode])

File(k) == <<k \div ChunksSize, k % ChunksSize>>

(* Mutant: the ranges of the source are kept.                               *)
ReindexedRangesKept(eps) ==
    FoldLeft(LAMBDA new, e :
               Append(new, [e EXCEPT !.episode = Len(new), !.file = File(Len(new))]),
             <<>>, eps)

(* reindex_episodes: each episode begins where the one before ends, and the *)
(* k-th goes to the k-th file.                                              *)
Renumbered(new, e) ==
    LET k == Len(new)  from == IF new = <<>> THEN 0 ELSE Last(new).to IN
    [e EXCEPT !.episode = k, !.from = from, !.to = from + e.length, !.file = File(k)]
Reindexed(eps) == FoldLeft(LAMBDA new, e : Append(new, Renumbered(new, e)), <<>>, eps)

(* Mutant: the map is made from the reindexed rows.                         *)
SourceMapReindexed(roots, originals) ==
    Concat([i \in DOMAIN roots |->
                  [k \in DOMAIN originals[i] |->
                     [root |-> roots[i], file |-> Reindexed(originals[i])[k].file]]])

(* source_map: where each new episode is copied from.                       *)
SourceMap(roots, originals) ==
    Concat([i \in DOMAIN roots |->
                  [k \in DOMAIN originals[i] |->
                     [root |-> roots[i], file |-> originals[i][k].file]]])

Relabelled(file, episode) ==
    [file EXCEPT !.rows = [r \in DOMAIN file.rows |-> [file.rows[r] EXCEPT !.episode = episode]]]

(* One turn of the copy loop: the whole file is taken for one episode, and  *)
(* a file that is not there is left out.                                    *)
Copied(disk, out, from, e) ==
    LET source == disk[from.root] IN
    [disk EXCEPT
       ![out].data  = IF from.file \notin DOMAIN source.data THEN @
                      ELSE With(@, e.file, Relabelled(source.data[from.file], e.episode)),
       ![out].video = IF from.file \notin DOMAIN source.video THEN @
                      ELSE With(@, e.file, source.video[from.file])]
Filled(disk, out, copies) ==
    FoldLeft(LAMBDA dk, c : Copied(dk, out, c[1], c[2]), disk, copies)

(* write_dataset, into a directory that may have files already.             *)
Written(disk, out, info, eps, tasks, map) ==
    LET made == IF disk[out] = Absent THEN [disk EXCEPT ![out] = Empty] ELSE disk
        filled == Filled(made, out, [k \in DOMAIN map |-> <<map[k], eps[k]>>])
        total == Total([k \in DOMAIN eps |-> eps[k].length])
    IN  [filled EXCEPT
           ![out].tables = With(@, <<0, 0>>, eps),
           ![out].tasks = tasks,
           ![out].info = [info EXCEPT !.episodes = Len(eps), !.frames = total]]

(* delete_episodes and split_dataset differ in the rows they keep.  With no *)
(* episodes at all their mask has no boolean type, and filter raises, as    *)
(* the reading of a torn part does.                                         *)
Readable(disk, n) == disk[n] # Absent /\ disk[n].torn = {}
Selectable(disk, n) == Readable(disk, n) /\ ReadEpisodes(disk[n]) # <<>>

Select(disk, n, out, kept) ==
    Written(disk, out, disk[n].info, Reindexed(kept), disk[n].tasks, SourceMap(<<n>>, <<kept>>))

DeleteEpisodes(disk, n, ids, out) ==
    LET eps == ReadEpisodes(disk[n]) IN
    Select(disk, n, out, Kept(eps, {k \in DOMAIN eps : eps[k].episode \notin ids}))
SplitDataset(disk, n, ids, out) ==
    LET eps == ReadEpisodes(disk[n]) IN
    Select(disk, n, out, Kept(eps, {k \in DOMAIN eps : eps[k].episode \in ids}))

(* The tasks of a merge: the first row of every task_index.  The rows that  *)
(* go are not looked up in the episodes that refer to them.                 *)
Deduped(tasks) ==
    Kept(tasks, {k \in DOMAIN tasks : \A i \in 1 .. k - 1 : tasks[i].index # tasks[k].index})

(* merge_datasets does not raise.  It also wants all sources to have one    *)
(* robot_type, which info does not have here: a merge that the code refuses *)
(* for that is one more behaviour of the model.                             *)
Mergeable(disk, roots) ==
    /\ roots # <<>>
    /\ \A i \in DOMAIN roots : Readable(disk, roots[i])
    /\ \A i \in DOMAIN roots : disk[roots[i]].info.fps = disk[roots[1]].info.fps

MergeDatasets(disk, roots, out) ==
    LET all == [i \in DOMAIN roots |-> ReadEpisodes(disk[roots[i]])] IN
    Written(disk, out, disk[roots[1]].info, Reindexed(Concat(all)),
            Deduped(Concat([i \in DOMAIN roots |-> disk[roots[i]].tasks])),
            SourceMap(roots, all))
=============================================================================
