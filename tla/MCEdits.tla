------------------------------ MODULE MCEdits ------------------------------
(* Instances of Edits.  Recordings have one or two frames, so that episodes *)
(* of equal and of different length meet; a chunk holds two files.          *)
EXTENDS Edits, TLC

CONSTANTS a, b, c

MCNames == {a, b, c}

Recordings == {<<"a", 0>>, <<"a", 1>>, <<"a", 2>>, <<"b", 0>>, <<"b", 1>>,
               <<"p", 0>>, <<"p", 1>>, <<"p", 2>>}
MCPacked == {<<"p", 0>>, <<"p", 1>>}
MCLength == [o \in Recordings |-> IF o \in {<<"a", 1>>, <<"b", 1>>, <<"p", 0>>} THEN 2
                                  ELSE IF o = <<"b", 0>> THEN 3 ELSE 1]
MCFootage == [o \in Recordings |-> IF o \in MCPacked THEN <<"p", 0>> ELSE o]

(* Task 0 of every dataset is "pick"; task 1 of a is "place".               *)
MCText == [o \in Recordings |-> IF o = <<"a", 2>> THEN "place" ELSE "pick"]
TaskOf(o) == IF o = <<"a", 2>> THEN 1 ELSE 0
(* In the other instance b was recorded as "pour", which is its task 0.     *)
OtherText == [o \in Recordings |-> IF o[1] = "b" THEN "pour" ELSE MCText[o]]

MCGripper(at) ==
    IF at.recording[2] = 0 THEN <<5 + at.frame, <<4, 9, 9>>[at.frame]>>
    ELSE <<<<4, 9, 4>>[at.frame], <<9, 8, 5>>[at.frame]>>

Row(o, episode, from, i) ==
    [index |-> from + i - 1, episode |-> episode, frame |-> i - 1, task |-> TaskOf(o),
     of |-> [recording |-> o, frame |-> i], term |-> FALSE, last |-> FALSE]
EpisodeOf(o, k, from, file) ==
    [episode |-> k, from |-> from, to |-> from + MCLength[o], length |-> MCLength[o],
     task |-> TaskOf(o), file |-> file, of |-> o]
FileOf(rows) == [stamped |-> FALSE, rows |-> rows]
Rows(o, k, from) == [i \in 1 .. MCLength[o] |-> Row(o, k, from, i)]

(* What the converter leaves of recordings os, with one table per chunk.    *)
Converted(os, tasks) ==
    LET start(k) == Total([i \in 1 .. k - 1 |-> MCLength[os[i]]])
        place(k) == <<(k - 1) \div ChunksSize, (k - 1) % ChunksSize>>
        at(f) == CHOOSE k \in DOMAIN os : place(k) = f
        files == {place(k) : k \in DOMAIN os}
        inChunk(x) == SelectSeq([k \in DOMAIN os |-> EpisodeOf(os[k], k - 1, start(k), place(k))],
                                LAMBDA e : e.file[1] = x)
    IN  [info |-> [fps |-> 30, episodes |-> Len(os), frames |-> start(Len(os) + 1), video |-> TRUE],
         tasks |-> tasks,
         tables |-> [t \in {<<f[1], 0>> : f \in files} |-> inChunk(t[1])],
         data |-> [f \in files |-> FileOf(Rows(os[at(f)], at(f) - 1, start(at(f))))],
         video |-> [f \in files |-> os[at(f)]],
         torn |-> {}]

Pick == [index |-> 0, text |-> "pick"]
Place == [index |-> 1, text |-> "place"]
Pour == [index |-> 0, text |-> "pour"]

DataA == Converted(<<<<"a", 0>>, <<"a", 1>>, <<"a", 2>>>>, <<Pick, Place>>)
DataB == Converted(<<<<"b", 0>>, <<"b", 1>>>>, <<Pick>>)
DataBPour == Converted(<<<<"b", 0>>, <<"b", 1>>>>, <<Pour>>)

(* A dataset from elsewhere: its first two episodes share a file, in which  *)
(* the rows of the first are not in the order of their frames.              *)
DataP ==
    LET p0 == <<"p", 0>>  p1 == <<"p", 1>>  p2 == <<"p", 2>> IN
    [info |-> [fps |-> 30, episodes |-> 3, frames |-> 4, video |-> TRUE],
     tasks |-> <<Pick>>,
     tables |-> (<<0, 0>> :> <<EpisodeOf(p0, 0, 0, <<0, 0>>), EpisodeOf(p1, 1, 2, <<0, 0>>),
                              EpisodeOf(p2, 2, 3, <<0, 1>>)>>),
     data |-> (<<0, 0>> :> FileOf(<<Row(p0, 0, 0, 2), Row(p0, 0, 0, 1), Row(p1, 1, 2, 1)>>))
              @@ (<<0, 1>> :> FileOf(Rows(p2, 2, 3))),
     video |-> (<<0, 0>> :> p0) @@ (<<0, 1>> :> p2),
     torn |-> {}]

OtherRobot == [DataB EXCEPT !.info.fps = 50]

Shelf(x, y) == (a :> x) @@ (b :> y) @@ (c :> Absent)
MCShelves == {Shelf(DataA, DataB), Shelf(DataP, DataB), Shelf(DataA, OtherRobot),
              Shelf(Absent, Absent)}
OtherShelves == {Shelf(DataA, DataBPour)}

(* Faults one at a time, and pairs of them that even out in the totals.     *)
Without(files, f) == [g \in DOMAIN files \ {f} |-> files[g]]
Zero == <<0, 0>>
One == <<0, 1>>
FaultyA ==
    {DataA, DataP, [DataA EXCEPT !.info.video = FALSE, !.video = NoFiles],
     [DataA EXCEPT !.data = Without(@, One)],
     [DataA EXCEPT !.data = NoFiles], [DataA EXCEPT !.tables = NoFiles],
     [DataA EXCEPT !.info.frames = 5], [DataA EXCEPT !.info.episodes = 2],
     [DataA EXCEPT !.video = NoFiles], [DataA EXCEPT !.video = Without(@, One)],
     [DataA EXCEPT !.tables[Zero][1].to = 2], [DataA EXCEPT !.tables[Zero][1].from = -1],
     [DataA EXCEPT !.tables[Zero][1].to = 0], [DataA EXCEPT !.tables[Zero][2].from = 0],
     [DataA EXCEPT !.tables[Zero] = <<@[2], @[1]>>],
     [DataA EXCEPT !.tables[Zero][1].episode = 1, !.tables[Zero][2].episode = 0],
     [DataA EXCEPT !.tables[Zero][1].task = 1], [DataA EXCEPT !.tables[<<1, 0>>][1].task = 0],
     [DataA EXCEPT !.tasks = <<Pick>>], [DataA EXCEPT !.tasks = <<Pick, Pick>>],
     [DataA EXCEPT !.tasks[2].index = 2],
     [DataA EXCEPT !.data[One].rows = <<@[2], @[1]>>],
     [DataA EXCEPT !.data[One].rows[1].index = 2],
     [DataA EXCEPT !.data[One].rows[1].episode = 0],
     [DataA EXCEPT !.data[One].rows[2].task = 1],
     [DataA EXCEPT !.data[Zero].rows[1].index = 3, !.data[<<1, 0>>].rows[1].index = 0],
     [DataA EXCEPT !.data[One].rows = <<@[1]>>, !.info.frames = 3]}
    \cup {[DataA EXCEPT !.torn = {part}] : part \in {"info", "tasks", "episodes", "data", "video"}}
MCDrafts == {(a :> d) @@ (b :> Absent) @@ (c :> Absent) : d \in FaultyA}

MCLoaders ==
    {[version |-> <<>>, fromLocal |-> "absent"], [version |-> <<0, 2, 9>>, fromLocal |-> "loads"],
     [version |-> <<0, 3>>, fromLocal |-> "raises"], [version |-> <<0, 10, 1>>, fromLocal |-> "loads"],
     [version |-> <<1>>, fromLocal |-> "absent"], [version |-> <<0, 3, 0, 1>>, fromLocal |-> "loads"]}

MCSamples == {<<0, 0>>, <<10, 10>>, <<5, 8>>, <<9, 4>>}
=============================================================================
