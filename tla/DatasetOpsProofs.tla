--------------------------- MODULE DatasetOpsProofs ---------------------------
(***************************************************************************)
(* The invariants of the jobs over files, for any datasets, requests and   *)
(* numbers of jobs, and through every crash and failure.                   *)
(*                                                                         *)
(* The first part counts the rows of a selection: in the order they are    *)
(* in, every place has one.  The types follow, of every request.  The      *)
(* rest assumes requests that are Separate, as the ones of the runs are:   *)
(* a job that names the output directory of another, or a dataset that is  *)
(* there, can tear what it finds.  It rests on the ownership of a backup   *)
(* (HeldInv), from which follow what an engine function reads and what it  *)
(* has written so far (SoundInv, BuildInv), and where the episodes of a    *)
(* dataset are while it is deleted from (ChosenInv).                       *)
(***************************************************************************)
EXTENDS DatasetOps, FiniteSetTheorems, TLAPS

----------------------------------------------------------------------------
(* The rows of a selection, counted *)

Pairs == (Nat \ {0}) \X (Nat \ {0})

LEMMA UpToIsFinite ==
    ASSUME NEW S, IsFiniteSet(S), NEW x
    PROVE  /\ UpTo(x, S) \subseteq S
           /\ IsFiniteSet(UpTo(x, S))
           /\ Cardinality(UpTo(x, S)) \in Nat
           /\ Cardinality(UpTo(x, S)) <= Cardinality(S)
<1>1. UpTo(x, S) \in SUBSET S
    BY DEF UpTo
<1> QED
    BY <1>1, FS_Subset, FS_CardinalityType

(* Of two pairs one comes first, and it has fewer up to it.                 *)
LEMMA UpToGrows ==
    ASSUME NEW S, S \subseteq Pairs, IsFiniteSet(S), NEW x \in S, NEW y \in S,
           Cardinality(UpTo(x, S)) = Cardinality(UpTo(y, S))
    PROVE  x = y
<1>1. x[1] \in Nat /\ x[2] \in Nat /\ y[1] \in Nat /\ y[2] \in Nat
      /\ x = <<x[1], x[2]>> /\ y = <<y[1], y[2]>>
    BY DEF Pairs
<1>2. x \in UpTo(x, S) /\ y \in UpTo(y, S)
    BY <1>1 DEF UpTo
<1>3. UpTo(x, S) \subseteq UpTo(y, S) \/ UpTo(y, S) \subseteq UpTo(x, S)
    <2>1. CASE x[1] < y[1] \/ (x[1] = y[1] /\ x[2] <= y[2])
        BY <1>1, <2>1 DEF UpTo, Pairs
    <2>2. CASE ~(x[1] < y[1] \/ (x[1] = y[1] /\ x[2] <= y[2]))
        BY <1>1, <2>2 DEF UpTo, Pairs
    <2> QED
        BY <2>1, <2>2
<1>4. UpTo(x, S) = UpTo(y, S)
    BY <1>3, UpToIsFinite, FS_Subset
<1> QED
    BY <1>1, <1>2, <1>4 DEF UpTo

(* So every place up to their number is that of one of them.                *)
LEMMA EveryPlaceIsTaken ==
    ASSUME NEW S, S \subseteq Pairs, IsFiniteSet(S)
    PROVE  /\ Cardinality(S) \in Nat
           /\ \A n \in 1 .. Cardinality(S) : \E x \in S : Cardinality(UpTo(x, S)) = n
           /\ \A x \in S : Cardinality(UpTo(x, S)) \in 1 .. Cardinality(S)
<1> DEFINE f == [x \in S |-> Cardinality(UpTo(x, S))]
           T == 1 .. Cardinality(S)
<1>1. Cardinality(S) \in Nat
    BY FS_CardinalityType
<1>2. \A x \in S : Cardinality(UpTo(x, S)) \in T
    <2> SUFFICES ASSUME NEW x \in S PROVE Cardinality(UpTo(x, S)) \in T
        OBVIOUS
    <2>1. x \in UpTo(x, S)
        BY DEF UpTo, Pairs
    <2>2. Cardinality(UpTo(x, S)) # 0
        BY <2>1, UpToIsFinite, FS_EmptySet
    <2> QED
        BY <1>1, <2>2, UpToIsFinite
<1>3. IsFiniteSet(T) /\ Cardinality(T) = Cardinality(S)
    BY <1>1, FS_Interval
<1>4. f \in Injection(S, T)
    BY <1>2, UpToGrows DEF Injection, IsInjective
<1>5. f \in Surjection(S, T)
    <2> HIDE DEF f, T
    <2> QED
        BY <1>3, <1>4, FS_Injection
<1>6. \A n \in T : \E x \in S : f[x] = n
    BY <1>5 DEF Surjection
<1> QED
    BY <1>1, <1>2, <1>6

----------------------------------------------------------------------------
(* Types *)

DataFiles == UNION {[S -> Episodes] : S \in SUBSET (Nat \ {0})}
Directories == [there : BOOLEAN, meta : Seq(Episodes) \cup {NoMeta}, data : DataFiles]
PlanRows == [dir : Dirs, file : Nat \ {0}, ep : Episodes]

TypedInv ==
    /\ fs \in [Dirs -> Directories]
    /\ status \in [Jobs -> {"none", "queued", "running", "complete", "failed", "lost"}]
    /\ pc \in [Jobs -> {"idle", "start", "rename", "read", "copy",
                        "discard", "undo", "ok", "error"}]
    /\ plan \in [Jobs -> Seq(PlanRows)]
    /\ copied \in [Jobs -> Nat] /\ \A j \in Jobs : copied[j] <= Len(plan[j])
    /\ disturbed \in [Jobs -> BOOLEAN]

(* The directories of a job.                                                *)
LEMMA DirsFit ==
    ASSUME NEW j \in Jobs
    PROVE  /\ Request[j].sources \in Seq(Paths) /\ Request[j].sources # <<>>
           /\ Request[j].output \in Paths /\ Request[j].inPlace \in BOOLEAN
           /\ Output(j) \in Dirs /\ <<Request[j].output, "bak">> \in Dirs
           /\ \A i \in DOMAIN Request[j].sources : Source(j, i) \in Dirs
           /\ Request[j].inPlace => Request[j].op = "delete"
           /\ Request[j].inPlace => Request[j].sources = <<Request[j].output>>
<1>1. /\ Request[j].sources \in Seq(Paths) /\ Request[j].sources # <<>>
      /\ Request[j].output \in Paths /\ Request[j].inPlace \in BOOLEAN
      /\ Request[j].inPlace => Request[j].op = "delete"
      /\ Request[j].inPlace => Request[j].sources = <<Request[j].output>>
    BY DatasetOpsAssumption DEF Requests
<1>2. \A i \in DOMAIN Request[j].sources : Request[j].sources[i] \in Paths
    BY <1>1
<1> QED
    BY <1>1, <1>2 DEF Output, Source, Dirs

LEMMA SomeDirectoriesFit ==
    /\ Absent \in Directories
    /\ [there |-> TRUE, meta |-> NoMeta, data |-> <<>>] \in Directories
    /\ \A eps \in Seq(Episodes) : Dataset(eps) \in Directories
    /\ \A dir \in Directories : Opened(dir) \in Directories /\ Opened(dir).there
<1>1. <<>> \in DataFiles
    <2>1. <<>> \in [1 .. 0 -> Episodes]
        OBVIOUS
    <2>2. 1 .. 0 \in SUBSET (Nat \ {0})
        OBVIOUS
    <2> QED
        BY <2>1, <2>2 DEF DataFiles
<1>2. \A eps \in Seq(Episodes) : eps \in DataFiles
    <2> TAKE eps \in Seq(Episodes)
    <2>1. eps \in [1 .. Len(eps) -> Episodes] /\ Len(eps) \in Nat
        OBVIOUS
    <2>2. 1 .. Len(eps) \in SUBSET (Nat \ {0})
        BY <2>1
    <2> QED
        BY <2>1, <2>2 DEF DataFiles
<1> QED
    BY <1>1, <1>2 DEF Absent, Directories, Dataset, Opened

LEMMA OriginalFits ==
    ASSUME NEW p \in Paths, Original[p] # NoMeta
    PROVE  Original[p] \in Seq(Episodes)
<1>1. Range(Original[p]) \subseteq Episodes
    BY DEF Episodes
<1>2. Original[p] \in Seq(Range(Original[p]))
    BY DatasetOpsAssumption
<1> QED
    BY <1>1, <1>2

LEMMA TypedInit == Init => TypedInv
<1> SUFFICES ASSUME Init PROVE TypedInv
    OBVIOUS
<1>1. \A p \in Paths : Original[p] # NoMeta => Dataset(Original[p]) \in Directories
    BY OriginalFits, SomeDirectoriesFit
<1>2. fs \in [Dirs -> Directories]
    BY <1>1, SomeDirectoriesFit DEF Init, Dirs
<1>3. <<>> \in Seq(PlanRows) /\ Len(<<>>) = 0
    OBVIOUS
<1> QED
    BY <1>2, <1>3 DEF Init, TypedInv

(* The sources can be read.                                                 *)
Readable(j) == \A i \in DOMAIN Request[j].sources : fs[Source(j, i)].meta # NoMeta

LEMMA RowsArePairs ==
    ASSUME TypedInv, NEW j \in Jobs, Readable(j)
    PROVE  /\ Rows(j) \subseteq Pairs /\ IsFiniteSet(Rows(j))
           /\ \A i \in DOMAIN Request[j].sources :
                /\ fs[Source(j, i)].meta \in Seq(Episodes)
                /\ \A k \in DOMAIN fs[Source(j, i)].meta :
                     <<i, k>> \in Rows(j) <=> Keeps(Request[j], k)
           /\ \A x \in Rows(j) : /\ x = <<x[1], x[2]>> /\ x[1] \in DOMAIN Request[j].sources
                                  /\ x[2] \in DOMAIN fs[Source(j, x[1])].meta
<1> DEFINE I == DOMAIN Request[j].sources
           R(i) == {i} \X {k \in DOMAIN fs[Source(j, i)].meta : Keeps(Request[j], k)}
           f == [i \in I |-> R(i)]
           RS == {R(i) : i \in I}
<1>1. \A i \in I : fs[Source(j, i)].meta \in Seq(Episodes)
    BY DirsFit DEF TypedInv, Directories, Readable
<1>2. I = 1 .. Len(Request[j].sources) /\ Len(Request[j].sources) \in Nat
    BY DirsFit
<1>3. IsFiniteSet(RS)
    <2>1. IsFiniteSet(I)
        BY <1>2, FS_Interval
    <2>2. f \in Surjection(I, RS)
        BY DEF Surjection
    <2> HIDE DEF I, f, RS
    <2> QED
        BY <2>1, <2>2, FS_Surjection
<1>4. \A i \in I : IsFiniteSet(R(i))
    <2> SUFFICES ASSUME NEW i \in I PROVE IsFiniteSet(R(i))
        OBVIOUS
    <2> DEFINE D == DOMAIN fs[Source(j, i)].meta
               K == {k \in D : Keeps(Request[j], k)}
    <2>1. D = 1 .. Len(fs[Source(j, i)].meta) /\ Len(fs[Source(j, i)].meta) \in Nat
        BY <1>1
    <2>2. IsFiniteSet(D)
        BY <2>1, FS_Interval
    <2>3. K \in SUBSET D
        OBVIOUS
    <2>4. IsFiniteSet(K) /\ IsFiniteSet({i})
        <3> HIDE DEF K, D
        <3> QED
            BY <2>2, <2>3, FS_Subset, FS_Singleton
    <2>5. IsFiniteSet({i} \X K)
        <3> HIDE DEF K, D
        <3> QED
            BY <2>4, FS_Product
    <2> QED
        BY <2>5
<1>5. Rows(j) = UNION RS
    BY DEF Rows
<1>6. IsFiniteSet(UNION RS)
    <2>1. \A T \in RS : IsFiniteSet(T)
        BY <1>4
    <2> HIDE DEF RS
    <2> QED
        BY <1>3, <2>1, FS_UNION
<1>7. \A x : x \in Rows(j) <=> \E i \in I : \E k \in DOMAIN fs[Source(j, i)].meta :
                                 x = <<i, k>> /\ Keeps(Request[j], k)
    BY DEF Rows
<1>8. \A i \in I : i \in Nat \ {0} /\ DOMAIN fs[Source(j, i)].meta \subseteq Nat \ {0}
    BY <1>1, <1>2
<1>9. Rows(j) \subseteq Pairs
    BY <1>7, <1>8 DEF Pairs
<1> QED
    BY <1>1, <1>5, <1>6, <1>7, <1>9

(* The plan has the rows that are kept, each once, and nothing else.        *)
RowAt(j, i, k) == [dir |-> Source(j, i), file |-> k, ep |-> fs[Source(j, i)].meta[k]]

LEMMA PlanIsTheRows ==
    ASSUME TypedInv, NEW j \in Jobs, Readable(j)
    PROVE  /\ Planned(j) \in Seq(PlanRows)
           /\ \A n \in DOMAIN Planned(j) : \E i \in DOMAIN Request[j].sources :
                \E k \in DOMAIN fs[Source(j, i)].meta :
                    Planned(j)[n] = RowAt(j, i, k) /\ Keeps(Request[j], k)
           /\ \A i \in DOMAIN Request[j].sources : \A k \in DOMAIN fs[Source(j, i)].meta :
                Keeps(Request[j], k) => \E n \in DOMAIN Planned(j) : Planned(j)[n] = RowAt(j, i, k)
<1> DEFINE S == Rows(j)
           at(n) == CHOOSE x \in S : Cardinality(UpTo(x, S)) = n
<1>1. /\ Cardinality(S) \in Nat
      /\ \A n \in 1 .. Cardinality(S) : \E x \in S : Cardinality(UpTo(x, S)) = n
      /\ \A x \in S : Cardinality(UpTo(x, S)) \in 1 .. Cardinality(S)
    BY RowsArePairs, EveryPlaceIsTaken
<1>2. \A n \in 1 .. Cardinality(S) : at(n) \in S /\ Cardinality(UpTo(at(n), S)) = n
    BY <1>1
<1>3. \A x \in S : at(Cardinality(UpTo(x, S))) = x
    <2> SUFFICES ASSUME NEW x \in S PROVE at(Cardinality(UpTo(x, S))) = x
        OBVIOUS
    <2> HIDE DEF S
    <2>1. Cardinality(UpTo(x, S)) \in 1 .. Cardinality(S)
        BY <1>1
    <2>2. PICK n : n = Cardinality(UpTo(x, S))
        OBVIOUS
    <2>3. at(n) \in S /\ Cardinality(UpTo(at(n), S)) = n
        BY <1>2, <2>1, <2>2
    <2>4. S \subseteq Pairs /\ IsFiniteSet(S)
        BY RowsArePairs DEF S
    <2>5. at(n) = x
        <3> HIDE DEF at
        <3> QED
            BY <2>2, <2>3, <2>4, UpToGrows
    <2> QED
        BY <2>2, <2>5
<1>4. Planned(j) = [n \in 1 .. Cardinality(S) |-> RowAt(j, at(n)[1], at(n)[2])]
    BY DEF Planned, RowAt
<1> HIDE DEF at
<1>5. \A x \in S : /\ x = <<x[1], x[2]>> /\ x[1] \in DOMAIN Request[j].sources
                   /\ x[2] \in DOMAIN fs[Source(j, x[1])].meta
                   /\ Keeps(Request[j], x[2])
    BY RowsArePairs
<1>6. \A i \in DOMAIN Request[j].sources : \A k \in DOMAIN fs[Source(j, i)].meta :
         RowAt(j, i, k) \in PlanRows
    <2> SUFFICES ASSUME NEW i \in DOMAIN Request[j].sources,
                        NEW k \in DOMAIN fs[Source(j, i)].meta
                 PROVE  RowAt(j, i, k) \in PlanRows
        OBVIOUS
    <2>1. fs[Source(j, i)].meta \in Seq(Episodes)
        BY RowsArePairs
    <2>2. k \in Nat \ {0} /\ fs[Source(j, i)].meta[k] \in Episodes
        BY <2>1
    <2> QED
        BY <2>2, DirsFit DEF RowAt, PlanRows
<1>7. \A n \in 1 .. Cardinality(S) :
         /\ at(n)[1] \in DOMAIN Request[j].sources
         /\ at(n)[2] \in DOMAIN fs[Source(j, at(n)[1])].meta
         /\ Keeps(Request[j], at(n)[2])
    BY <1>2, <1>5
<1>8. Planned(j) \in [1 .. Cardinality(S) -> PlanRows]
    BY <1>4, <1>6, <1>7
<1>9. Planned(j) \in Seq(PlanRows)
    BY <1>1, <1>8
<1>10. ASSUME NEW i \in DOMAIN Request[j].sources, NEW k \in DOMAIN fs[Source(j, i)].meta,
              Keeps(Request[j], k)
       PROVE  \E n \in DOMAIN Planned(j) : Planned(j)[n] = RowAt(j, i, k)
    <2>1. PICK x : x = <<i, k>>
        OBVIOUS
    <2>2. x \in S
        BY <1>10, <2>1, RowsArePairs
    <2>3. PICK n \in 1 .. Cardinality(S) : at(n) = x
        BY <1>1, <1>3, <2>2
    <2> QED
        BY <1>4, <2>1, <2>3
<1> QED
    BY <1>4, <1>7, <1>9, <1>10

(* What a turn of the copying loop makes of the output.                     *)
LEMMA CopiedFits ==
    ASSUME NEW out \in Directories, NEW k \in Nat \ {0}, NEW e \in Episodes
    PROVE  [out EXCEPT !.data = [f \in DOMAIN @ \cup {k} |-> IF f = k THEN e ELSE out.data[f]]]
             \in Directories
<1>1. PICK S \in SUBSET (Nat \ {0}) : out.data \in [S -> Episodes]
    BY DEF Directories, DataFiles
<1>2. [f \in DOMAIN out.data \cup {k} |-> IF f = k THEN e ELSE out.data[f]]
        \in [S \cup {k} -> Episodes]
    BY <1>1
<1>3. S \cup {k} \in SUBSET (Nat \ {0})
    OBVIOUS
<1>4. [f \in DOMAIN out.data \cup {k} |-> IF f = k THEN e ELSE out.data[f]] \in DataFiles
    BY <1>2, <1>3 DEF DataFiles
<1> QED
    BY <1>4 DEF Directories

LEMMA ListedFits ==
    ASSUME TypedInv, NEW j \in Jobs
    PROVE  [k \in 1 .. Len(plan[j]) |-> plan[j][k].ep] \in Seq(Episodes)
<1>1. plan[j] \in Seq(PlanRows)
    BY DEF TypedInv
<1>2. \A k \in 1 .. Len(plan[j]) : plan[j][k] \in PlanRows
    BY <1>1
<1>3. \A k \in 1 .. Len(plan[j]) : plan[j][k].ep \in Episodes
    BY <1>2 DEF PlanRows
<1> QED
    BY <1>1, <1>3

LEMMA TypedStep == TypedInv /\ [Next]_vars => TypedInv'
<1> SUFFICES ASSUME TypedInv, [Next]_vars PROVE TypedInv'
    OBVIOUS
<1> USE DEF TypedInv
<1>1. ASSUME NEW j \in Jobs, Submit(j) PROVE TypedInv'
    BY <1>1 DEF Submit, Step
<1>2. ASSUME NEW j \in Jobs, Start(j) PROVE TypedInv'
    BY <1>2 DEF Start, Step
<1>3. ASSUME NEW j \in Jobs, Rename(j) PROVE TypedInv'
    <2>1. fs' \in [Dirs -> Directories]
        BY <1>3, DirsFit, SomeDirectoriesFit DEF Rename
    <2> QED
        BY <1>3, <2>1 DEF Rename, Step, Write
<1>4. ASSUME NEW j \in Jobs, ReadSources(j) PROVE TypedInv'
    <2>1. Readable(j)
        BY <1>4 DEF ReadSources, Readable
    <2>2. Planned(j) \in Seq(PlanRows)
        BY <2>1, PlanIsTheRows
    <2>3. Opened(fs[Output(j)]) \in Directories
        BY DirsFit, SomeDirectoriesFit
    <2>4. fs' \in [Dirs -> Directories]
        BY <1>4, <2>3, DirsFit DEF ReadSources
    <2>5. plan' \in [Jobs -> Seq(PlanRows)]
        BY <1>4, <2>2 DEF ReadSources
    <2>6. copied' \in [Jobs -> Nat] /\ \A i \in Jobs : copied'[i] <= Len(plan'[i])
        <3>1. Len(Planned(j)) \in Nat
            BY <2>2
        <3> QED
            BY <1>4, <3>1 DEF ReadSources
    <2> QED
        BY <1>4, <2>4, <2>5, <2>6 DEF ReadSources, Step, Write
<1>5. ASSUME NEW j \in Jobs, CopyFile(j) PROVE TypedInv'
    <2> DEFINE out == Opened(fs[Output(j)])
               row == plan[j][copied[j] + 1]
    <2>1. out \in Directories
        BY DirsFit, SomeDirectoriesFit
    <2>0. copied[j] \in Nat /\ Len(plan[j]) \in Nat /\ copied[j] < Len(plan[j])
        <3>1. plan[j] \in Seq(PlanRows) /\ copied[j] \in Nat
            OBVIOUS
        <3>2. copied[j] < Len(plan[j])
            BY <1>5 DEF CopyFile
        <3> QED
            BY <3>1, <3>2
    <2>2. copied[j] + 1 \in Nat \ {0} /\ copied[j] + 1 \in 1 .. Len(plan[j])
        BY <2>0
    <2>3. row \in PlanRows
        BY <2>2
    <2>4. row.file \in DOMAIN fs[row.dir].data => fs[row.dir].data[row.file] \in Episodes
        BY <2>3 DEF PlanRows, Directories, DataFiles
    <2>5. fs'[Output(j)] \in Directories /\ fs' = [fs EXCEPT ![Output(j)] = fs'[Output(j)]]
        <3>1. CASE fs[row.dir].there /\ row.file \in DOMAIN fs[row.dir].data
            <4> DEFINE e == fs[row.dir].data[row.file]
                       k == copied[j] + 1
                       new == [out EXCEPT !.data = [f \in DOMAIN @ \cup {k} |->
                                                     IF f = k THEN e ELSE out.data[f]]]
            <4>1. new \in Directories
                <5>1. e \in Episodes
                    BY <2>4, <3>1
                <5> HIDE DEF e, k, out
                <5> QED
                    BY <2>1, <2>2, <5>1, CopiedFits DEF k
            <4>2. fs' = [fs EXCEPT ![Output(j)] = new]
                BY <1>5, <3>1 DEF CopyFile
            <4> HIDE DEF new
            <4> QED
                BY <4>1, <4>2, DirsFit
        <3>2. CASE ~(fs[row.dir].there /\ row.file \in DOMAIN fs[row.dir].data)
            <4>1. fs' = [fs EXCEPT ![Output(j)] = out]
                BY <1>5, <3>2 DEF CopyFile
            <4> HIDE DEF out
            <4> QED
                BY <4>1, <2>1, DirsFit
        <3> QED
            BY <3>1, <3>2
    <2>6. fs' \in [Dirs -> Directories]
        BY <2>5, DirsFit
    <2>7. copied' \in [Jobs -> Nat] /\ \A i \in Jobs : copied'[i] <= Len(plan'[i])
        <3>1. copied' = [copied EXCEPT ![j] = copied[j] + 1] /\ plan' = plan
            BY <1>5 DEF CopyFile
        <3>2. \A i \in Jobs : Len(plan[i]) \in Nat
            OBVIOUS
        <3> QED
            BY <2>0, <3>1, <3>2
    <2> QED
        BY <1>5, <2>6, <2>7 DEF CopyFile, Write
<1>6. ASSUME NEW j \in Jobs, WriteMeta(j) PROVE TypedInv'
    <2> DEFINE out == Opened(fs[Output(j)])
               eps == [k \in 1 .. Len(plan[j]) |-> plan[j][k].ep]
    <2>1. out \in Directories
        BY DirsFit, SomeDirectoriesFit
    <2>2. eps \in Seq(Episodes)
        BY ListedFits
    <2>3. [out EXCEPT !.meta = eps] \in Directories
        BY <2>1, <2>2 DEF Directories
    <2>4. fs' \in [Dirs -> Directories]
        BY <1>6, <2>3, DirsFit DEF WriteMeta
    <2> QED
        BY <1>6, <2>4 DEF WriteMeta, Step, Write
<1>7. ASSUME NEW j \in Jobs, DiscardBackup(j) PROVE TypedInv'
    <2>1. fs' \in [Dirs -> Directories]
        BY <1>7, DirsFit, SomeDirectoriesFit DEF DiscardBackup
    <2> QED
        BY <1>7, <2>1 DEF DiscardBackup, Step
<1>8. ASSUME NEW j \in Jobs, Raises(j) PROVE TypedInv'
    BY <1>8 DEF Raises, Step
<1>9. ASSUME NEW j \in Jobs, Undo(j) PROVE TypedInv'
    <2>1. fs' \in [Dirs -> Directories]
        BY <1>9, DirsFit, SomeDirectoriesFit DEF Undo
    <2> QED
        BY <1>9, <2>1 DEF Undo, Step, Write
<1>10. ASSUME NEW j \in Jobs, Report(j) PROVE TypedInv'
    BY <1>10 DEF Report, Step
<1>11. CASE Crash
    BY <1>11 DEF Crash
<1>12. CASE UNCHANGED vars
    BY <1>12 DEF vars
<1> QED
    BY <1>1, <1>2, <1>3, <1>4, <1>5, <1>6, <1>7, <1>8, <1>9, <1>10, <1>11, <1>12
    DEF Next, Worker

LEMMA Typed == Spec => []TypedInv
BY TypedInit, TypedStep, PTL DEF Spec

(* Every job, directory and plan has its type, whatever the requests are:   *)
(* so no job copies more files than its plan has.                           *)
THEOREM Types == Spec => []TypeOK
<1>1. TypedInv => TypeOK
    <2> SUFFICES ASSUME TypedInv PROVE TypeOK
        OBVIOUS
    <2>1. \A d \in Dirs : fs[d] \in Directories
        BY DEF TypedInv
    <2>2. \A d \in Dirs : fs[d].meta # NoMeta => Range(fs[d].meta) \subseteq Episodes
        <3> SUFFICES ASSUME NEW d \in Dirs, fs[d].meta # NoMeta
                     PROVE  Range(fs[d].meta) \subseteq Episodes
            OBVIOUS
        <3>1. fs[d].meta \in Seq(Episodes)
            BY <2>1 DEF Directories
        <3> QED
            BY <3>1 DEF Range
    <2>3. \A d \in Dirs : Range(fs[d].data) \subseteq Episodes
        <3> SUFFICES ASSUME NEW d \in Dirs PROVE Range(fs[d].data) \subseteq Episodes
            OBVIOUS
        <3>1. PICK S \in SUBSET (Nat \ {0}) : fs[d].data \in [S -> Episodes]
            BY <2>1 DEF Directories, DataFiles
        <3> QED
            BY <3>1 DEF Range
    <2>4. \A j \in Jobs : copied[j] \in 0 .. Len(plan[j])
        BY DEF TypedInv
    <2> QED
        BY <2>2, <2>3, <2>4 DEF TypeOK, TypedInv
<1> QED
    BY <1>1, Typed, PTL

----------------------------------------------------------------------------
(* The inductive invariants *)

Backup(j) == <<Request[j].output, "bak">>
Holds(j) == Request[j].inPlace /\ pc[j] \in {"read", "copy", "discard", "undo"}

(* A backup is there while the job that made it works, and it has one such  *)
(* job: a second one finds it there, and fails.                             *)
HeldInv ==
    /\ \A j \in Jobs : pc[j] \in {"rename", "discard", "undo"} => Request[j].inPlace
    /\ \A j \in Jobs : Holds(j) =>
         /\ fs[Backup(j)].there
         /\ \A i \in Jobs : Holds(i) /\ Request[i].output = Request[j].output => i = j

(* A directory that no job names as its output_dir has all its data while   *)
(* it has its metadata.                                                     *)
SoundInv ==
    \A d \in Dirs : /\ \A j \in Jobs : ~Request[j].inPlace => Output(j) # d
                    /\ fs[d].there /\ fs[d].meta # NoMeta
                    => Whole(fs[d])

(* What is to be copied is there, and what was copied is as planned.        *)
Sourced(j) ==
    \A n \in DOMAIN plan[j] :
        /\ \E i \in DOMAIN Request[j].sources : plan[j][n].dir = Source(j, i)
        /\ fs[plan[j][n].dir].there
        /\ plan[j][n].file \in DOMAIN fs[plan[j][n].dir].data
        /\ fs[plan[j][n].dir].data[plan[j][n].file] = plan[j][n].ep

Built(j) ==
    /\ fs[Output(j)].there
    /\ \A n \in 1 .. copied[j] : /\ n \in DOMAIN fs[Output(j)].data
                                 /\ fs[Output(j)].data[n] = plan[j][n].ep

(* The plan of a job that works in place selects from its backup.           *)
Taken(j) ==
    LET taken == fs[Backup(j)].meta IN
    /\ Whole(fs[Backup(j)])
    /\ \A n \in DOMAIN plan[j] : /\ plan[j][n].file \in DOMAIN taken
                                 /\ plan[j][n].file - 1 \notin Request[j].pick
                                 /\ plan[j][n].ep = taken[plan[j][n].file]
    /\ \A k \in DOMAIN taken : k - 1 \notin Request[j].pick =>
         \E n \in DOMAIN plan[j] : plan[j][n].file = k

Listed(j) == [k \in 1 .. Len(plan[j]) |-> plan[j][k].ep]

Builds(j) ==
    /\ pc[j] = "copy" /\ (Request[j].inPlace \/ ~disturbed[j]) => Sourced(j) /\ Built(j)
    /\ Request[j].inPlace /\ pc[j] \in {"copy", "discard"} => Taken(j)
    /\ Request[j].inPlace /\ pc[j] = "read" => ~fs[Output(j)].there
    /\ Request[j].inPlace /\ pc[j] = "copy" => fs[Output(j)].meta = NoMeta
    /\ pc[j] = "discard" => Whole(fs[Output(j)]) /\ fs[Output(j)].meta = Listed(j)
    /\ pc[j] = "ok" /\ ~disturbed[j] => Whole(fs[Output(j)])

BuildInv == \A j \in Jobs : Builds(j)

(* Where a dataset that was there at first is, as one job deletes from it.  *)
Survives(p) ==
    \E d \in {<<p, "own">>, <<p, "bak">>} :
        Whole(fs[d]) /\ Range(Original[p]) \ Chosen(p) \subseteq Range(fs[d].meta)

Deletes(j, p) == Request[j].inPlace /\ Request[j].output = p

Keeping(p) ==
    /\ Survives(p)
    /\ (\A j \in Jobs : ~Deletes(j, p)) => fs[<<p, "own">>] = Dataset(Original[p])
    /\ \A j \in Jobs : Deletes(j, p) =>
         /\ status[j] = "none" \/ pc[j] \in {"start", "rename"} =>
              fs[<<p, "own">>] = Dataset(Original[p])
         /\ Holds(j) => fs[<<p, "bak">>] = Dataset(Original[p])

ChosenInv ==
    /\ \A j \in Jobs : pc[j] # "idle" => status[j] # "none"
    /\ \A p \in Paths : Original[p] # NoMeta => Keeping(p)

(* What a step of one job leaves to another.                                *)
LEMMA OthersStep ==
    ASSUME TypedInv, NEW i \in Jobs, Worker(i), NEW j \in Jobs, j # i
    PROVE  /\ pc'[j] = pc[j] /\ plan'[j] = plan[j] /\ copied'[j] = copied[j]
           /\ status'[j] = status[j]
           /\ disturbed[j] => disturbed'[j]
           /\ \A d \in Dirs : fs'[d] # fs[d] =>
                /\ pc[i] \in {"rename", "read", "copy", "discard", "undo"}
                /\ d = Output(i) \/ (pc[i] \in {"rename", "discard", "undo"} /\ d = Backup(i))
                /\ pc[i] = "rename" => ~fs[Backup(i)].there
                /\ Working(j) /\ d \in Uses(j) =>
                     disturbed'[j] \/ (pc[i] \in {"discard", "undo"} /\ d = Backup(i))
<1> USE DEF TypedInv, Step, Write, Backup
<1>1. CASE Start(i)
    BY <1>1 DEF Start
<1>2. CASE Rename(i)
    BY <1>2, DirsFit DEF Rename, Output
<1>3. CASE ReadSources(i)
    BY <1>3, DirsFit DEF ReadSources, Opened
<1>4. CASE CopyFile(i)
    BY <1>4, DirsFit DEF CopyFile
<1>5. CASE WriteMeta(i)
    BY <1>5, DirsFit DEF WriteMeta
<1>6. CASE DiscardBackup(i)
    BY <1>6, DirsFit DEF DiscardBackup
<1>7. CASE Raises(i)
    BY <1>7 DEF Raises
<1>8. CASE Undo(i)
    BY <1>8, DirsFit DEF Undo, Output
<1>9. CASE Report(i)
    BY <1>9 DEF Report
<1> QED
    BY <1>1, <1>2, <1>3, <1>4, <1>5, <1>6, <1>7, <1>8, <1>9 DEF Worker

LEMMA WritesItsOwn ==
    ASSUME TypedInv, NEW i \in Jobs, Worker(i), NEW d \in Dirs, d # Output(i), d # Backup(i)
    PROVE  fs'[d] = fs[d]
<1> USE DEF TypedInv, Backup
<1>1. CASE Rename(i) \/ DiscardBackup(i) \/ Undo(i)
    BY <1>1 DEF Rename, DiscardBackup, Undo
<1>2. CASE ReadSources(i) \/ CopyFile(i) \/ WriteMeta(i)
    BY <1>2 DEF ReadSources, CopyFile, WriteMeta
<1> QED
    BY <1>1, <1>2 DEF Worker, Start, Raises, Report

(* A job that holds its backup has nobody else write to its directories.    *)
LEMMA HeldStep == TypedInv /\ HeldInv /\ [Next]_vars => HeldInv'
<1> SUFFICES ASSUME TypedInv, HeldInv, [Next]_vars PROVE HeldInv'
    OBVIOUS
<1> USE DEF TypedInv, HeldInv, Holds, Backup
<1>1. ASSUME NEW j \in Jobs, Submit(j) PROVE HeldInv'
    BY <1>1 DEF Submit, Step
<1>2. ASSUME NEW j \in Jobs, Start(j) PROVE HeldInv'
    BY <1>2 DEF Start, Step
<1>0. \A i \in Jobs : /\ <<Request[i].output, "own">> \in Dirs
                      /\ <<Request[i].output, "bak">> \in Dirs
    BY DirsFit DEF Output
<1>3. ASSUME NEW j \in Jobs, Rename(j) PROVE HeldInv'
    <2>1. fs' = [fs EXCEPT ![Backup(j)] = fs[Output(j)], ![Output(j)] = Absent]
          /\ fs[Output(j)].there /\ ~fs[Backup(j)].there /\ pc[j] = "rename"
          /\ pc' = [pc EXCEPT ![j] = "read"]
        BY <1>3 DEF Rename, Step
    <2>2. fs'[Backup(j)].there
        BY <1>0, <2>1 DEF Output
    <2>3. \A i \in Jobs : Request[i].output # Request[j].output => fs'[Backup(i)] = fs[Backup(i)]
        BY <1>0, <2>1 DEF Output
    <2>4. \A i \in Jobs : Holds(i) => Request[i].output # Request[j].output
        BY <2>1
    <2>5. \A i \in Jobs \ {j} : Holds(i)' <=> Holds(i)
        BY <2>1
    <2>6. \A i \in Jobs : pc'[i] \in {"rename", "discard", "undo"} => Request[i].inPlace
        BY <2>1
    <2>7. \A i \in Jobs : Holds(i)' => fs'[Backup(i)].there
        BY <2>2, <2>3, <2>4, <2>5
    <2>8. \A i, k \in Jobs : Holds(i)' /\ Holds(k)' /\ Request[i].output = Request[k].output
                            => i = k
        BY <2>4, <2>5
    <2> QED
        BY <2>6, <2>7, <2>8
<1>4. ASSUME NEW j \in Jobs, ReadSources(j) PROVE HeldInv'
    <2>1. \A i \in Jobs : fs'[Backup(i)] = fs[Backup(i)]
        BY <1>0, <1>4 DEF ReadSources, Output
    <2>2. pc' = [pc EXCEPT ![j] = "copy"] /\ pc[j] = "read"
        BY <1>4 DEF ReadSources, Step
    <2>3. \A i \in Jobs : Holds(i)' <=> Holds(i)
        BY <2>2
    <2>4. \A i \in Jobs : pc'[i] \in {"rename", "discard", "undo"} => pc[i] = pc'[i]
        BY <2>2
    <2> HIDE DEF Holds
    <2> QED
        BY <2>1, <2>3, <2>4
<1>5. ASSUME NEW j \in Jobs, CopyFile(j) PROVE HeldInv'
    <2>1. \A i \in Jobs : fs'[Backup(i)] = fs[Backup(i)]
        BY <1>0, <1>5 DEF CopyFile, Output
    <2>2. pc' = pc
        BY <1>5 DEF CopyFile
    <2> QED
        BY <2>1, <2>2
<1>6. ASSUME NEW j \in Jobs, WriteMeta(j) PROVE HeldInv'
    BY <1>6, DirsFit DEF WriteMeta, Step, Output
<1>7. ASSUME NEW j \in Jobs, DiscardBackup(j) PROVE HeldInv'
    BY <1>7, DirsFit DEF DiscardBackup, Step
<1>8. ASSUME NEW j \in Jobs, Raises(j) PROVE HeldInv'
    BY <1>8, DirsFit DEF Raises, Step
<1>9. ASSUME NEW j \in Jobs, Undo(j) PROVE HeldInv'
    BY <1>9, DirsFit DEF Undo, Step, Output
<1>10. ASSUME NEW j \in Jobs, Report(j) PROVE HeldInv'
    BY <1>10 DEF Report, Step
<1>11. CASE Crash
    BY <1>11 DEF Crash
<1>12. CASE UNCHANGED vars
    BY <1>12 DEF vars
<1> QED
    BY <1>1, <1>2, <1>3, <1>4, <1>5, <1>6, <1>7, <1>8, <1>9, <1>10, <1>11, <1>12
    DEF Next, Worker

(* The directories of a job are apart from what others write as output.     *)
LEMMA SourcesApart ==
    ASSUME Separate, NEW j \in Jobs, NEW i \in DOMAIN Request[j].sources
    PROVE  /\ Source(j, i) # Output(j) /\ Source(j, i) \in Uses(j) /\ Output(j) \in Uses(j)
           /\ Request[j].inPlace => Source(j, i) = Backup(j)
           /\ ~Request[j].inPlace => Source(j, i)[2] = "own"
           /\ \A k \in Jobs : ~Request[k].inPlace => Output(k) # Source(j, i)
<1>1. Request[j].sources[i] \in Range(Request[j].sources)
    BY DEF Range
<1>2. \A k \in Jobs : ~Request[k].inPlace => Request[k].output # Request[j].sources[i]
    BY <1>1 DEF Separate
<1>3. ASSUME Request[j].inPlace PROVE Request[j].sources[i] = Request[j].output
    <2>1. PICK p : p = Request[j].output
        OBVIOUS
    <2>2. Request[j].sources = <<p>>
        BY <1>3, <2>1, DirsFit
    <2>3. DOMAIN <<p>> = {1} /\ <<p>>[1] = p
        OBVIOUS
    <2> QED
        BY <2>1, <2>2, <2>3
<1> QED
    BY <1>2, <1>3 DEF Source, Output, Uses, Backup

(* Nobody else writes where a job in place works.                           *)
LEMMA HeldIsMine ==
    ASSUME Separate, TypedInv, HeldInv, NEW i \in Jobs, Worker(i), NEW j \in Jobs, j # i,
           Holds(j)
    PROVE  fs'[Output(j)] = fs[Output(j)] /\ fs'[Backup(j)] = fs[Backup(j)]
<1>1. ASSUME NEW d \in {Output(j), Backup(j)}, fs'[d] # fs[d] PROVE FALSE
    <2>1. d \in Dirs
        BY <1>1, DirsFit DEF Backup
    <2>2. /\ pc[i] \in {"rename", "read", "copy", "discard", "undo"}
          /\ d = Output(i) \/ d = Backup(i)
          /\ pc[i] = "rename" => ~fs[Backup(i)].there
        BY <1>1, <2>1, OthersStep
    <2>3. Request[i].output = Request[j].output
        BY <1>1, <2>2 DEF Output, Backup
    <2>4. Request[i].inPlace
        <3>1. Request[j].sources = <<Request[j].output>>
            BY DirsFit DEF Holds
        <3>2. Request[j].output \in Range(Request[j].sources)
            BY <3>1 DEF Range
        <3> QED
            BY <2>3, <3>2 DEF Separate
    <2>5. fs[Backup(j)].there /\ ~Holds(i)
        BY <2>3 DEF HeldInv
    <2> QED
        BY <2>2, <2>3, <2>4, <2>5 DEF Holds, Backup
<1> QED
    BY <1>1

LEMMA OthersBuild ==
    ASSUME Separate, TypedInv, HeldInv, NEW i \in Jobs, Worker(i), NEW j \in Jobs, j # i,
           Builds(j)
    PROVE  Builds(j)'
<1>1. /\ pc'[j] = pc[j] /\ plan'[j] = plan[j] /\ copied'[j] = copied[j]
      /\ disturbed[j] => disturbed'[j]
    BY OthersStep
<1>2. ASSUME Request[j].inPlace, pc[j] \in {"read", "copy", "discard"} PROVE Builds(j)'
    <2>1. fs'[Output(j)] = fs[Output(j)] /\ fs'[Backup(j)] = fs[Backup(j)]
        BY <1>2, HeldIsMine DEF Holds
    <2>2. \A k \in DOMAIN Request[j].sources : Source(j, k) = Backup(j)
        BY <1>2, SourcesApart
    <2>3. Sourced(j) => Sourced(j)'
        BY <1>1, <2>1, <2>2 DEF Sourced
    <2>4. Built(j) => Built(j)'
        BY <1>1, <2>1 DEF Built
    <2>5. Taken(j) => Taken(j)'
        BY <1>1, <2>1 DEF Taken
    <2>6. Listed(j)' = Listed(j)
        BY <1>1 DEF Listed
    <2> QED
        BY <1>1, <1>2, <2>1, <2>3, <2>4, <2>5, <2>6 DEF Builds
<1>3. ASSUME ~disturbed'[j], pc[j] = "ok" \/ (~Request[j].inPlace /\ pc[j] = "copy"),
             NEW d \in Uses(j), d[2] = "own"
      PROVE  fs'[d] = fs[d]
    <2>1. d \in Dirs
        BY DirsFit DEF Uses
    <2>2. Working(j) /\ d # Backup(i)
        BY <1>3 DEF Working, Backup
    <2> QED
        BY <1>3, <2>1, <2>2, OthersStep
<1>4. ASSUME ~Request[j].inPlace, pc[j] = "copy", ~disturbed'[j] PROVE Builds(j)'
    <2>1. fs'[Output(j)] = fs[Output(j)]
        BY <1>3, <1>4 DEF Uses, Output
    <2>2. \A k \in DOMAIN Request[j].sources : fs'[Source(j, k)] = fs[Source(j, k)]
        BY <1>3, <1>4, SourcesApart
    <2>3. Sourced(j) => Sourced(j)'
        BY <1>1, <2>2 DEF Sourced
    <2>4. Built(j) => Built(j)'
        BY <1>1, <2>1 DEF Built
    <2> QED
        BY <1>1, <1>4, <2>3, <2>4 DEF Builds
<1>5. ASSUME pc[j] = "ok", ~disturbed'[j] PROVE Builds(j)'
    <2>1. fs'[Output(j)] = fs[Output(j)]
        BY <1>3, <1>5 DEF Uses, Output
    <2> QED
        BY <1>1, <1>5, <2>1 DEF Builds
<1>6. pc[j] = "discard" => Request[j].inPlace
    BY DEF HeldInv
<1> QED
    BY <1>1, <1>2, <1>4, <1>5, <1>6 DEF Builds

(* What a job copies next is there, and it copies it to where the plan says.*)
LEMMA CopyBuilds ==
    ASSUME Separate, TypedInv, BuildInv, NEW j \in Jobs, CopyFile(j)
    PROVE  Builds(j)'
<1> DEFINE k == copied[j] + 1
           row == plan[j][k]
<1>1. /\ pc[j] = "copy" /\ pc' = pc /\ plan' = plan
      /\ copied' = [copied EXCEPT ![j] = k] /\ disturbed'[j] = disturbed[j]
      /\ k \in 1 .. Len(plan[j])
    <2>1. plan[j] \in Seq(PlanRows) /\ copied[j] \in Nat
        BY DEF TypedInv
    <2>2. copied[j] < Len(plan[j])
        BY DEF CopyFile
    <2>3. k \in 1 .. Len(plan[j])
        BY <2>1, <2>2
    <2>4. disturbed'[j] = disturbed[j]
        BY DEF CopyFile, TypedInv, Write
    <2> QED
        BY <2>3, <2>4 DEF CopyFile
<1>2. /\ DOMAIN plan[j] = 1 .. Len(plan[j]) /\ copied[j] \in Nat
    BY DEF TypedInv
<1>3. \A i \in DOMAIN Request[j].sources :
         Source(j, i) \in Dirs /\ fs'[Source(j, i)] = fs[Source(j, i)]
    BY DirsFit, SourcesApart DEF CopyFile, TypedInv
<1>4. ASSUME Sourced(j), Built(j) PROVE Sourced(j)' /\ Built(j)'
    <2>1. Sourced(j)'
        BY <1>1, <1>3, <1>4 DEF Sourced
    <2>2. fs[row.dir].there /\ row.file \in DOMAIN fs[row.dir].data
          /\ fs[row.dir].data[row.file] = row.ep
        BY <1>1, <1>2, <1>4 DEF Sourced
    <2>3. Opened(fs[Output(j)]) = fs[Output(j)]
        BY <1>4 DEF Built, Opened
    <2>4. PICK new : new = [f \in DOMAIN fs[Output(j)].data \cup {k} |->
                             IF f = k THEN row.ep ELSE fs[Output(j)].data[f]]
        OBVIOUS
    <2>5. fs' = [fs EXCEPT ![Output(j)] = [fs[Output(j)] EXCEPT !.data = new]]
        BY <2>2, <2>3, <2>4 DEF CopyFile
    <2>6. fs'[Output(j)].there /\ fs'[Output(j)].data = new
        <3>1. fs[Output(j)] \in Directories
            BY DirsFit DEF TypedInv
        <3> QED
            BY <1>4, <2>5, <3>1, DirsFit DEF TypedInv, Directories, Built
    <2>7. \A n \in 1 .. k : n \in DOMAIN new /\ new[n] = plan[j][n].ep
        <3> TAKE n \in 1 .. k
        <3>1. CASE n = k
            BY <2>4, <3>1
        <3>2. CASE n # k
            <4>1. n \in 1 .. copied[j]
                BY <1>2, <3>2
            <4> QED
                BY <1>4, <2>4, <3>2, <4>1 DEF Built
        <3> QED
            BY <3>1, <3>2
    <2>8. copied'[j] = k
        BY <1>1 DEF TypedInv
    <2> QED
        BY <1>1, <2>1, <2>6, <2>7, <2>8 DEF Built
<1>5. ASSUME Request[j].inPlace PROVE Taken(j)' /\ fs'[Output(j)].meta = NoMeta
    <2>1. fs'[Backup(j)] = fs[Backup(j)]
        BY <1>5, DirsFit DEF CopyFile, TypedInv, Backup, Output
    <2>2. Taken(j) /\ fs[Output(j)].meta = NoMeta
        BY <1>1, <1>5 DEF BuildInv, Builds
    <2>3. Taken(j)'
        BY <1>1, <2>1, <2>2 DEF Taken
    <2>4. fs'[Output(j)].meta = fs[Output(j)].meta
        <3>1. fs[Output(j)] \in Directories
            BY DirsFit DEF TypedInv
        <3>2. Opened(fs[Output(j)]).meta = NoMeta
            BY <2>2 DEF Opened
        <3>3. Opened(fs[Output(j)]) \in Directories
            BY <3>1, SomeDirectoriesFit
        <3> QED
            BY <2>2, <3>2, <3>3, DirsFit DEF CopyFile, TypedInv, Directories
    <2> QED
        BY <2>2, <2>3, <2>4
<1> QED
    BY <1>1, <1>4, <1>5 DEF BuildInv, Builds

(* What a job reads is whole, and its plan is what it is to keep of it.     *)
LEMMA ReadBuilds ==
    ASSUME Separate, TypedInv, SoundInv, BuildInv, NEW j \in Jobs, ReadSources(j)
    PROVE  Builds(j)'
<1>1. /\ pc[j] = "read" /\ pc'[j] = "copy" /\ plan'[j] = Planned(j) /\ copied'[j] = 0
      /\ fs' = [fs EXCEPT ![Output(j)] = Opened(@)] /\ Readable(j)
      /\ \A i \in DOMAIN Request[j].sources : fs[Source(j, i)].there
    BY DEF ReadSources, TypedInv, Step, Readable
<1>2. ASSUME NEW i \in DOMAIN Request[j].sources
      PROVE  /\ fs'[Source(j, i)] = fs[Source(j, i)] /\ Whole(fs[Source(j, i)])
             /\ Source(j, i) \in Dirs
    <2>1. Source(j, i) \in Dirs /\ Source(j, i) # Output(j)
        BY DirsFit, SourcesApart
    <2>2. \A k \in Jobs : ~Request[k].inPlace => Output(k) # Source(j, i)
        BY SourcesApart
    <2>3. Whole(fs[Source(j, i)])
        BY <1>1, <2>1, <2>2 DEF SoundInv, Readable
    <2> QED
        BY <1>1, <2>1, <2>3 DEF TypedInv
<1>3. Sourced(j)'
    <2> SUFFICES ASSUME NEW n \in DOMAIN Planned(j)
                 PROVE  LET row == Planned(j)[n] IN
                        /\ \E i \in DOMAIN Request[j].sources : row.dir = Source(j, i)
                        /\ fs'[row.dir].there /\ row.file \in DOMAIN fs'[row.dir].data
                        /\ fs'[row.dir].data[row.file] = row.ep
        BY <1>1 DEF Sourced
    <2>1. PICK i \in DOMAIN Request[j].sources :
            \E k \in DOMAIN fs[Source(j, i)].meta : Planned(j)[n] = RowAt(j, i, k)
        BY <1>1, PlanIsTheRows
    <2>2. PICK k \in DOMAIN fs[Source(j, i)].meta : Planned(j)[n] = RowAt(j, i, k)
        BY <2>1
    <2> QED
        BY <1>2, <2>2 DEF RowAt, Whole
<1>4. Built(j)'
    <2>1. fs'[Output(j)] = Opened(fs[Output(j)])
        BY <1>1, DirsFit DEF TypedInv
    <2>2. fs'[Output(j)].there
        BY <2>1, DirsFit, SomeDirectoriesFit DEF TypedInv
    <2> QED
        BY <1>1, <2>2 DEF Built
<1>5. ASSUME Request[j].inPlace PROVE Taken(j)' /\ fs'[Output(j)].meta = NoMeta
    <2>1. 1 \in DOMAIN Request[j].sources
        <3>1. Request[j].sources \in Seq(Paths) /\ Request[j].sources # <<>>
            BY DirsFit
        <3> QED
            BY <3>1
    <2>2. \A i \in DOMAIN Request[j].sources : Source(j, i) = Backup(j)
        BY <1>5, SourcesApart
    <2>3. fs'[Backup(j)] = fs[Backup(j)] /\ Whole(fs[Backup(j)])
        BY <1>2, <2>1, <2>2
    <2>4. Request[j].op = "delete"
        BY <1>5, DirsFit
    <2>5. \A n \in DOMAIN Planned(j) : \E k \in DOMAIN fs[Backup(j)].meta :
             /\ Planned(j)[n].file = k /\ Planned(j)[n].ep = fs[Backup(j)].meta[k]
             /\ k - 1 \notin Request[j].pick
        BY <1>1, <2>2, <2>4, PlanIsTheRows DEF RowAt, Keeps
    <2>6. \A k \in DOMAIN fs[Backup(j)].meta : k - 1 \notin Request[j].pick =>
             \E n \in DOMAIN Planned(j) : Planned(j)[n].file = k
        <3> TAKE k \in DOMAIN fs[Backup(j)].meta
        <3> HAVE k - 1 \notin Request[j].pick
        <3>1. Source(j, 1) = Backup(j) /\ Keeps(Request[j], k)
            BY <2>1, <2>2, <2>4 DEF Keeps
        <3>2. \E n \in DOMAIN Planned(j) : Planned(j)[n] = RowAt(j, 1, k)
            BY <1>1, <2>1, <3>1, PlanIsTheRows
        <3> QED
            BY <3>2 DEF RowAt
    <2>7. Taken(j)'
        BY <1>1, <2>3, <2>5, <2>6 DEF Taken
    <2>8. ~fs[Output(j)].there
        BY <1>1, <1>5 DEF BuildInv, Builds
    <2> QED
        BY <1>1, <2>7, <2>8, DirsFit DEF Opened, TypedInv
<1> QED
    BY <1>1, <1>3, <1>4, <1>5 DEF Builds

(* The metadata that a job writes last lists what it has copied.            *)
LEMMA MetaBuilds ==
    ASSUME Separate, TypedInv, BuildInv, NEW j \in Jobs, WriteMeta(j)
    PROVE  /\ Request[j].inPlace \/ ~disturbed[j] => Whole(fs'[Output(j)])
           /\ Builds(j)'
<1>1. /\ pc[j] = "copy" /\ copied[j] = Len(plan[j])
      /\ pc'[j] = IF Request[j].inPlace THEN "discard" ELSE "ok"
      /\ plan' = plan /\ disturbed'[j] = disturbed[j]
      /\ fs' = [fs EXCEPT ![Output(j)] = [Opened(@) EXCEPT !.meta = Listed(j)]]
    BY DEF WriteMeta, TypedInv, Step, Write, Listed
<1>2. Listed(j) \in Seq(Episodes) /\ Listed(j) # NoMeta
    BY ListedFits, DatasetOpsAssumption DEF Listed
<1>3. ASSUME Request[j].inPlace \/ ~disturbed[j]
      PROVE  Whole(fs'[Output(j)]) /\ fs'[Output(j)].meta = Listed(j)
    <2>1. Built(j)
        BY <1>1, <1>3 DEF BuildInv, Builds
    <2>2. fs[Output(j)] \in Directories /\ Opened(fs[Output(j)]) = fs[Output(j)]
        BY <2>1, DirsFit DEF TypedInv, Built, Opened
    <2>3. /\ fs'[Output(j)].meta = Listed(j) /\ fs'[Output(j)].there
          /\ fs'[Output(j)].data = fs[Output(j)].data
        BY <1>1, <2>1, <2>2, DirsFit DEF TypedInv, Directories, Built
    <2>4. \A n \in DOMAIN Listed(j) :
             n \in DOMAIN fs[Output(j)].data /\ fs[Output(j)].data[n] = Listed(j)[n]
        BY <1>1, <2>1 DEF Listed, Built
    <2> QED
        BY <1>2, <2>3, <2>4 DEF Whole
<1>4. ASSUME Request[j].inPlace PROVE Taken(j)'
    <2>1. fs'[Backup(j)] = fs[Backup(j)]
        BY <1>1, DirsFit DEF TypedInv, Backup, Output
    <2>2. Taken(j)
        BY <1>1, <1>4 DEF BuildInv, Builds
    <2> QED
        BY <1>1, <2>1, <2>2 DEF Taken
<1>5. Listed(j)' = Listed(j)
    BY <1>1 DEF Listed
<1> QED
    BY <1>1, <1>3, <1>4, <1>5 DEF Builds

LEMMA BuildStep ==
    ASSUME Separate, TypedInv, HeldInv, SoundInv, BuildInv, [Next]_vars
    PROVE  BuildInv'
<1> USE DEF BuildInv
<1>1. ASSUME NEW i \in Jobs, Worker(i), NEW j \in Jobs, j # i PROVE Builds(j)'
    BY <1>1, OthersBuild
<1>2. ASSUME NEW i \in Jobs, Worker(i) PROVE Builds(i)'
    <2>1. CASE Start(i)
        BY <2>1 DEF Start, Step, TypedInv, Builds
    <2>2. CASE Rename(i)
        <3>1. ~fs'[Output(i)].there
            BY <2>2, DirsFit DEF Rename, TypedInv, Output, Absent
        <3>2. pc'[i] = "read"
            BY <2>2 DEF Rename, Step, TypedInv
        <3> QED
            BY <3>1, <3>2 DEF Builds
    <2>3. CASE ReadSources(i)
        BY <2>3, ReadBuilds
    <2>4. CASE CopyFile(i)
        BY <2>4, CopyBuilds
    <2>5. CASE WriteMeta(i)
        BY <2>5, MetaBuilds
    <2>6. CASE DiscardBackup(i)
        <3>1. pc[i] = "discard" /\ pc'[i] = "ok"
            BY <2>6 DEF DiscardBackup, Step, TypedInv
        <3>2. fs'[Output(i)] = fs[Output(i)]
            BY <2>6, DirsFit DEF DiscardBackup, TypedInv, Output
        <3> QED
            BY <3>1, <3>2 DEF Builds
    <2>7. CASE Raises(i)
        BY <2>7 DEF Raises, Step, TypedInv, Builds
    <2>8. CASE Undo(i)
        BY <2>8 DEF Undo, Step, TypedInv, Builds
    <2>9. CASE Report(i)
        BY <2>9 DEF Report, Step, TypedInv, Builds
    <2> QED
        BY <1>2, <2>1, <2>2, <2>3, <2>4, <2>5, <2>6, <2>7, <2>8, <2>9 DEF Worker
<1>3. ASSUME NEW j \in Jobs, UNCHANGED <<fs, plan, copied, disturbed>>,
             pc'[j] = pc[j] \/ pc'[j] \in {"start", "idle"}
      PROVE  Builds(j)'
    <2>1. (Sourced(j) => Sourced(j)') /\ (Built(j) => Built(j)') /\ (Taken(j) => Taken(j)')
          /\ Listed(j)' = Listed(j)
        BY <1>3 DEF Sourced, Built, Taken, Listed
    <2>2. Builds(j)
        OBVIOUS
    <2> QED
        BY <1>3, <2>1, <2>2 DEF Builds
<1>4. ASSUME NEW i \in Jobs, Submit(i) PROVE BuildInv'
    BY <1>3, <1>4 DEF Submit, Step, TypedInv
<1>5. CASE Crash
    BY <1>3, <1>5 DEF Crash
<1>6. CASE UNCHANGED vars
    BY <1>3, <1>6 DEF vars
<1> QED
    BY <1>1, <1>2, <1>4, <1>5, <1>6 DEF Next

LEMMA SoundStep ==
    ASSUME Separate, TypedInv, HeldInv, SoundInv, BuildInv, [Next]_vars
    PROVE  SoundInv'
<1> SUFFICES ASSUME NEW d \in Dirs, \A j \in Jobs : ~Request[j].inPlace => Output(j) # d,
                    fs'[d].there, fs'[d].meta # NoMeta
             PROVE  Whole(fs'[d])
    BY DEF SoundInv
<1>1. CASE fs'[d] = fs[d]
    BY <1>1 DEF SoundInv
<1>2. ASSUME NEW i \in Jobs, Worker(i), fs'[d] # fs[d] PROVE Whole(fs'[d])
    <2> USE DEF TypedInv
    <2>0. Output(i) \in Dirs /\ Backup(i) \in Dirs
        BY DirsFit DEF Backup
    <2>1. CASE Rename(i)
        <3>1. Request[i].inPlace
            BY <2>1 DEF HeldInv, Rename
        <3>2. \A j \in Jobs : ~Request[j].inPlace => Output(j) # Output(i)
            <4>1. Request[i].sources = <<Request[i].output>>
                BY <3>1, DirsFit
            <4>2. Request[i].output \in Range(Request[i].sources)
                BY <4>1 DEF Range
            <4> QED
                BY <4>2 DEF Separate, Output
        <3>3. fs' = [fs EXCEPT ![Backup(i)] = fs[Output(i)], ![Output(i)] = Absent]
            BY <2>1 DEF Rename, Backup
        <3>4. fs'[Output(i)] = Absent
            BY <2>0, <3>3
        <3>5. d = Backup(i) /\ fs'[d] = fs[Output(i)]
            BY <1>2, <2>0, <3>3, <3>4 DEF Absent
        <3> QED
            BY <2>0, <3>2, <3>5 DEF SoundInv
    <2>2. CASE ReadSources(i)
        <3>1. d = Output(i) /\ fs'[d] = Opened(fs[d])
            BY <1>2, <2>0, <2>2 DEF ReadSources
        <3> QED
            BY <1>2, <3>1 DEF Opened
    <2>3. CASE CopyFile(i)
        <3>1. d = Output(i)
            BY <1>2, <2>0, <2>3 DEF CopyFile
        <3>2. Request[i].inPlace /\ pc'[i] = "copy"
            BY <2>3, <3>1 DEF CopyFile
        <3>3. Builds(i)'
            BY <2>3, CopyBuilds
        <3> QED
            BY <3>1, <3>2, <3>3 DEF Builds
    <2>4. CASE WriteMeta(i)
        <3>1. d = Output(i)
            BY <1>2, <2>0, <2>4 DEF WriteMeta
        <3>2. Request[i].inPlace
            BY <3>1
        <3> QED
            BY <2>4, <3>1, <3>2, MetaBuilds
    <2>5. CASE DiscardBackup(i)
        BY <1>2, <2>0, <2>5 DEF DiscardBackup, Backup, Absent
    <2>6. CASE Undo(i)
        <3>1. fs' = [fs EXCEPT ![Output(i)] = fs[Backup(i)], ![Backup(i)] = Absent]
            BY <2>6 DEF Undo, Backup
        <3>2. fs'[Backup(i)] = Absent
            BY <2>0, <3>1
        <3>3. d = Output(i) /\ fs'[d] = fs[Backup(i)]
            BY <1>2, <2>0, <3>1, <3>2 DEF Absent
        <3>4. \A j \in Jobs : Output(j) # Backup(i)
            BY DEF Output, Backup
        <3> QED
            BY <2>0, <3>3, <3>4 DEF SoundInv
    <2> QED
        BY <1>2, <2>1, <2>2, <2>3, <2>4, <2>5, <2>6
        DEF Worker, Start, Raises, Report
<1> QED
    BY <1>1, <1>2 DEF Next, Submit, Crash, vars

LEMMA WorkInit == Init => HeldInv /\ SoundInv /\ BuildInv
<1> SUFFICES ASSUME Init PROVE HeldInv /\ SoundInv /\ BuildInv
    OBVIOUS
<1>1. SoundInv
    <2> SUFFICES ASSUME NEW d \in Dirs, fs[d].there PROVE Whole(fs[d])
        BY DEF SoundInv
    <2>1. fs[d] = Dataset(Original[d[1]]) /\ Original[d[1]] # NoMeta
        BY DEF Init, Absent
    <2> QED
        BY <2>1 DEF Dataset, Whole
<1> QED
    BY <1>1 DEF Init, HeldInv, Holds, BuildInv, Builds

WorkInv == TypedInv /\ HeldInv /\ SoundInv /\ BuildInv

(* Of requests that do not write into each other's datasets: a backup has   *)
(* one job, which nobody disturbs; what has its metadata has its data; and  *)
(* what is copied is as planned, unless somebody wrote there meanwhile.     *)
THEOREM WorkInvariance == ASSUME Separate PROVE Spec => []WorkInv
<1>1. Init => WorkInv
    BY TypedInit, WorkInit DEF WorkInv
<1>2. WorkInv /\ [Next]_vars => WorkInv'
    BY TypedStep, HeldStep, SoundStep, BuildStep DEF WorkInv
<1> QED
    BY <1>1, <1>2, PTL DEF Spec

(* A delete in place builds exactly what it is asked for, from the very     *)
(* dataset it took away: the engine's function reads the backup that        *)
(* _run_with_backup has made, which no other job reads or writes.           *)
THEOREM InPlaceIsExact == ASSUME Separate PROVE Spec => []InPlaceBuildIsExact
<1>1. WorkInv => InPlaceBuildIsExact
    <2> SUFFICES ASSUME WorkInv, NEW j \in Jobs, pc[j] = "discard"
                 PROVE  /\ Whole(fs[Output(j)])
                        /\ LET taken == fs[<<Request[j].output, "bak">>].meta IN
                           /\ fs[Output(j)].meta
                                = [k \in DOMAIN plan[j] |-> taken[plan[j][k].file]]
                           /\ {plan[j][k].file : k \in DOMAIN plan[j]}
                                = {i \in DOMAIN taken : i - 1 \notin Request[j].pick}
        BY DEF InPlaceBuildIsExact
    <2>1. Request[j].inPlace
        BY DEF WorkInv, HeldInv
    <2>2. Taken(j) /\ Whole(fs[Output(j)]) /\ fs[Output(j)].meta = Listed(j)
        BY <2>1 DEF WorkInv, BuildInv, Builds
    <2>3. DOMAIN plan[j] = 1 .. Len(plan[j])
        BY DEF WorkInv, TypedInv
    <2>4. Listed(j) = [k \in DOMAIN plan[j] |-> fs[Backup(j)].meta[plan[j][k].file]]
        BY <2>2, <2>3 DEF Listed, Taken
    <2>5. {plan[j][k].file : k \in DOMAIN plan[j]}
            = {i \in DOMAIN fs[Backup(j)].meta : i - 1 \notin Request[j].pick}
        BY <2>2 DEF Taken
    <2> QED
        BY <2>2, <2>4, <2>5 DEF Backup
<1> QED
    BY <1>1, WorkInvariance, PTL

(* A job whose directories nobody else wrote reports complete with a whole  *)
(* output: write_dataset skips no file, and overwrites what was left there. *)
THEOREM UndisturbedWhole == ASSUME Separate PROVE Spec => []UndisturbedIsWhole
<1>1. WorkInv => UndisturbedIsWhole
    BY DEF WorkInv, BuildInv, Builds, UndisturbedIsWhole
<1> QED
    BY <1>1, WorkInvariance, PTL

----------------------------------------------------------------------------
(* Only what is chosen goes *)

LEMMA OriginalIsWhole ==
    ASSUME NEW p \in Paths, Original[p] # NoMeta, NEW d \in {<<p, "own">>, <<p, "bak">>},
           fs[d] = Dataset(Original[p])
    PROVE  Survives(p)
BY DEF Survives, Dataset, Whole

LEMMA ChosenInit == Init => ChosenInv
<1> SUFFICES ASSUME Init PROVE ChosenInv
    OBVIOUS
<1>1. \A p \in Paths : Original[p] # NoMeta => fs[<<p, "own">>] = Dataset(Original[p])
    BY DEF Init, Dirs
<1>2. \A p \in Paths : Original[p] # NoMeta => Survives(p)
    BY <1>1, OriginalIsWhole
<1> QED
    BY <1>1, <1>2 DEF ChosenInv, Keeping, Init, Holds

(* What was chosen stays chosen.                                            *)
LEMMA ChosenGrows ==
    ASSUME TypedInv, [Next]_vars, NEW p \in Paths
    PROVE  Chosen(p) \subseteq Chosen(p)'
<1>1. \A j \in Jobs : status[j] # "none" => status'[j] # "none"
    BY DEF TypedInv, Next, Submit, Worker, Start, Rename, ReadSources, CopyFile, WriteMeta,
           DiscardBackup, Raises, Undo, Report, Crash, vars
<1> QED
    BY <1>1 DEF Chosen

LEMMA StillSurvives ==
    ASSUME TypedInv, [Next]_vars, NEW p \in Paths, Survives(p),
           fs'[<<p, "own">>] = fs[<<p, "own">>], fs'[<<p, "bak">>] = fs[<<p, "bak">>]
    PROVE  Survives(p)'
BY ChosenGrows DEF Survives

LEMMA StillKeeps ==
    ASSUME TypedInv, [Next]_vars, NEW p \in Paths, Keeping(p),
           fs'[<<p, "own">>] = fs[<<p, "own">>], fs'[<<p, "bak">>] = fs[<<p, "bak">>],
           \A j \in Jobs : Deletes(j, p) =>
             /\ status'[j] = "none" \/ pc'[j] \in {"start", "rename"} =>
                  status[j] = "none" \/ pc[j] \in {"start", "rename"}
             /\ Holds(j)' => Holds(j)
    PROVE  Keeping(p)'
<1>1. Survives(p)'
    BY StillSurvives DEF Keeping
<1> QED
    BY <1>1 DEF Keeping, Deletes

(* The one job that deletes from a dataset goes through its backup.         *)
LEMMA DeleterKeeps ==
    ASSUME Separate, OneDelete, WorkInv, NEW p \in Paths, Original[p] # NoMeta, Keeping(p),
           ChosenInv, NEW i \in Jobs, Deletes(i, p), Worker(i)
    PROVE  Keeping(p)'
<1> USE DEF Deletes
<1>1. /\ <<p, "own">> = Output(i) /\ <<p, "bak">> = Backup(i)
      /\ Output(i) \in Dirs /\ Backup(i) \in Dirs /\ Output(i) # Backup(i)
    BY DirsFit DEF Output, Backup
<1>2. \A j \in Jobs : Deletes(j, p) => j = i
    BY DEF OneDelete
<1>3. TypedInv /\ HeldInv /\ BuildInv /\ [Next]_vars
    BY DEF WorkInv, Next
<1>4. ASSUME Survives(p)',
             status'[i] = "none" \/ pc'[i] \in {"start", "rename"} =>
               fs'[<<p, "own">>] = Dataset(Original[p]),
             Holds(i)' => fs'[<<p, "bak">>] = Dataset(Original[p])
      PROVE  Keeping(p)'
    BY <1>2, <1>4 DEF Keeping
<1>5. status[i] # "none"
    BY DEF ChosenInv, Worker, Start, Rename, ReadSources, CopyFile, WriteMeta,
           DiscardBackup, Raises, Undo, Report
<1> USE DEF TypedInv, Step
<1>6. CASE Start(i)
    <2>1. fs' = fs /\ pc'[i] = "rename" /\ pc[i] = "start"
        BY <1>3, <1>6 DEF Start
    <2>2. fs[<<p, "own">>] = Dataset(Original[p])
        BY <2>1 DEF Keeping
    <2>3. Survives(p)'
        BY <1>3, <2>1, StillSurvives DEF Keeping
    <2> QED
        BY <1>4, <2>1, <2>2, <2>3 DEF Holds
<1>7. CASE Rename(i)
    <2>1. /\ fs' = [fs EXCEPT ![Backup(i)] = fs[Output(i)], ![Output(i)] = Absent]
          /\ pc[i] = "rename" /\ pc'[i] = "read" /\ status' = status
        BY <1>3, <1>7 DEF Rename, Backup
    <2>2. fs'[<<p, "bak">>] = Dataset(Original[p])
        BY <1>1, <1>3, <2>1 DEF Keeping
    <2>3. Survives(p)'
        BY <2>2 DEF Survives, Dataset, Whole
    <2> QED
        BY <1>4, <1>5, <2>1, <2>2, <2>3
<1>8. CASE ReadSources(i) \/ CopyFile(i) \/ WriteMeta(i)
    <2>1. /\ fs'[Backup(i)] = fs[Backup(i)] /\ status' = status
          /\ Holds(i) /\ pc'[i] \notin {"start", "rename"}
        BY <1>1, <1>3, <1>8 DEF ReadSources, CopyFile, WriteMeta, Holds
    <2>2. fs'[<<p, "bak">>] = Dataset(Original[p])
        BY <1>1, <2>1 DEF Keeping
    <2>3. Survives(p)'
        BY <2>2 DEF Survives, Dataset, Whole
    <2> QED
        BY <1>4, <1>5, <2>1, <2>2, <2>3
<1>9. CASE DiscardBackup(i)
    <2>1. /\ fs'[Output(i)] = fs[Output(i)] /\ status' = status
          /\ pc[i] = "discard" /\ pc'[i] = "ok"
        BY <1>1, <1>3, <1>9 DEF DiscardBackup, Backup
    <2>2. fs[Backup(i)] = Dataset(Original[p])
        BY <1>1, <2>1 DEF Keeping, Holds
    <2>3. Taken(i) /\ Whole(fs[Output(i)]) /\ fs[Output(i)].meta = Listed(i)
        BY <1>3, <2>1 DEF BuildInv, Builds
    <2>4. ASSUME NEW e \in Range(Original[p]) \ Chosen(p)' PROVE e \in Range(Listed(i))
        <3>1. PICK k \in DOMAIN Original[p] : e = Original[p][k]
            BY <2>4 DEF Range
        <3>2. k - 1 \notin Request[i].pick
            <4>1. Request[i].op = "delete" /\ status'[i] # "none"
                BY <1>5, <2>1, DirsFit
            <4> QED
                BY <2>4, <3>1, <4>1 DEF Chosen
        <3>3. fs[Backup(i)].meta = Original[p]
            BY <2>2 DEF Dataset
        <3>4. PICK n \in DOMAIN plan[i] : plan[i][n].file = k /\ plan[i][n].ep = Original[p][k]
            BY <2>3, <3>1, <3>2, <3>3 DEF Taken
        <3>5. DOMAIN plan[i] = 1 .. Len(plan[i])
            BY <1>3
        <3> QED
            BY <3>1, <3>4, <3>5 DEF Listed, Range
    <2>5. Survives(p)'
        BY <1>1, <2>1, <2>3, <2>4 DEF Survives
    <2> QED
        BY <1>4, <1>5, <2>1, <2>5 DEF Holds
<1>10. CASE Raises(i)
    <2>1. fs' = fs /\ status' = status /\ pc'[i] \in {"undo", "error"}
          /\ (pc'[i] = "undo" => pc[i] \in {"read", "copy"})
        BY <1>3, <1>10 DEF Raises
    <2>2. Survives(p)'
        BY <1>3, <2>1, StillSurvives DEF Keeping
    <2> QED
        BY <1>4, <1>5, <2>1, <2>2 DEF Holds, Keeping
<1>11. CASE Undo(i)
    <2>1. /\ fs' = [fs EXCEPT ![Output(i)] = fs[Backup(i)], ![Backup(i)] = Absent]
          /\ pc[i] = "undo" /\ pc'[i] = "error" /\ status' = status
        BY <1>3, <1>11 DEF Undo, Backup
    <2>2. fs'[<<p, "own">>] = Dataset(Original[p])
        BY <1>1, <1>3, <2>1 DEF Keeping, Holds
    <2>3. Survives(p)'
        BY <2>2 DEF Survives, Dataset, Whole
    <2> QED
        BY <1>4, <2>1, <2>2, <2>3 DEF Holds
<1>12. CASE Report(i)
    <2>1. fs' = fs /\ status'[i] # "none" /\ pc'[i] = "idle"
        BY <1>3, <1>12 DEF Report
    <2>2. Survives(p)'
        BY <1>3, <2>1, StillSurvives DEF Keeping
    <2> QED
        BY <1>4, <2>1, <2>2 DEF Holds
<1> QED
    BY <1>6, <1>7, <1>8, <1>9, <1>10, <1>11, <1>12 DEF Worker

LEMMA ChosenStep ==
    ASSUME Separate, OneDelete, WorkInv, ChosenInv, [Next]_vars
    PROVE  ChosenInv'
<1>0. TypedInv
    BY DEF WorkInv
<1>1. \A j \in Jobs : pc'[j] # "idle" => status'[j] # "none"
    <2> SUFFICES ASSUME NEW j \in Jobs, pc'[j] # "idle" PROVE status'[j] # "none"
        OBVIOUS
    <2> USE <1>0 DEF TypedInv, ChosenInv, Step
    <2>1. ASSUME NEW i \in Jobs, Worker(i) PROVE status'[j] # "none"
        <3>1. CASE i = j
            BY <2>1, <3>1 DEF Worker, Start, Rename, ReadSources, CopyFile, WriteMeta,
                              DiscardBackup, Raises, Undo, Report
        <3>2. CASE i # j
            BY <2>1, <3>2, OthersStep
        <3> QED
            BY <3>1, <3>2
    <2>2. ASSUME NEW i \in Jobs, Submit(i) PROVE status'[j] # "none"
        BY <2>2 DEF Submit
    <2> QED
        BY <2>1, <2>2 DEF Next, Crash, vars
<1>2. ASSUME NEW p \in Paths, Original[p] # NoMeta PROVE Keeping(p)'
    <2>0. Keeping(p)
        BY <1>2 DEF ChosenInv
    <2>1. ASSUME NEW i \in Jobs, Worker(i) PROVE Keeping(p)'
        <3>1. CASE Deletes(i, p)
            BY <1>2, <2>0, <2>1, <3>1, DeleterKeeps
        <3>2. ASSUME ~Deletes(i, p), NEW d \in {<<p, "own">>, <<p, "bak">>}
              PROVE  fs'[d] = fs[d]
            <4> SUFFICES ASSUME fs'[d] # fs[d] PROVE FALSE
                OBVIOUS
            <4>1. Request[i].inPlace => Request[i].output # p
                BY <3>2 DEF Deletes
            <4>2. ~Request[i].inPlace => Request[i].output # p
                BY <1>2 DEF Separate
            <4>3. d # Output(i) /\ d # Backup(i)
                BY <4>1, <4>2, DirsFit DEF Output, Backup
            <4>4. d \in Dirs
                BY DEF Dirs
            <4> QED
                BY <2>1, <4>3, <4>4, <1>0, WritesItsOwn
        <3>3. \A j \in Jobs \ {i} : pc'[j] = pc[j] /\ status'[j] = status[j]
            BY <1>0, <2>1, OthersStep
        <3>4. CASE ~Deletes(i, p)
            <4>1. \A j \in Jobs : Deletes(j, p) => j # i
                BY <3>4
            <4> QED
                BY <1>0, <2>0, <3>2, <3>3, <3>4, <4>1, StillKeeps DEF Holds
        <3> QED
            BY <3>1, <3>4
    <2>2. ASSUME NEW i \in Jobs, Submit(i) PROVE Keeping(p)'
        BY <1>0, <2>0, <2>2, StillKeeps DEF Submit, Step, TypedInv, Holds
    <2>3. CASE Crash
        BY <1>0, <2>0, <2>3, StillKeeps DEF Crash, Holds
    <2>4. CASE UNCHANGED vars
        BY <1>0, <2>0, <2>4, StillKeeps DEF vars, Holds
    <2> QED
        BY <2>1, <2>2, <2>3, <2>4 DEF Next
<1> QED
    BY <1>1, <1>2 DEF ChosenInv

(* What is asked to be deleted is all that can go, through failures and     *)
(* crashes: whatever happens to the job, a whole copy of the rest is at the *)
(* dataset's own name or at that of its backup.                             *)
THEOREM OnlyChosen == ASSUME Separate, OneDelete PROVE Spec => []OnlyChosenGo
<1>1. Init => ChosenInv
    BY ChosenInit
<1>2. ChosenInv /\ WorkInv /\ [Next]_vars => ChosenInv'
    BY ChosenStep
<1>3. ChosenInv => OnlyChosenGo
    BY DEF ChosenInv, Keeping, Survives, OnlyChosenGo
<1> QED
    BY <1>1, <1>2, <1>3, WorkInvariance, PTL DEF Spec
==============================================================================
