-------------------------- MODULE EditsExactProofs --------------------------
(***************************************************************************)
(* Proofs that edits keep what they should: the inductive invariant        *)
(* EditsSound over sequences of delete, split, merge and stamp, and what   *)
(* it says of the datasets that pass the quick check.                      *)
(***************************************************************************)
EXTENDS EditsProofs

----------------------------------------------------------------------------
(* EPISODES AND THEIR ROWS.                                                 *)

(* A file that is one episode, of recording o under label x.                *)
Frames(rows, o, x) ==
    /\ \A k \in DOMAIN rows : /\ rows[k].episode = x /\ rows[k].frame + 1 \in 1 .. Length[o]
                              /\ rows[k].of = [recording |-> o, frame |-> rows[k].frame + 1]
    /\ \A i \in 1 .. Length[o] : \E k \in DOMAIN rows : rows[k].frame + 1 = i
    /\ \A j, k \in DOMAIN rows : rows[j].frame = rows[k].frame => j = k

Whole(file, o, x) ==
    /\ Len(file.rows) = Length[o] /\ Frames(file.rows, o, x)
    /\ file.stamped => MarksAreRight(file.rows)

(* A file with all the frames of o, and perhaps others.                     *)
Has(file, o) ==
    \A i \in 1 .. Length[o] : \E k \in DOMAIN file.rows :
      file.rows[k].of = [recording |-> o, frame |-> i] /\ file.rows[k].frame + 1 = i

Sole(d, e) == \A f \in DOMAIN d.data : \A k \in DOMAIN d.data[f].rows :
                d.data[f].rows[k].episode = e.episode => f = e.file

LEMMA SameMarks ==
    ASSUME NEW rows, NEW old, DOMAIN rows = DOMAIN old, MarksAreRight(old),
           \A k \in DOMAIN old : rows[k].of = old[k].of /\ rows[k].term = old[k].term /\ rows[k].last = old[k].last
    PROVE  MarksAreRight(rows)
BY DEF MarksAreRight

Relabels(file, x, new) ==
    /\ new \in FileType /\ new.stamped = file.stamped
    /\ DOMAIN new.rows = DOMAIN file.rows /\ Len(new.rows) = Len(file.rows)
    /\ \A k \in DOMAIN file.rows :
         /\ new.rows[k].episode = x /\ new.rows[k].frame = file.rows[k].frame /\ new.rows[k].of = file.rows[k].of
         /\ new.rows[k].term = file.rows[k].term /\ new.rows[k].last = file.rows[k].last

LEMMA RelabelledIs ==
    ASSUME NEW file \in FileType, NEW x \in Int
    PROVE  Relabels(file, x, Relabelled(file, x))
<1>1. PICK new : new = Relabelled(file, x)
    OBVIOUS
<1>2. /\ new \in FileType /\ new.stamped = file.stamped
      /\ DOMAIN new.rows = DOMAIN file.rows /\ Len(new.rows) = Len(file.rows)
      /\ \A k \in DOMAIN file.rows : new.rows[k] = [file.rows[k] EXCEPT !.episode = x]
    BY <1>1, RelabelledTyped
<1>3. \A k \in DOMAIN file.rows : file.rows[k] \in RowType
    BY DEF FileType
<1>4. ASSUME NEW row \in RowType
      PROVE  /\ [row EXCEPT !.episode = x].episode = x /\ [row EXCEPT !.episode = x].frame = row.frame
             /\ [row EXCEPT !.episode = x].of = row.of /\ [row EXCEPT !.episode = x].term = row.term
             /\ [row EXCEPT !.episode = x].last = row.last
    BY DEF RowType
<1>5. ASSUME NEW k \in DOMAIN file.rows
      PROVE  /\ new.rows[k].episode = x /\ new.rows[k].frame = file.rows[k].frame
             /\ new.rows[k].of = file.rows[k].of /\ new.rows[k].term = file.rows[k].term
             /\ new.rows[k].last = file.rows[k].last
    <2>1. PICK row \in RowType : row = file.rows[k]
        BY <1>3
    <2>2. new.rows[k] = [row EXCEPT !.episode = x]
        BY <1>2, <2>1
    <2> QED
        BY <1>4, <2>1, <2>2
<1>6. Relabels(file, x, new)
    BY <1>2, <1>5 DEF Relabels
<1> QED
    BY <1>1, <1>6

Reframed(rows, old, x) ==
    /\ DOMAIN rows = DOMAIN old
    /\ \A k \in DOMAIN old : rows[k].episode = x /\ rows[k].frame = old[k].frame /\ rows[k].of = old[k].of

LEMMA FramedAgain ==
    ASSUME NEW rows, NEW old, NEW x, Reframed(rows, old, x), NEW o, NEW y, Frames(old, o, y)
    PROVE  Frames(rows, o, x)
<1>1. /\ DOMAIN rows = DOMAIN old
      /\ \A k \in DOMAIN old : rows[k].episode = x /\ rows[k].frame = old[k].frame /\ rows[k].of = old[k].of
    BY DEF Reframed
<1>2. \A k \in DOMAIN old : /\ old[k].frame + 1 \in 1 .. Length[o]
                            /\ old[k].of = [recording |-> o, frame |-> old[k].frame + 1]
    BY DEF Frames
<1>3. \A k \in DOMAIN rows : /\ rows[k].episode = x /\ rows[k].frame + 1 \in 1 .. Length[o]
                             /\ rows[k].of = [recording |-> o, frame |-> rows[k].frame + 1]
    BY <1>1, <1>2
<1>4. \A i \in 1 .. Length[o] : \E k \in DOMAIN rows : rows[k].frame + 1 = i
    <2>1. \A i \in 1 .. Length[o] : \E k \in DOMAIN old : old[k].frame + 1 = i
        BY DEF Frames
    <2> QED
        BY <1>1, <2>1
<1>5. \A j, k \in DOMAIN rows : rows[j].frame = rows[k].frame => j = k
    <2>1. \A j, k \in DOMAIN old : old[j].frame = old[k].frame => j = k
        BY DEF Frames
    <2> QED
        BY <1>1, <2>1
<1> QED
    BY <1>3, <1>4, <1>5 DEF Frames

LEMMA RelabelsWhole ==
    ASSUME NEW file, NEW x, NEW new, Relabels(file, x, new), NEW o, NEW y, Whole(file, o, y)
    PROVE  Whole(new, o, x)
<1>1. Frames(new.rows, o, x)
    <2>1. Reframed(new.rows, file.rows, x)
        BY DEF Relabels, Reframed
    <2>2. Frames(file.rows, o, y)
        BY DEF Whole
    <2> QED
        BY <2>1, <2>2, FramedAgain
<1>2. new.stamped => MarksAreRight(new.rows)
    <2>1. file.stamped => MarksAreRight(file.rows)
        BY DEF Whole
    <2>2. /\ DOMAIN new.rows = DOMAIN file.rows
          /\ \A k \in DOMAIN file.rows : /\ new.rows[k].of = file.rows[k].of
                                         /\ new.rows[k].term = file.rows[k].term
                                         /\ new.rows[k].last = file.rows[k].last
        BY DEF Relabels
    <2>3. new.stamped = file.stamped
        BY DEF Relabels
    <2> QED
        BY <2>1, <2>2, <2>3, SameMarks
<1>3. Len(new.rows) = Length[o]
    BY DEF Relabels, Whole
<1> QED
    BY <1>1, <1>2, <1>3 DEF Whole

LEMMA RelabelsHas ==
    ASSUME NEW file, NEW x, NEW new, Relabels(file, x, new), NEW o, Has(file, o)
    PROVE  Has(new, o)
<1>1. PICK rows, old : rows = new.rows /\ old = file.rows
    OBVIOUS
<1>2. DOMAIN rows = DOMAIN old /\ \A k \in DOMAIN old : rows[k].frame = old[k].frame /\ rows[k].of = old[k].of
    BY <1>1 DEF Relabels
<1>3. \A i \in 1 .. Length[o] : \E k \in DOMAIN old :
         old[k].of = [recording |-> o, frame |-> i] /\ old[k].frame + 1 = i
    BY <1>1 DEF Has
<1>4. \A i \in 1 .. Length[o] : \E k \in DOMAIN rows :
         rows[k].of = [recording |-> o, frame |-> i] /\ rows[k].frame + 1 = i
    BY <1>2, <1>3
<1> QED
    BY <1>1, <1>4 DEF Has

(* What it means that an episode owns its frames, part by part.             *)
OwnFrame(r, e) == r.frame + 1 \in 1 .. Length[e.of] /\ r.of = [recording |-> e.of, frame |-> r.frame + 1]

OwnsRows(d, e) ==
    \A f \in DOMAIN d.data : \A k \in DOMAIN d.data[f].rows :
      d.data[f].rows[k].episode = e.episode => f = e.file /\ OwnFrame(d.data[f].rows[k], e)

OwnsAll(rows, e) ==
    \A i \in 1 .. Length[e.of] : \E k \in DOMAIN rows : rows[k].episode = e.episode /\ rows[k].frame + 1 = i

OwnsOnce(rows, e) ==
    \A j, k \in DOMAIN rows :
      rows[j].episode = e.episode /\ rows[k].episode = e.episode /\ rows[j].frame = rows[k].frame => j = k

IsOwn(own, rows, e) == own = {k \in DOMAIN rows : rows[k].episode = e.episode}
AllAt(own, rows, e) == \A i \in 1 .. Length[e.of] : \E k \in own : rows[k].frame + 1 = i
OnceAt(own, rows) == \A j, k \in own : rows[j].frame = rows[k].frame => j = k

LEMMA OwnedPlaces ==
    ASSUME NEW rows, NEW e, NEW own, IsOwn(own, rows, e)
    PROVE  /\ OwnsAll(rows, e) <=> AllAt(own, rows, e)
           /\ OwnsOnce(rows, e) <=> OnceAt(own, rows)
<1>1. \A k : k \in own <=> k \in DOMAIN rows /\ rows[k].episode = e.episode
    BY DEF IsOwn
<1>2. OwnsAll(rows, e) <=> AllAt(own, rows, e)
    BY <1>1, Zenon DEF OwnsAll, AllAt
<1>3. OwnsOnce(rows, e) <=> OnceAt(own, rows)
    BY <1>1, Zenon DEF OwnsOnce, OnceAt
<1> QED
    BY <1>2, <1>3

LEMMA OwnsParts ==
    ASSUME NEW d, NEW e, Owns(d, e)
    PROVE  /\ e.file \in DOMAIN d.data /\ OwnsRows(d, e)
           /\ OwnsAll(d.data[e.file].rows, e) /\ OwnsOnce(d.data[e.file].rows, e)
<1>1. e.file \in DOMAIN d.data /\ OwnsRows(d, e)
    BY DEF Owns, OwnsRows, OwnFrame
<1>2. PICK rows : rows = d.data[e.file].rows
    OBVIOUS
<1>3. PICK own : IsOwn(own, rows, e)
    BY DEF IsOwn
<1>4. AllAt(own, rows, e) /\ OnceAt(own, rows)
    BY <1>2, <1>3, Zenon DEF Owns, IsOwn, AllAt, OnceAt
<1>5. OwnsAll(rows, e) /\ OwnsOnce(rows, e)
    BY <1>3, <1>4, OwnedPlaces
<1> QED
    BY <1>1, <1>2, <1>5

LEMMA PartsOwn ==
    ASSUME NEW d, NEW e, e.file \in DOMAIN d.data, OwnsRows(d, e), NEW rows, rows = d.data[e.file].rows,
           OwnsAll(rows, e), OwnsOnce(rows, e)
    PROVE  Owns(d, e)
<1>1. PICK own : IsOwn(own, rows, e)
    BY DEF IsOwn
<1>2. AllAt(own, rows, e) /\ OnceAt(own, rows)
    BY <1>1, OwnedPlaces
<1> QED
    BY <1>1, <1>2, Zenon DEF OwnsRows, OwnFrame, Owns, IsOwn, AllAt, OnceAt

LEMMA WholeOwns ==
    ASSUME NEW d, NEW e, e.file \in DOMAIN d.data, Whole(d.data[e.file], e.of, e.episode), Sole(d, e)
    PROVE  Owns(d, e)
<1>1. PICK rows : rows = d.data[e.file].rows
    OBVIOUS
<1>2. Frames(rows, e.of, e.episode)
    BY <1>1 DEF Whole
<1>3. \A k \in DOMAIN rows : rows[k].episode = e.episode /\ OwnFrame(rows[k], e)
    BY <1>2 DEF Frames, OwnFrame
<1>4. OwnsRows(d, e)
    BY <1>1, <1>3 DEF Sole, OwnsRows
<1>5. OwnsAll(rows, e)
    BY <1>2, <1>3 DEF Frames, OwnsAll
<1>6. OwnsOnce(rows, e)
    BY <1>2 DEF Frames, OwnsOnce
<1> QED
    BY <1>1, <1>4, <1>5, <1>6, PartsOwn

LEMMA OwnsSole == ASSUME NEW d, NEW e, Owns(d, e) PROVE Sole(d, e)
<1>1. OwnsRows(d, e)
    BY OwnsParts
<1> QED
    BY <1>1 DEF OwnsRows, Sole

(* Frames that are all in some rows, as many as there are rows: they are    *)
(* all the rows.                                                            *)
LEMMA AllOwn ==
    ASSUME NEW m \in Nat, NEW F, NEW own, own \subseteq 1 .. m, \A k \in own : F[k] + 1 \in 1 .. m,
           \A i \in 1 .. m : \E k \in own : F[k] + 1 = i
    PROVE  own = 1 .. m
<1>1. PICK f : f = [k \in own |-> F[k] + 1]
    OBVIOUS
<1>2. f \in Surjection(own, 1 .. m)
    BY <1>1 DEF Surjection
<1>3. IsFiniteSet(1 .. m) /\ Cardinality(1 .. m) = m
    BY FS_Interval
<1>4. IsFiniteSet(own) /\ Cardinality(own) <= m /\ (m = Cardinality(own) => own = 1 .. m)
    BY <1>3, FS_Subset
<1>5. m <= Cardinality(own)
    BY <1>2, <1>3, <1>4, FS_Surjection
<1>6. Cardinality(own) \in Nat
    BY <1>4, FS_CardinalityType
<1> QED
    BY <1>4, <1>5, <1>6

LEMMA LengthType == ASSUME NEW e \in EpisodeType
                    PROVE  /\ e.of \in DOMAIN Length /\ Length[e.of] \in Nat /\ Length[e.of] > 0
                           /\ e.file \in Nat \X Nat /\ e.episode \in Int /\ e.length \in Int
                           /\ e.from \in Int /\ e.to \in Int
<1>1. e.of \in DOMAIN Length /\ e.file \in Nat \X Nat /\ e.episode \in Int /\ e.length \in Int
      /\ e.from \in Int /\ e.to \in Int
    BY DEF EpisodeType
<1>2. Length \in [DOMAIN Length -> Nat \ {0}]
    BY EditsAssumption
<1>3. Length[e.of] \in Nat \ {0}
    BY <1>1, <1>2
<1> QED
    BY <1>1, <1>3

LEMMA OwnsFrames ==
    ASSUME NEW d, IsDataset(d), NEW e \in EpisodeType, Owns(d, e), Len(d.data[e.file].rows) = Length[e.of]
    PROVE  Frames(d.data[e.file].rows, e.of, e.episode)
<1>1. e.file \in DOMAIN d.data /\ OwnsRows(d, e)
    BY OwnsParts
<1>2. PICK rows \in Seq(RowType) : rows = d.data[e.file].rows
    BY <1>1, DatasetFiles
<1>3. PICK m \in Nat : m = Length[e.of] /\ m = Len(rows) /\ DOMAIN rows = 1 .. m
    BY <1>2, LengthType
<1>4. OwnsAll(rows, e) /\ OwnsOnce(rows, e)
    BY <1>2, OwnsParts
<1>5. PICK own : IsOwn(own, rows, e)
    BY DEF IsOwn
<1>6. AllAt(own, rows, e)
    BY <1>4, <1>5, OwnedPlaces
<1>7. \A k \in own : OwnFrame(rows[k], e)
    BY <1>1, <1>2, <1>5 DEF OwnsRows, IsOwn
<1>8. own = 1 .. m
    <2>1. PICK F : F = [k \in DOMAIN rows |-> rows[k].frame]
        OBVIOUS
    <2>2. own \subseteq 1 .. m
        BY <1>3, <1>5 DEF IsOwn
    <2>3. \A k \in own : F[k] = rows[k].frame
        BY <1>3, <2>1, <2>2
    <2>4. \A k \in own : F[k] + 1 \in 1 .. m
        BY <1>3, <1>7, <2>3 DEF OwnFrame
    <2>5. \A i \in 1 .. m : \E k \in own : F[k] + 1 = i
        BY <1>3, <1>6, <2>3 DEF AllAt
    <2> QED
        BY <2>2, <2>4, <2>5, AllOwn
<1>9. \A k \in DOMAIN rows : rows[k].episode = e.episode
    BY <1>3, <1>5, <1>8 DEF IsOwn
<1>10. Frames(rows, e.of, e.episode)
    BY <1>3, <1>4, <1>6, <1>7, <1>8, <1>9 DEF Frames, OwnFrame, AllAt, OwnsOnce
<1> QED
    BY <1>2, <1>10, Zenon

----------------------------------------------------------------------------
(* What is kept of directories that jobs wrote fresh from fresh ones, and   *)
(* what the quick check tells of others.                                    *)
Stocked(d, e) ==
    /\ e.length = Length[e.of]
    /\ e.file \in DOMAIN d.video /\ d.video[e.file] = Footage[e.of]
    /\ e.file \in DOMAIN d.data /\ Has(d.data[e.file], e.of)
    /\ e.of \notin Packed => Len(d.data[e.file].rows) = Length[e.of]
    /\ Len(d.data[e.file].rows) = Length[e.of] =>
         Whole(d.data[e.file], e.of, e.episode) /\ Sole(d, e)

Unpacked(d) == TableRows(d) # <<>> /\ \A k \in DOMAIN TableRows(d) : TableRows(d)[k].of \notin Packed

OneEach(d) == \A f \in DOMAIN d.data : \E k \in DOMAIN TableRows(d) :
                TableRows(d)[k].file = f /\ Len(d.data[f].rows) = TableRows(d)[k].length

Fresh(d) ==
    /\ \A k \in DOMAIN TableRows(d) : Stocked(d, TableRows(d)[k])
    /\ Unpacked(d) => Sound(d) /\ OneEach(d)

Shows(d, e) == e.file \in DOMAIN d.video /\ d.video[e.file] = Footage[e.of]

Exact(d) ==
    /\ \A k \in DOMAIN TableRows(d) : Owns(d, TableRows(d)[k]) /\ Shows(d, TableRows(d)[k])
    /\ \A f \in DOMAIN d.data : \A r \in DOMAIN d.data[f].rows :
         \E k \in DOMAIN TableRows(d) : TableRows(d)[k].episode = d.data[f].rows[r].episode
    /\ \A f \in DOMAIN d.data : d.data[f].stamped => MarksAreRight(d.data[f].rows)

LEMMA FaithfulStocked ==
    ASSUME NEW d, IsDataset(d), NEW e \in EpisodeType, Owns(d, e), e.length = Length[e.of],
           e.of \notin Packed => Len(d.data[e.file].rows) = Length[e.of], Shows(d, e),
           d.data[e.file].stamped => MarksAreRight(d.data[e.file].rows)
    PROVE  Stocked(d, e)
<1>1. e.file \in DOMAIN d.data /\ OwnsRows(d, e)
    BY OwnsParts
<1>2. Sole(d, e)
    BY OwnsSole
<1>3. Has(d.data[e.file], e.of)
    <2>1. PICK rows : rows = d.data[e.file].rows
        OBVIOUS
    <2>2. OwnsAll(rows, e)
        BY <2>1, OwnsParts
    <2>3. \A k \in DOMAIN rows : rows[k].episode = e.episode => OwnFrame(rows[k], e)
        BY <1>1, <2>1 DEF OwnsRows
    <2>4. ASSUME NEW i \in 1 .. Length[e.of]
          PROVE  \E k \in DOMAIN rows : rows[k].of = [recording |-> e.of, frame |-> i] /\ rows[k].frame + 1 = i
        <3>1. PICK k \in DOMAIN rows : rows[k].episode = e.episode /\ rows[k].frame + 1 = i
            BY <2>2 DEF OwnsAll
        <3>2. rows[k].of = [recording |-> e.of, frame |-> i]
            BY <2>3, <3>1, Zenon DEF OwnFrame
        <3> QED
            BY <3>1, <3>2, Zenon
    <2> QED
        BY <2>1, <2>4 DEF Has
<1>4. Len(d.data[e.file].rows) = Length[e.of] => Whole(d.data[e.file], e.of, e.episode)
    BY OwnsFrames DEF Whole
<1> QED
    BY <1>1, <1>2, <1>3, <1>4 DEF Stocked, Shows

LEMMA FaithfulIsFresh ==
    ASSUME NEW d, IsDataset(d), Faithful(d)
    PROVE  Fresh(d) /\ Exact(d)
<1>1. PICK eps \in Seq(EpisodeType) : eps = TableRows(d)
    BY TablesJoined
<1>2. \A k \in DOMAIN eps : eps[k] \in Range(eps) /\ eps[k] \in EpisodeType
    BY DEF Range
<1>3. \A e \in Range(eps) : \E k \in DOMAIN eps : eps[k] = e
    BY DEF Range
<1>4. /\ Sound(d)
      /\ \A f \in DOMAIN d.data :
           /\ d.data[f].rows # <<>>
           /\ \A r \in Range(d.data[f].rows) : \E e \in Range(eps) : e.episode = r.episode
           /\ d.data[f].stamped => MarksAreRight(d.data[f].rows)
      /\ \A e \in Range(eps) :
           /\ Owns(d, e) /\ e.length = Length[e.of]
           /\ e.of \notin Packed => Len(d.data[e.file].rows) = Length[e.of]
           /\ Shows(d, e)
    BY <1>1 DEF Faithful, Shows
<1>5. ASSUME NEW k \in DOMAIN eps PROVE Stocked(d, eps[k]) /\ Owns(d, eps[k]) /\ Shows(d, eps[k])
    <2>1. PICK e \in EpisodeType : e = eps[k] /\ e \in Range(eps)
        BY <1>2
    <2>2. /\ Owns(d, e) /\ e.length = Length[e.of] /\ Shows(d, e)
          /\ e.of \notin Packed => Len(d.data[e.file].rows) = Length[e.of]
        BY <1>4, <2>1
    <2>3. d.data[e.file].stamped => MarksAreRight(d.data[e.file].rows)
        <3>1. e.file \in DOMAIN d.data
            BY <2>2, OwnsParts
        <3> QED
            BY <1>4, <3>1
    <2>4. Stocked(d, e)
        BY <2>1, <2>2, <2>3, FaithfulStocked
    <2> QED
        BY <2>1, <2>2, <2>4
<1>6. ASSUME NEW f \in DOMAIN d.data, NEW r \in DOMAIN d.data[f].rows
      PROVE  \E k \in DOMAIN eps : eps[k].episode = d.data[f].rows[r].episode
    <2>1. d.data[f].rows[r] \in Range(d.data[f].rows)
        BY DEF Range
    <2> QED
        BY <1>3, <1>4, <2>1
<1>7. ASSUME Unpacked(d), NEW f \in DOMAIN d.data
      PROVE  \E k \in DOMAIN eps : eps[k].file = f /\ Len(d.data[f].rows) = eps[k].length
    <2>1. PICK rows \in Seq(RowType) : rows = d.data[f].rows
        BY DatasetFiles
    <2>2. 1 \in DOMAIN rows
        BY <1>4, <2>1
    <2>3. PICK k \in DOMAIN eps : eps[k].episode = rows[1].episode
        BY <1>6, <2>1, <2>2
    <2>4. eps[k].file = f
        <3>1. PICK e : e = eps[k] /\ Owns(d, e)
            BY <1>5
        <3>2. OwnsRows(d, e)
            BY <3>1, OwnsParts
        <3> QED
            BY <2>1, <2>2, <2>3, <3>1, <3>2 DEF OwnsRows
    <2>5. Len(d.data[f].rows) = eps[k].length
        BY <1>1, <1>2, <1>4, <1>7, <2>3, <2>4 DEF Unpacked
    <2> QED
        BY <2>4, <2>5
<1>8. Fresh(d)
    BY <1>1, <1>4, <1>5, <1>7 DEF Fresh, OneEach
<1>9. Exact(d)
    BY <1>1, <1>4, <1>5, <1>6 DEF Exact
<1> QED
    BY <1>8, <1>9

----------------------------------------------------------------------------
(* THE FILES OF A NEW DATASET.                                              *)

(* The files of a new dataset: one for each episode, from its source, and   *)
(* what was there.                                                          *)
Ready(dk, out, map, n) ==
    \A k \in 1 .. n : /\ map[k].root # out
                      /\ map[k].file \in DOMAIN dk[map[k].root].data
                      /\ map[k].file \in DOMAIN dk[map[k].root].video

FilledTo(b, was, dk, map, i) ==
    /\ \A k \in 1 .. i :
         /\ File(k - 1) \in DOMAIN b.data /\ File(k - 1) \in DOMAIN b.video
         /\ b.data[File(k - 1)] = Relabelled(dk[map[k].root].data[map[k].file], k - 1)
         /\ b.video[File(k - 1)] = dk[map[k].root].video[map[k].file]
    /\ \A f \in DOMAIN b.data : f \in DOMAIN was.data \/ \E k \in 1 .. i : f = File(k - 1)

LEMMA CopyExact ==
    ASSUME NEW d, IsDataset(d), NEW source, NEW from, from.file \in DOMAIN source.data,
           from.file \in DOMAIN source.video, NEW e, e.file \in Nat \X Nat
    PROVE  /\ Held(CopyOf(d, source, from, e).data, d.data, e.file, Relabelled(source.data[from.file], e.episode))
           /\ Held(CopyOf(d, source, from, e).video, d.video, e.file, source.video[from.file])
<1>1. PICK name \in Nat \X Nat : name = e.file
    OBVIOUS
<1>2. PICK x, y : x = Relabelled(source.data[from.file], e.episode) /\ y = source.video[from.file]
    OBVIOUS
<1>3. CopyOf(d, source, from, e).data = With(d.data, name, x) /\ CopyOf(d, source, from, e).video = With(d.video, name, y)
    BY <1>1, <1>2 DEF CopyOf
<1>4. PICK fs, gs : fs = d.data /\ gs = d.video
    OBVIOUS
<1>5. AreFiles(fs) /\ AreFiles(gs)
    BY <1>4 DEF IsDataset
<1>6. Held(With(fs, name, x), fs, name, x)
    BY <1>5, WithFiles, Zenon
<1>7. Held(With(gs, name, y), gs, name, y)
    BY <1>5, WithFiles, Zenon
<1> QED
    BY <1>1, <1>2, <1>3, <1>4, <1>6, <1>7, Zenon

FilledNext(c, b, dk, map, i) ==
    /\ Held(c.data, b.data, File(i), Relabelled(dk[map[i + 1].root].data[map[i + 1].file], i))
    /\ Held(c.video, b.video, File(i), dk[map[i + 1].root].video[map[i + 1].file])

LEMMA FilledOnce ==
    ASSUME NEW i \in Nat, NEW b, NEW was, NEW dk, NEW map, FilledTo(b, was, dk, map, i),
           NEW c, FilledNext(c, b, dk, map, i)
    PROVE  FilledTo(c, was, dk, map, i + 1)
<1>1. PICK name : name = File(i)
    BY Zenon
<1>2. PICK x : x = Relabelled(dk[map[i + 1].root].data[map[i + 1].file], i)
    BY Zenon
<1>3. PICK y : y = dk[map[i + 1].root].video[map[i + 1].file]
    BY Zenon
<1>4. /\ DOMAIN c.data = DOMAIN b.data \cup {name} /\ c.data[name] = x
      /\ \A f \in DOMAIN b.data : f # name => c.data[f] = b.data[f]
    <2>1. Held(c.data, b.data, name, x)
        BY <1>1, <1>2, Zenon DEF FilledNext
    <2> QED
        BY <2>1 DEF Held
<1>5. /\ DOMAIN c.video = DOMAIN b.video \cup {name} /\ c.video[name] = y
      /\ \A f \in DOMAIN b.video : f # name => c.video[f] = b.video[f]
    <2>1. Held(c.video, b.video, name, y)
        BY <1>1, <1>3, Zenon DEF FilledNext
    <2> QED
        BY <2>1 DEF Held
<1>6. ASSUME NEW k \in 1 .. i + 1
      PROVE  /\ File(k - 1) \in DOMAIN c.data /\ File(k - 1) \in DOMAIN c.video
             /\ c.data[File(k - 1)] = Relabelled(dk[map[k].root].data[map[k].file], k - 1)
             /\ c.video[File(k - 1)] = dk[map[k].root].video[map[k].file]
    <2>1. CASE k = i + 1
        <3>1. k - 1 = i
            BY <2>1
        <3> QED
            BY <1>1, <1>2, <1>3, <1>4, <1>5, <2>1, <3>1, Zenon
    <2>2. CASE k # i + 1
        <3>1. k \in 1 .. i /\ k - 1 \in Nat /\ k - 1 # i
            BY <2>2
        <3>2. PICK g : g = File(k - 1)
            OBVIOUS
        <3>3. g # name
            BY <1>1, <3>1, <3>2, FilesDiffer
        <3>4. /\ g \in DOMAIN b.data /\ g \in DOMAIN b.video
              /\ b.data[g] = Relabelled(dk[map[k].root].data[map[k].file], k - 1)
              /\ b.video[g] = dk[map[k].root].video[map[k].file]
            BY <3>1, <3>2 DEF FilledTo
        <3> QED
            BY <1>4, <1>5, <3>2, <3>3, <3>4
    <2> QED
        BY <2>1, <2>2
<1>7. ASSUME NEW f \in DOMAIN c.data
      PROVE  f \in DOMAIN was.data \/ \E k \in 1 .. i + 1 : f = File(k - 1)
    <2>1. CASE f = name
        <3>1. PICK k \in 1 .. i + 1 : k = i + 1 /\ k - 1 = i
            OBVIOUS
        <3> QED
            BY <1>1, <2>1, <3>1
    <2>2. CASE f \in DOMAIN b.data
        <3>1. 1 .. i \subseteq 1 .. i + 1
            OBVIOUS
        <3> QED
            BY <2>2, <3>1 DEF FilledTo
    <2> QED
        BY <1>4, <2>1, <2>2
<1> QED
    BY <1>6, <1>7, Zenon DEF FilledTo

Filler(a, dk, made, out, D, map, i) == Kind(a, made, out, D) /\ FilledTo(a[out], made[out], dk, map, i)

LEMMA FilledExact ==
    ASSUME NEW D, NEW dk, NEW out \in D, NEW R, Job(dk, D, out, R),
           NEW n \in Nat, NEW map, NEW eps, NEW old, AreReindexed(eps, old, n),
           CopiesFrom(CopiesOf(map, eps), n, R), Ready(dk, out, map, n)
    PROVE  FilledTo(Fill(dk, out, map, eps)[out], Made(dk, out)[out], dk, map, n)
<1>1. PICK made : made = Made(dk, out)
    OBVIOUS
<1>2. OnDisk(dk, D) /\ (dk[out] = Absent \/ IsDataset(dk[out]))
    BY DEF Job
<1>3. Outside(made, dk, out, D) /\ IsDataset(made[out])
    BY <1>1, <1>2, MadeTyped
<1>4. PICK copies : copies = CopiesOf(map, eps)
    OBVIOUS
<1>5. /\ DOMAIN copies = 1 .. n
      /\ \A k \in 1 .. n : /\ copies[k][1].root \in R /\ copies[k][2].file \in Nat \X Nat
                           /\ copies[k][2].episode \in Int
    BY <1>4 DEF CopiesFrom
<1>6. \A k \in 1 .. n : copies[k][1] = map[k] /\ copies[k][2] = eps[k]
    BY <1>4, <1>5 DEF CopiesOf
<1>7. \A k \in 1 .. n : eps[k].file = File(k - 1) /\ eps[k].episode = k - 1
    BY DEF AreReindexed, Placed
<1>8. PICK g : FillTrace(g, made, out, copies, n)
    BY <1>5, FilledTraced
<1>9. PICK S : S = {i \in 0 .. n : Filler(g[i], dk, made, out, D, map, i)}
    OBVIOUS
<1>10. 0 \in S
    <2>1. g[0] = made
        BY <1>8 DEF FillTrace
    <2>2. Kind(made, made, out, D)
        BY <1>3 DEF Kind, Outside, AsBefore
    <2>3. FilledTo(made[out], made[out], dk, map, 0)
        BY DEF FilledTo
    <2> QED
        BY <1>9, <2>1, <2>2, <2>3 DEF Filler
<1>11. ASSUME NEW i \in 0 .. n - 1, i \in S PROVE i + 1 \in S
    <2>1. PICK k \in 1 .. n : k = i + 1 /\ k - 1 = i
        OBVIOUS
    <2>2. PICK from, e : from = map[k] /\ e = eps[k]
        OBVIOUS
    <2>3. from.root \in R /\ e.file \in Nat \X Nat /\ e.episode \in Int
        BY <1>5, <1>6, <2>2
    <2>4. PICK a : a = g[i]
        OBVIOUS
    <2>5. Kind(a, made, out, D) /\ FilledTo(a[out], made[out], dk, map, i)
        BY <1>9, <1>11, <2>4 DEF Filler
    <2>6. PICK source : source = dk[from.root]
        OBVIOUS
    <2>7. from.root \in D /\ from.root # out /\ IsDataset(source)
          /\ from.file \in DOMAIN source.data /\ from.file \in DOMAIN source.video
        BY <2>2, <2>3, <2>6 DEF Job, Ready
    <2>8. a[from.root] = source
        BY <1>3, <2>5, <2>6, <2>7 DEF Kind, Outside
    <2>9. OnDisk(a, D) /\ IsDataset(a[out])
        BY <2>5 DEF Kind, Outside
    <2>10. PICK b : b = Copied(a, out, from, e)
        OBVIOUS
    <2>11. /\ Outside(b, a, out, D) /\ IsDataset(b[out]) /\ AsBefore(b[out], a[out])
           /\ b[out] = CopyOf(a[out], source, from, e)
        BY <2>3, <2>7, <2>8, <2>9, <2>10, OneCopied
    <2>12. Kind(b, made, out, D)
        BY <2>5, <2>11 DEF Kind, Outside, AsBefore
    <2>13. g[k] = b
        BY <1>6, <1>8, <2>1, <2>2, <2>4, <2>10 DEF FillTrace
    <2>14. /\ Held(b[out].data, a[out].data, e.file, Relabelled(source.data[from.file], e.episode))
           /\ Held(b[out].video, a[out].video, e.file, source.video[from.file])
        BY <2>3, <2>7, <2>9, <2>11, CopyExact
    <2>15. e.file = File(i) /\ e.episode = i
        BY <1>7, <2>1, <2>2
    <2>16. FilledNext(b[out], a[out], dk, map, i)
        BY <2>1, <2>2, <2>6, <2>14, <2>15 DEF FilledNext
    <2>17. FilledTo(b[out], made[out], dk, map, i + 1)
        BY <2>5, <2>16, FilledOnce
    <2> QED
        BY <1>9, <2>1, <2>12, <2>13, <2>17 DEF Filler
<1>12. n \in S
    BY <1>10, <1>11, UpTo
<1>13. g[n] = Fill(dk, out, map, eps)
    BY <1>1, <1>4, <1>8 DEF FillTrace, Fill
<1> QED
    BY <1>1, <1>9, <1>12, <1>13 DEF Filler

----------------------------------------------------------------------------
(* A NEW DATASET IS EXACT.                                                  *)

(* A dataset that was written over what was there, from fresh ones.         *)
Origin(dk, map, old, n) ==
    \A k \in 1 .. n : /\ IsDataset(dk[map[k].root]) /\ Stocked(dk[map[k].root], old[k])
                      /\ map[k].file = old[k].file

NewAt(d, was, dk, map, old, eps, n) ==
    /\ IsDataset(d) /\ AreReindexed(eps, old, n)
    /\ d.info.episodes = n /\ d.info.frames = TotalOf(eps) /\ d.torn = was.torn
    /\ Held(d.tables, was.tables, <<0, 0>>, eps)
    /\ FilledTo(d, was, dk, map, n)
    /\ Origin(dk, map, old, n) /\ old \in Seq(EpisodeType) /\ Len(old) = n

FreshRoots(dk, roots, m, out) == \A i \in 1 .. m : roots[i] # out /\ Fresh(dk[roots[i]])

LEMMA OriginIs ==
    ASSUME NEW D, NEW dk, NEW out, NEW m \in Nat, NEW roots, NEW all, Sourced(dk, D, out, roots, all, m),
           FreshRoots(dk, roots, m, out), NEW n \in Nat, NEW map, NEW old, Origins(map, old, n, roots, all, m)
    PROVE  Origin(dk, map, old, n) /\ Ready(dk, out, map, n)
<1>1. ASSUME NEW k \in 1 .. n
      PROVE  /\ IsDataset(dk[map[k].root]) /\ Stocked(dk[map[k].root], old[k])
             /\ map[k].file = old[k].file /\ map[k].root # out
    <2>1. PICK i \in 1 .. m : /\ map[k].root = roots[i] /\ map[k].file = old[k].file
                              /\ \E j \in 1 .. Len(all[i]) : old[k] = all[i][j]
        BY DEF Origins
    <2>2. PICK j \in 1 .. Len(all[i]) : old[k] = all[i][j]
        BY <2>1
    <2>3. PICK d : d = dk[roots[i]]
        OBVIOUS
    <2>4. PICK q \in 1 .. Len(TableRows(d)) : old[k] = TableRows(d)[q]
        BY <2>2, <2>3 DEF Sourced
    <2>5. IsDataset(d)
        <3>1. roots[i] \in RootSet(roots, m)
            BY DEF RootSet
        <3> QED
            BY <2>3, <3>1 DEF Sourced, Job
    <2>6. q \in DOMAIN TableRows(d)
        BY <2>5, TablesJoined
    <2>7. Fresh(d) /\ roots[i] # out
        BY <2>3 DEF FreshRoots
    <2>8. Stocked(d, old[k])
        BY <2>4, <2>6, <2>7 DEF Fresh
    <2> QED
        BY <2>1, <2>3, <2>5, <2>7, <2>8
<1>2. Origin(dk, map, old, n)
    BY <1>1 DEF Origin
<1>3. ASSUME NEW k \in 1 .. n
      PROVE  /\ map[k].root # out
             /\ map[k].file \in DOMAIN dk[map[k].root].data
             /\ map[k].file \in DOMAIN dk[map[k].root].video
    BY <1>1 DEF Stocked
<1> QED
    BY <1>2, <1>3 DEF Ready

LEMMA NewIs ==
    ASSUME NEW D, NEW dk, NEW out \in D, NEW m \in Nat, NEW roots, NEW w, IsResult(w, dk, D, out, roots, m),
           FreshRoots(dk, roots, m, out)
    PROVE  \E n \in Nat : \E map, old, eps : NewAt(w[out], Made(dk, out)[out], dk, map, old, eps, n)
<1>1. PICK all : \E info \in InfoType : \E tasks \in Seq(TaskType) :
        /\ Sourced(dk, D, out, roots, all, m)
        /\ w = Result(dk, out, info, tasks, roots, all)
    BY DEF IsResult
<1>2. PICK info \in InfoType : \E tasks \in Seq(TaskType) :
        /\ Sourced(dk, D, out, roots, all, m)
        /\ w = Result(dk, out, info, tasks, roots, all)
    BY <1>1
<1>3. PICK tasks \in Seq(TaskType) : /\ Sourced(dk, D, out, roots, all, m)
                                     /\ w = Result(dk, out, info, tasks, roots, all)
    BY <1>2
<1>4. PICK R : R = RootSet(roots, m)
    OBVIOUS
<1>5. Roots(roots, all, m) /\ Job(dk, D, out, R)
    BY <1>3, <1>4 DEF Sourced
<1>6. PICK map, old : map = SourceMap(roots, all) /\ old = Concat(all)
    OBVIOUS
<1>7. PICK n \in Nat : Origins(map, old, n, roots, all, m)
    BY <1>5, <1>6, MapExact
<1>8. Origin(dk, map, old, n) /\ Ready(dk, out, map, n)
    BY <1>3, <1>7, OriginIs
<1>9. \A i \in 1 .. m : roots[i] \in R
    BY <1>4 DEF RootSet
<1>10. Reindexed(old) \in Seq(EpisodeType) /\ CopiesFrom(CopiesOf(map, Reindexed(old)), n, R)
    BY <1>7, <1>9, CopiesMade
<1>11. PICK eps \in Seq(EpisodeType) : eps = Reindexed(old)
    BY <1>10
<1>12. old \in Seq(EpisodeType) /\ Len(old) = n
    BY <1>7 DEF Origins
<1>13. AreReindexed(eps, old, n)
    BY <1>7, <1>11, <1>12, ReindexedExact
<1>14. CopiesFrom(CopiesOf(map, eps), n, R)
    BY <1>10, <1>11
<1>15. PICK F : F = Fill(dk, out, map, eps)
    OBVIOUS
<1>16. PICK was : was = Made(dk, out)[out]
    OBVIOUS
<1>17. FilledTo(F[out], was, dk, map, n)
    BY <1>5, <1>7, <1>8, <1>13, <1>14, <1>15, <1>16, FilledExact
<1>18. w = Written(dk, out, info, eps, tasks, map)
    BY <1>3, <1>6, <1>11 DEF Result
<1>19. dk[out] = Absent \/ IsDataset(dk[out])
    BY <1>5 DEF Job
<1>20. Kind(F, Made(dk, out), out, D) /\ w[out] = NewDataset(F, out, info, eps, tasks)
    BY <1>5, <1>7, <1>11, <1>14, <1>15, <1>18, WrittenShape
<1>21. IsDataset(w[out])
    BY IsResultTyped
<1>22. PICK d : d = w[out]
    OBVIOUS
<1>23. PICK tables, new : tables = With(F[out].tables, <<0, 0>>, eps) /\ new = NewInfo(info, eps)
    OBVIOUS
<1>24. d = Rec(new, tasks, tables, F[out].data, F[out].video, F[out].torn)
    BY <1>20, <1>22, <1>23 DEF NewDataset
<1>25. /\ d.info = new /\ d.tables = tables /\ d.data = F[out].data
       /\ d.video = F[out].video /\ d.torn = F[out].torn
    BY <1>24, Shaped
<1>26. F[out].tables = was.tables /\ F[out].torn = was.torn /\ IsDataset(F[out])
    BY <1>16, <1>20 DEF Kind, AsBefore
<1>27. FilledTo(d, was, dk, map, n)
    BY <1>17, <1>25 DEF FilledTo
<1>28. Held(d.tables, was.tables, <<0, 0>>, eps)
    <2>1. PICK name \in Nat \X Nat : name = <<0, 0>>
        OBVIOUS
    <2>2. PICK fs : fs = was.tables
        OBVIOUS
    <2>3. AreFiles(fs)
        BY <1>26, <2>2 DEF IsDataset
    <2>4. Held(With(fs, name, eps), fs, name, eps)
        BY <2>1, <2>3, WithFiles
    <2> QED
        BY <1>23, <1>25, <1>26, <2>1, <2>2, <2>4
<1>29. new.episodes = n /\ new.frames = TotalOf(eps)
    <2>1. Len(eps) = n
        BY <1>13 DEF AreReindexed
    <2> QED
        BY <1>2, <1>11, <1>23, <2>1, NewInfoTyped
<1>30. NewAt(d, was, dk, map, old, eps, n)
    BY <1>8, <1>12, <1>13, <1>21, <1>22, <1>25, <1>26, <1>27, <1>28, <1>29 DEF NewAt
<1> QED
    BY <1>7, <1>16, <1>22, <1>30

AreJoined(fs, part) ==
    /\ \A p \in InFiles(fs, part) : \E k \in DOMAIN Joint(fs, part) : Joint(fs, part)[k] = part[p[1]][p[2]]
    /\ \A k \in DOMAIN Joint(fs, part) : \E p \in InFiles(fs, part) : Joint(fs, part)[k] = part[p[1]][p[2]]
    /\ IsFiniteSet(InFiles(fs, part)) /\ Cardinality(InFiles(fs, part)) = Len(Joint(fs, part))

LEMMA PartsTogether ==
    ASSUME NEW fs, Files(fs), NEW T, NEW part, \A f \in DOMAIN fs : part[f] \in Seq(T)
    PROVE  AreJoined(fs, part)
BY PartsJoined DEF AreJoined

SameRows(rows, eps, n) ==
    /\ \A q \in DOMAIN rows : \E k \in 1 .. n : rows[q] = eps[k]
    /\ \A k \in 1 .. n : \E q \in DOMAIN rows : rows[q] = eps[k]

(* As many rows in the tables as episodes were written: they are those.     *)
LEMMA OnlyNewRows ==
    ASSUME NEW fs, Files(fs), NEW T, \A f \in DOMAIN fs : fs[f] \in Seq(T), NEW name \in DOMAIN fs,
           NEW n \in Nat, NEW eps \in Seq(T), Len(eps) = n, fs[name] = eps, Len(Joint(fs, fs)) = n
    PROVE  SameRows(Joint(fs, fs), eps, n)
<1>1. PICK J : J = Joint(fs, fs)
    OBVIOUS
<1>2. PICK P : P = InFiles(fs, fs)
    OBVIOUS
<1>3. /\ \A p \in P : \E k \in DOMAIN J : J[k] = fs[p[1]][p[2]]
      /\ \A k \in DOMAIN J : \E p \in P : J[k] = fs[p[1]][p[2]]
      /\ IsFiniteSet(P) /\ Cardinality(P) = n
    <2>1. AreJoined(fs, fs)
        BY PartsTogether
    <2> QED
        BY <1>1, <1>2, <2>1 DEF AreJoined
<1>4. DOMAIN eps = 1 .. n
    OBVIOUS
<1>5. PICK Q : Q = {<<name, k>> : k \in 1 .. n}
    OBVIOUS
<1>6. Q \subseteq P
    <2>1. \A k \in 1 .. n : k \in Nat /\ k \in DOMAIN fs[name]
        BY <1>4
    <2> QED
        BY <1>2, <1>5, <2>1 DEF InFiles
<1>7. Cardinality(Q) = n
    <2>1. PICK f : f = [k \in 1 .. n |-> <<name, k>>]
        OBVIOUS
    <2>2. f \in Surjection(1 .. n, Q) /\ f \in Injection(1 .. n, Q)
        BY <1>5, <2>1 DEF Surjection, Injection, IsInjective
    <2>3. IsFiniteSet(1 .. n) /\ Cardinality(1 .. n) = n
        BY FS_Interval
    <2> QED
        BY <2>2, <2>3, FS_Surjection
<1>8. P = Q
    BY <1>3, <1>6, <1>7, FS_Subset
<1>9. ASSUME NEW q \in DOMAIN J PROVE \E k \in 1 .. n : J[q] = eps[k]
    <2>1. PICK p \in Q : J[q] = fs[p[1]][p[2]]
        BY <1>3, <1>8
    <2>2. PICK k \in 1 .. n : p = <<name, k>>
        BY <1>5, <2>1
    <2> QED
        BY <2>1, <2>2
<1>10. ASSUME NEW k \in 1 .. n PROVE \E q \in DOMAIN J : J[q] = eps[k]
    <2>1. PICK p \in P : p = <<name, k>>
        BY <1>5, <1>8
    <2>2. PICK q \in DOMAIN J : J[q] = fs[p[1]][p[2]]
        BY <1>3
    <2> QED
        BY <2>1, <2>2
<1> QED
    BY <1>1, <1>9, <1>10 DEF SameRows

LEMMA OnlyTable ==
    ASSUME NEW fs, Files(fs), NEW T, NEW name, DOMAIN fs = {name}, NEW eps \in Seq(T), fs[name] = eps
    PROVE  Joint(fs, fs) = eps
<1>1. PICK m \in Nat : /\ InOrder(fs) \in [1 .. m -> DOMAIN fs]
                       /\ \A f \in DOMAIN fs : \E k \in 1 .. m : InOrder(fs)[k] = f
                       /\ \A i, k \in 1 .. m : InOrder(fs)[i] = InOrder(fs)[k] => i = k
    BY FilesInOrder
<1>2. PICK o : o = InOrder(fs)
    OBVIOUS
<1>3. DOMAIN o = 1 .. m /\ \A k \in 1 .. m : o[k] = name
    BY <1>1, <1>2
<1>4. m = 1
    <2>1. m # 0
        BY <1>1
    <2>2. m > 1 => 1 \in 1 .. m /\ 2 \in 1 .. m
        OBVIOUS
    <2>3. ~ (m > 1)
        BY <1>1, <1>2, <1>3, <2>2
    <2> QED
        BY <2>1, <2>3
<1>5. [k \in DOMAIN o |-> fs[o[k]]] = <<eps>>
    BY <1>3, <1>4
<1>6. Concat(<<eps>>) = eps
    BY ConcatOfOne
<1> QED
    BY <1>2, <1>5, <1>6 DEF Joint

LEMMA NewTables ==
    ASSUME NEW d, NEW was, NEW dk, NEW map, NEW old, NEW eps, NEW n \in Nat, NewAt(d, was, dk, map, old, eps, n)
    PROVE  /\ Len(TableRows(d)) = n => SameRows(TableRows(d), eps, n)
           /\ DOMAIN was.tables = {} => TableRows(d) = eps
<1>1. PICK name : name = <<0, 0>>
    OBVIOUS
<1>2. PICK fs : fs = d.tables
    OBVIOUS
<1>3. IsDataset(d) /\ eps \in Seq(EpisodeType) /\ Len(eps) = n
    BY DEF NewAt, AreReindexed
<1>4. Files(fs) /\ \A f \in DOMAIN fs : fs[f] \in Seq(EpisodeType)
    BY <1>2, <1>3, DatasetFiles
<1>5. DOMAIN fs = DOMAIN was.tables \cup {name} /\ fs[name] = eps
    BY <1>1, <1>2 DEF NewAt, Held
<1>6. TableRows(d) = Joint(fs, fs)
    BY <1>2, <1>3, TablesJoined
<1>7. ASSUME Len(TableRows(d)) = n PROVE SameRows(TableRows(d), eps, n)
    <2>1. name \in DOMAIN fs /\ Len(Joint(fs, fs)) = n
        BY <1>5, <1>6, <1>7
    <2>2. SameRows(Joint(fs, fs), eps, n)
        BY <1>3, <1>4, <1>5, <2>1, OnlyNewRows
    <2> QED
        BY <1>6, <2>2
<1>8. ASSUME DOMAIN was.tables = {} PROVE TableRows(d) = eps
    <2>1. DOMAIN fs = {name}
        BY <1>5, <1>8
    <2> QED
        BY <1>3, <1>4, <1>5, <1>6, <2>1, OnlyTable
<1> QED
    BY <1>7, <1>8

(* As many rows in the files as the episodes have frames, and every frame   *)
(* of each in a file of its own: there are no other rows.                   *)
Fillings(fs, part, nm, n, l, fr) ==
    /\ nm \in [1 .. n -> DOMAIN fs] /\ \A j, k \in 1 .. n : nm[j] = nm[k] => j = k
    /\ \A f \in DOMAIN fs : DOMAIN part[f] \subseteq Nat
    /\ \A k \in 1 .. n : \A i \in 1 .. l[k] : \E r \in DOMAIN part[nm[k]] : fr[nm[k]][r] = i

NoOthers(fs, part, nm, n, l) ==
    /\ \A p \in InFiles(fs, part) : \E k \in 1 .. n : p[1] = nm[k]
    /\ \A k \in 1 .. n : IsFiniteSet(DOMAIN part[nm[k]]) /\ Cardinality(DOMAIN part[nm[k]]) = l[k]

LEMMA FramesFill ==
    ASSUME NEW fs, NEW part, NEW nm, NEW n \in Nat, NEW l \in [1 .. n -> Nat], NEW fr,
           Fillings(fs, part, nm, n, l, fr), IsFiniteSet(InFiles(fs, part)),
           Cardinality(InFiles(fs, part)) = Cardinality(Cells(l, n))
    PROVE  NoOthers(fs, part, nm, n, l)
<1>1. PICK P, C : P = InFiles(fs, part) /\ C = Cells(l, n)
    OBVIOUS
<1>2. ASSUME NEW c \in C
      PROVE  /\ c[1] \in 1 .. n /\ c[2] \in 1 .. l[c[1]] /\ c = <<c[1], c[2]>>
             /\ \E r \in DOMAIN part[nm[c[1]]] : fr[nm[c[1]]][r] = c[2]
    <2>1. c \in (1 .. n) \X Nat /\ 1 <= c[2] /\ c[2] <= l[c[1]]
        BY <1>1 DEF Cells
    <2>2. c[1] \in 1 .. n /\ c[2] \in Nat /\ c = <<c[1], c[2]>> /\ l[c[1]] \in Nat
        BY <2>1
    <2>3. c[2] \in 1 .. l[c[1]]
        BY <2>1, <2>2
    <2> QED
        BY <2>2, <2>3 DEF Fillings
<1>3. PICK rho : rho = [c \in C |-> CHOOSE r \in DOMAIN part[nm[c[1]]] : fr[nm[c[1]]][r] = c[2]]
    OBVIOUS
<1>4. \A c \in C : rho[c] \in DOMAIN part[nm[c[1]]] /\ fr[nm[c[1]]][rho[c]] = c[2]
    BY <1>2, <1>3
<1>5. PICK phi : phi = [c \in C |-> <<nm[c[1]], rho[c]>>]
    OBVIOUS
<1>6. phi \in [C -> P]
    <2>1. ASSUME NEW c \in C PROVE phi[c] \in P
        <3>1. nm[c[1]] \in DOMAIN fs /\ rho[c] \in DOMAIN part[nm[c[1]]]
            BY <1>2, <1>4 DEF Fillings
        <3>2. rho[c] \in Nat
            BY <3>1 DEF Fillings
        <3> QED
            BY <1>1, <1>5, <3>1, <3>2 DEF InFiles
    <2> QED
        BY <1>5, <2>1
<1>7. ASSUME NEW c \in C, NEW e \in C, phi[c] = phi[e] PROVE c = e
    <2>1. nm[c[1]] = nm[e[1]] /\ rho[c] = rho[e]
        BY <1>5, <1>7
    <2>2. c[1] = e[1]
        BY <1>2, <2>1 DEF Fillings
    <2>3. c[2] = e[2]
        BY <1>4, <2>1, <2>2
    <2> QED
        BY <1>2, <2>2, <2>3
<1>8. phi \in Injection(C, P)
    BY <1>6, <1>7 DEF Injection, IsInjective
<1>9. phi \in Surjection(C, P)
    BY <1>1, <1>8, FS_Injection
<1>10. ASSUME NEW p \in P
       PROVE  \E c \in C : p = <<nm[c[1]], rho[c]>>
    <2>1. PICK c \in C : phi[c] = p
        BY <1>9 DEF Surjection
    <2> QED
        BY <1>5, <2>1
<1>11. \A p \in P : \E k \in 1 .. n : p[1] = nm[k]
    <2> SUFFICES ASSUME NEW p \in P PROVE \E k \in 1 .. n : p[1] = nm[k]
        OBVIOUS
    <2>1. PICK c \in C : p = <<nm[c[1]], rho[c]>>
        BY <1>10
    <2>2. p[1] = nm[c[1]] /\ c[1] \in 1 .. n
        BY <1>2, <2>1
    <2> QED
        BY <2>2
<1>12. ASSUME NEW k \in 1 .. n
       PROVE  IsFiniteSet(DOMAIN part[nm[k]]) /\ Cardinality(DOMAIN part[nm[k]]) = l[k]
    <2>1. PICK z \in Nat : z = l[k]
        OBVIOUS
    <2>2. PICK R : R = DOMAIN part[nm[k]]
        OBVIOUS
    <2>3. ASSUME NEW i \in 1 .. z PROVE <<k, i>> \in C
        BY <1>1, <2>1, <2>3 DEF Cells
    <2>4. PICK psi : psi = [i \in 1 .. z |-> rho[<<k, i>>]]
        OBVIOUS
    <2>5. \A i \in 1 .. z : psi[i] \in R /\ fr[nm[k]][psi[i]] = i
        BY <1>4, <2>2, <2>3, <2>4
    <2>6. \A i, j \in 1 .. z : psi[i] = psi[j] => i = j
        BY <2>5
    <2>7. psi \in Injection(1 .. z, R)
        BY <2>4, <2>5, <2>6 DEF Injection, IsInjective
    <2>8. ASSUME NEW r \in R PROVE \E i \in 1 .. z : psi[i] = r
        <3>1. PICK p \in P : p = <<nm[k], r>>
            <4>1. nm[k] \in DOMAIN fs /\ r \in Nat
                BY <2>2 DEF Fillings
            <4> QED
                BY <1>1, <2>2, <4>1 DEF InFiles
        <3>2. PICK c \in C : p = <<nm[c[1]], rho[c]>>
            BY <1>10
        <3>3. nm[c[1]] = nm[k] /\ rho[c] = r
            BY <3>1, <3>2
        <3>4. c[1] = k
            BY <1>2, <3>3 DEF Fillings
        <3>5. c[2] \in 1 .. z /\ c = <<k, c[2]>>
            BY <1>2, <2>1, <3>4
        <3> QED
            BY <2>4, <3>3, <3>5
    <2>9. psi \in Surjection(1 .. z, R)
        BY <2>7, <2>8 DEF Surjection, Injection
    <2>10. IsFiniteSet(1 .. z) /\ Cardinality(1 .. z) = z
        BY FS_Interval
    <2>11. IsFiniteSet(R) /\ Cardinality(R) = z
        BY <2>7, <2>9, <2>10, FS_Surjection
    <2> QED
        BY <2>1, <2>2, <2>11
<1> QED
    BY <1>1, <1>11, <1>12 DEF NoOthers

LEMMA TotalIsCells ==
    ASSUME NEW n \in Nat, NEW l \in [1 .. n -> Nat]
    PROVE  IsFiniteSet(Cells(l, n)) /\ Total(l) = Cardinality(Cells(l, n))
<1>1. DOMAIN l = 1 .. n
    OBVIOUS
<1>2. PICK g : /\ DOMAIN g = 0 .. n /\ g[0] = 0
               /\ \A i \in 1 .. n : g[i] = g[i - 1] + l[i]
               /\ Total(l) = g[n]
    BY <1>1, TotalTraced
<1>3. \A i \in 0 .. n : /\ IsFiniteSet(Cells(l, i)) /\ Cardinality(Cells(l, i)) \in Nat
                        /\ g[i] = Cardinality(Cells(l, i))
    BY <1>2, Sums
<1>4. n \in 0 .. n
    OBVIOUS
<1> QED
    BY <1>2, <1>3, <1>4

LengthsOf(eps) == [k \in DOMAIN eps |-> eps[k].length]

LEMMA TotalCells ==
    ASSUME NEW n \in Nat, NEW eps, LengthsOf(eps) \in [1 .. n -> Nat]
    PROVE  IsFiniteSet(Cells(LengthsOf(eps), n)) /\ TotalOf(eps) = Cardinality(Cells(LengthsOf(eps), n))
<1>1. TotalOf(eps) = Total(LengthsOf(eps))
    BY DEF TotalOf, LengthsOf
<1> QED
    BY <1>1, TotalIsCells

(* Each file of a new dataset.                                              *)
NewFileOf(d, e, k) ==
    /\ e \in EpisodeType /\ e.file = File(k - 1) /\ e.episode = k - 1
    /\ e.length = Length[e.of] /\ e.length \in Nat /\ e.length > 0
    /\ e.file \in DOMAIN d.data /\ Shows(d, e) /\ Has(d.data[e.file], e.of)
    /\ \A r \in DOMAIN d.data[e.file].rows : d.data[e.file].rows[r].episode = k - 1
    /\ e.of \notin Packed => Len(d.data[e.file].rows) = Length[e.of]
    /\ Len(d.data[e.file].rows) = Length[e.of] => Whole(d.data[e.file], e.of, e.episode)

LEMMA NewFileIs ==
    ASSUME NEW d, NEW was, NEW dk, NEW map, NEW old, NEW eps, NEW n \in Nat, NewAt(d, was, dk, map, old, eps, n),
           NEW k \in 1 .. n
    PROVE  NewFileOf(d, eps[k], k)
<1>1. PICK e, o : e = eps[k] /\ o = old[k]
    OBVIOUS
<1>2. PICK s : s = dk[map[k].root]
    OBVIOUS
<1>3. IsDataset(s) /\ Stocked(s, o) /\ map[k].file = o.file
    BY <1>1, <1>2 DEF NewAt, Origin
<1>4. /\ e \in EpisodeType /\ e.episode = k - 1 /\ e.file = File(k - 1)
      /\ e.length = o.length /\ e.of = o.of
    BY <1>1 DEF NewAt, AreReindexed, Placed
<1>5. o \in EpisodeType
    <2>1. old \in Seq(EpisodeType) /\ DOMAIN old = 1 .. n
        BY DEF NewAt
    <2> QED
        BY <1>1, <2>1
<1>6. e.length = Length[e.of] /\ e.length \in Nat /\ e.length > 0
    BY <1>3, <1>4, <1>5, LengthType DEF Stocked
<1>7. PICK file \in FileType : file = s.data[o.file]
    BY <1>3 DEF Stocked, IsDataset
<1>8. PICK x \in Int : x = k - 1
    OBVIOUS
<1>9. PICK new : new = Relabelled(file, x)
    OBVIOUS
<1>10. Relabels(file, x, new)
    BY <1>7, <1>8, <1>9, RelabelledIs
<1>11. /\ e.file \in DOMAIN d.data /\ d.data[e.file] = new
       /\ e.file \in DOMAIN d.video /\ d.video[e.file] = s.video[o.file]
    BY <1>2, <1>3, <1>4, <1>7, <1>8, <1>9 DEF NewAt, FilledTo
<1>12. Shows(d, e)
    BY <1>3, <1>4, <1>11 DEF Shows, Stocked
<1>13. Has(new, e.of)
    BY <1>3, <1>4, <1>7, <1>10, RelabelsHas DEF Stocked
<1>14. Len(new.rows) = Len(file.rows) /\ \A r \in DOMAIN new.rows : new.rows[r].episode = x
    BY <1>10 DEF Relabels
<1>15. e.of \notin Packed => Len(new.rows) = Length[e.of]
    BY <1>3, <1>4, <1>7, <1>14 DEF Stocked
<1>16. Len(new.rows) = Length[e.of] => Whole(new, e.of, x)
    <2>1. ASSUME Len(new.rows) = Length[e.of] PROVE Whole(file, e.of, o.episode)
        BY <1>3, <1>4, <1>7, <1>14, <2>1 DEF Stocked
    <2> QED
        BY <1>10, <2>1, RelabelsWhole
<1> QED
    BY <1>1, <1>4, <1>6, <1>8, <1>11, <1>12, <1>13, <1>14, <1>15, <1>16 DEF NewFileOf

LEMMA NewLengths ==
    ASSUME NEW d, NEW was, NEW dk, NEW map, NEW old, NEW eps, NEW n \in Nat, NewAt(d, was, dk, map, old, eps, n)
    PROVE  /\ LengthsOf(eps) \in [1 .. n -> Nat]
           /\ \A k \in 1 .. n : LengthsOf(eps)[k] = eps[k].length
<1>1. DOMAIN eps = 1 .. n
    BY DEF NewAt, AreReindexed
<1>2. \A k \in 1 .. n : eps[k].length \in Nat
    BY NewFileIs DEF NewFileOf
<1> QED
    BY <1>1, <1>2 DEF LengthsOf

NamesOf(n) == [k \in 1 .. n |-> File(k - 1)]
FramesOf(d) == [f \in DOMAIN d.data |-> [r \in DOMAIN d.data[f].rows |-> d.data[f].rows[r].frame + 1]]

LEMMA NewFillings ==
    ASSUME NEW d, NEW was, NEW dk, NEW map, NEW old, NEW eps, NEW n \in Nat, NewAt(d, was, dk, map, old, eps, n)
    PROVE  Fillings(d.data, RowsOf(d), NamesOf(n), n, LengthsOf(eps), FramesOf(d))
<1>1. PICK nm, l, fr : nm = NamesOf(n) /\ l = LengthsOf(eps) /\ fr = FramesOf(d)
    OBVIOUS
<1>2. \A k \in 1 .. n : NewFileOf(d, eps[k], k)
    BY NewFileIs
<1>3. l \in [1 .. n -> Nat] /\ \A k \in 1 .. n : l[k] = eps[k].length
    BY <1>1, NewLengths
<1>4. nm = [k \in 1 .. n |-> File(k - 1)]
    BY <1>1 DEF NamesOf
<1>5. nm \in [1 .. n -> DOMAIN d.data]
    <2>1. \A k \in 1 .. n : File(k - 1) \in DOMAIN d.data
        BY <1>2 DEF NewFileOf
    <2> QED
        BY <1>4, <2>1
<1>6. ASSUME NEW j \in 1 .. n, NEW k \in 1 .. n, nm[j] = nm[k] PROVE j = k
    <2>1. j - 1 \in Nat /\ k - 1 \in Nat /\ File(j - 1) = File(k - 1)
        BY <1>4, <1>6
    <2>2. j - 1 = k - 1
        BY <2>1, FilesDiffer
    <2> QED
        BY <2>2
<1>7. \A f \in DOMAIN d.data : DOMAIN RowsOf(d)[f] \subseteq Nat
    <2> SUFFICES ASSUME NEW f \in DOMAIN d.data PROVE DOMAIN RowsOf(d)[f] \subseteq Nat
        OBVIOUS
    <2>1. PICK rows \in Seq(RowType) : rows = d.data[f].rows
        BY DatasetFiles DEF NewAt
    <2>2. RowsOf(d)[f] = rows
        BY <2>1 DEF RowsOf
    <2>3. DOMAIN rows = 1 .. Len(rows) /\ Len(rows) \in Nat
        BY <2>1
    <2> QED
        BY <2>2, <2>3
<1>8. ASSUME NEW k \in 1 .. n, NEW i \in 1 .. l[k]
      PROVE  \E r \in DOMAIN RowsOf(d)[nm[k]] : fr[nm[k]][r] = i
    <2>1. PICK f : f = nm[k]
        OBVIOUS
    <2>2. f = eps[k].file /\ f \in DOMAIN d.data /\ Has(d.data[f], eps[k].of) /\ l[k] = Length[eps[k].of]
        BY <1>2, <1>3, <1>4, <2>1 DEF NewFileOf
    <2>3. PICK rows : rows = d.data[f].rows
        OBVIOUS
    <2>4. PICK r \in DOMAIN rows : rows[r].frame + 1 = i
        BY <2>2, <2>3 DEF Has
    <2>5. RowsOf(d)[f] = rows
        BY <2>2, <2>3 DEF RowsOf
    <2>6. fr[f] = [q \in DOMAIN rows |-> rows[q].frame + 1]
        BY <1>1, <2>2, <2>3 DEF FramesOf
    <2> QED
        BY <2>1, <2>4, <2>5, <2>6
<1>9. Fillings(d.data, RowsOf(d), nm, n, l, fr)
    BY <1>5, <1>6, <1>7, <1>8 DEF Fillings
<1> QED
    BY <1>1, <1>9

LEMMA NewRows ==
    ASSUME NEW d, NEW was, NEW dk, NEW map, NEW old, NEW eps, NEW n \in Nat, NewAt(d, was, dk, map, old, eps, n),
           Len(DataRows(d)) = TotalOf(eps)
    PROVE  NoOthers(d.data, RowsOf(d), NamesOf(n), n, LengthsOf(eps))
<1>1. PICK nm, l, fr : nm = NamesOf(n) /\ l = LengthsOf(eps) /\ fr = FramesOf(d)
    OBVIOUS
<1>2. PICK fs, part : fs = d.data /\ part = RowsOf(d)
    OBVIOUS
<1>3. Fillings(fs, part, nm, n, l, fr)
    BY <1>1, <1>2, NewFillings
<1>4. LengthsOf(eps) \in [1 .. n -> Nat]
    BY NewLengths
<1>5. IsFiniteSet(Cells(l, n)) /\ TotalOf(eps) = Cardinality(Cells(l, n)) /\ l \in [1 .. n -> Nat]
    BY <1>1, <1>4, TotalCells
<1>6. IsDataset(d)
    BY DEF NewAt
<1>7. DataRows(d) = Joint(fs, part)
    BY <1>2, <1>6, DataJoined
<1>8. Files(fs) /\ \A f \in DOMAIN fs : part[f] \in Seq(RowType)
    BY <1>2, <1>6, DatasetFiles DEF RowsOf
<1>9. AreJoined(fs, part)
    BY <1>8, PartsTogether
<1>10. IsFiniteSet(InFiles(fs, part)) /\ Cardinality(InFiles(fs, part)) = Cardinality(Cells(l, n))
    BY <1>5, <1>7, <1>9 DEF AreJoined
<1>11. NoOthers(fs, part, nm, n, l)
    BY <1>3, <1>5, <1>10, FramesFill
<1> QED
    BY <1>1, <1>2, <1>11

(* Every row of a new dataset is in the file of one of the episodes that    *)
(* were written, and these files are whole.                                 *)
AllNew(d, eps, n) ==
    /\ \A f \in DOMAIN d.data : \A r \in DOMAIN d.data[f].rows :
         \E k \in 1 .. n : f = eps[k].file /\ d.data[f].rows[r].episode = eps[k].episode
    /\ \A k \in 1 .. n : /\ NewFileOf(d, eps[k], k) /\ Sole(d, eps[k])
                         /\ Whole(d.data[eps[k].file], eps[k].of, eps[k].episode)

LEMMA RowsAllNew ==
    ASSUME NEW d, NEW was, NEW dk, NEW map, NEW old, NEW eps, NEW n \in Nat, NewAt(d, was, dk, map, old, eps, n),
           NoOthers(d.data, RowsOf(d), NamesOf(n), n, LengthsOf(eps))
    PROVE  AllNew(d, eps, n)
<1>1. \A k \in 1 .. n : NewFileOf(d, eps[k], k)
    BY NewFileIs
<1>2. IsDataset(d)
    BY DEF NewAt
<1>3. ASSUME NEW f \in DOMAIN d.data, NEW r \in DOMAIN d.data[f].rows
      PROVE  \E k \in 1 .. n : f = eps[k].file /\ d.data[f].rows[r].episode = eps[k].episode
    <2>1. PICK rows \in Seq(RowType) : rows = d.data[f].rows
        BY <1>2, DatasetFiles
    <2>2. RowsOf(d)[f] = rows
        BY <2>1 DEF RowsOf
    <2>3. r \in Nat /\ r \in DOMAIN rows
        BY <2>1
    <2>4. PICK p : p = <<f, r>>
        OBVIOUS
    <2>5. p \in InFiles(d.data, RowsOf(d)) /\ p[1] = f
        BY <2>2, <2>3, <2>4 DEF InFiles
    <2>6. PICK k \in 1 .. n : f = NamesOf(n)[k]
        BY <2>5 DEF NoOthers
    <2>7. f = eps[k].file
        BY <1>1, <2>6 DEF NewFileOf, NamesOf
    <2>8. d.data[f].rows[r].episode = eps[k].episode
        BY <1>1, <2>7 DEF NewFileOf
    <2> QED
        BY <2>7, <2>8
<1>4. ASSUME NEW k \in 1 .. n
      PROVE  Sole(d, eps[k]) /\ Whole(d.data[eps[k].file], eps[k].of, eps[k].episode)
    <2>1. ASSUME NEW f \in DOMAIN d.data, NEW r \in DOMAIN d.data[f].rows, d.data[f].rows[r].episode = eps[k].episode
          PROVE  f = eps[k].file
        <3>1. PICK j \in 1 .. n : f = eps[j].file /\ d.data[f].rows[r].episode = eps[j].episode
            BY <1>3
        <3>2. eps[j].episode = j - 1 /\ eps[k].episode = k - 1
            BY <1>1 DEF NewFileOf
        <3>3. j = k
            BY <2>1, <3>1, <3>2
        <3> QED
            BY <3>1, <3>3
    <2>2. Sole(d, eps[k])
        BY <2>1 DEF Sole
    <2>3. PICK f \in DOMAIN d.data : f = eps[k].file /\ f = NamesOf(n)[k]
        BY <1>1 DEF NewFileOf, NamesOf
    <2>4. PICK rows \in Seq(RowType) : rows = d.data[f].rows
        BY <1>2, DatasetFiles
    <2>5. RowsOf(d)[f] = rows
        BY <2>4 DEF RowsOf
    <2>6. Cardinality(DOMAIN rows) = LengthsOf(eps)[k]
        BY <2>3, <2>5 DEF NoOthers
    <2>7. DOMAIN rows = 1 .. Len(rows) /\ Len(rows) \in Nat
        BY <2>4
    <2>8. Cardinality(1 .. Len(rows)) = Len(rows)
        <3>1. PICK z \in Nat : z = Len(rows)
            BY <2>7
        <3>2. Cardinality(1 .. z) = z
            BY FS_Interval
        <3> QED
            BY <3>1, <3>2
    <2>9. LengthsOf(eps)[k] = eps[k].length
        BY NewLengths
    <2>10. Len(d.data[eps[k].file].rows) = Length[eps[k].of]
        BY <1>1, <2>3, <2>4, <2>6, <2>7, <2>8, <2>9 DEF NewFileOf
    <2>11. Whole(d.data[eps[k].file], eps[k].of, eps[k].episode)
        BY <1>1, <2>10 DEF NewFileOf
    <2> QED
        BY <2>2, <2>11
<1> QED
    BY <1>1, <1>3, <1>4 DEF AllNew

LEMMA MarksOfNone == ASSUME NEW rows, DOMAIN rows = {} PROVE MarksAreRight(rows)
BY DEF MarksAreRight

LEMMA AllNewExact ==
    ASSUME NEW d, NEW eps, NEW n \in Nat, AllNew(d, eps, n), SameRows(TableRows(d), eps, n)
    PROVE  Exact(d)
<1>1. ASSUME NEW q \in DOMAIN TableRows(d)
      PROVE  Owns(d, TableRows(d)[q]) /\ Shows(d, TableRows(d)[q])
    <2>1. PICK k \in 1 .. n : TableRows(d)[q] = eps[k]
        BY DEF SameRows
    <2>2. PICK e : e = eps[k]
        OBVIOUS
    <2>3. NewFileOf(d, e, k) /\ Sole(d, e) /\ Whole(d.data[e.file], e.of, e.episode)
        BY <2>2 DEF AllNew
    <2>4. e.file \in DOMAIN d.data /\ Shows(d, e)
        BY <2>3 DEF NewFileOf
    <2>5. Owns(d, e)
        BY <2>3, <2>4, WholeOwns
    <2> QED
        BY <2>1, <2>2, <2>4, <2>5
<1>2. ASSUME NEW f \in DOMAIN d.data, NEW r \in DOMAIN d.data[f].rows
      PROVE  \E q \in DOMAIN TableRows(d) : TableRows(d)[q].episode = d.data[f].rows[r].episode
    <2>1. PICK k \in 1 .. n : d.data[f].rows[r].episode = eps[k].episode
        BY DEF AllNew
    <2>2. PICK q \in DOMAIN TableRows(d) : TableRows(d)[q] = eps[k]
        BY DEF SameRows
    <2> QED
        BY <2>1, <2>2
<1>3. ASSUME NEW f \in DOMAIN d.data, d.data[f].stamped
      PROVE  MarksAreRight(d.data[f].rows)
    <2>1. CASE DOMAIN d.data[f].rows = {}
        BY <2>1, MarksOfNone
    <2>2. CASE DOMAIN d.data[f].rows # {}
        <3>1. PICK r : r \in DOMAIN d.data[f].rows
            BY <2>2
        <3>2. PICK k \in 1 .. n : f = eps[k].file
            BY <3>1 DEF AllNew
        <3>3. Whole(d.data[f], eps[k].of, eps[k].episode)
            BY <3>2 DEF AllNew
        <3> QED
            BY <1>3, <3>3 DEF Whole
    <2> QED
        BY <2>1, <2>2
<1> QED
    BY <1>1, <1>2, <1>3 DEF Exact

LEMMA NewExact ==
    ASSUME NEW d, NEW was, NEW dk, NEW map, NEW old, NEW eps, NEW n \in Nat, NewAt(d, was, dk, map, old, eps, n),
           Sound(d)
    PROVE  Exact(d)
<1>1. Len(TableRows(d)) = n /\ Len(DataRows(d)) = TotalOf(eps)
    BY DEF NewAt, Sound
<1>2. NoOthers(d.data, RowsOf(d), NamesOf(n), n, LengthsOf(eps))
    BY <1>1, NewRows
<1>3. AllNew(d, eps, n)
    BY <1>2, RowsAllNew
<1>4. SameRows(TableRows(d), eps, n)
    BY <1>1, NewTables
<1> QED
    BY <1>3, <1>4, AllNewExact

----------------------------------------------------------------------------
(* EDITS OF FRESH DATASETS.                                                 *)

(* Ranges that begin where the one before ends, as reindex_episodes makes   *)
(* them, tile the frames.                                                   *)
LEMMA ChainIsTile ==
    ASSUME NEW n \in Nat, NEW F \in [1 .. n -> Int], NEW T \in [1 .. n -> Int], NEW g, Chained(g, F, T, n)
    PROVE  Tile(F, T, n, g[n])
<1>1. PICK N \in Nat : N = g[n]
    BY ChainTiles
<1>2. /\ \A i \in 1 .. n : F[i] >= 0 /\ T[i] <= N
      /\ \A i, j \in 1 .. n : i < j => T[i] <= F[j]
      /\ \A x \in 0 .. N - 1 : \E i \in 1 .. n : x \in F[i] .. T[i] - 1
    BY <1>1, ChainTiles
<1>3. \A k \in 1 .. n : F[k] \in Int /\ T[k] \in Int /\ F[k] < T[k]
    BY DEF Chained
<1>4. ASSUME NEW k \in 1 .. n
      PROVE  F[k] .. T[k] - 1 # {} /\ \A x \in F[k] .. T[k] - 1 : x \in 0 .. N - 1
    <2>1. F[k] \in Int /\ T[k] \in Int /\ F[k] >= 0 /\ T[k] <= N /\ F[k] < T[k]
        BY <1>2, <1>3
    <2>2. F[k] \in F[k] .. T[k] - 1
        BY <2>1
    <2>3. \A x \in F[k] .. T[k] - 1 : x \in 0 .. N - 1
        BY <2>1
    <2> QED
        BY <2>2, <2>3
<1>5. ASSUME NEW i \in 1 .. n, NEW j \in 1 .. n, i # j
      PROVE  (F[i] .. T[i] - 1) \cap (F[j] .. T[j] - 1) = {}
    <2>1. T[i] <= F[j] \/ T[j] <= F[i]
        BY <1>2, <1>5
    <2> QED
        BY <1>3, <2>1
<1>6. UNION {F[k] .. T[k] - 1 : k \in 1 .. n} = 0 .. N - 1
    BY <1>2, <1>4
<1> QED
    BY <1>1, <1>4, <1>5, <1>6 DEF Tile

ToOf(eps) == [k \in DOMAIN eps |-> eps[k].to]

LEMMA ReindexedTiles ==
    ASSUME NEW n \in Nat, NEW eps, NEW old, AreReindexed(eps, old, n), LengthsOf(eps) \in [1 .. n -> Nat],
           \A k \in 1 .. n : LengthsOf(eps)[k] > 0
    PROVE  /\ FromOf(eps) \in [1 .. n -> Int] /\ ToOf(eps) \in [1 .. n -> Int]
           /\ Tile(FromOf(eps), ToOf(eps), n, TotalOf(eps))
<1>1. eps \in Seq(EpisodeType) /\ DOMAIN eps = 1 .. n
    BY DEF AreReindexed
<1>2. PICK l \in [1 .. n -> Nat] : l = LengthsOf(eps)
    OBVIOUS
<1>3. PICK F, T : F = FromOf(eps) /\ T = ToOf(eps)
    OBVIOUS
<1>4. \A k \in 1 .. n : F[k] = eps[k].from /\ T[k] = eps[k].to /\ l[k] = eps[k].length
    BY <1>1, <1>2, <1>3 DEF FromOf, ToOf, LengthsOf
<1>5. \A k \in 1 .. n : eps[k].from \in Int /\ eps[k].to \in Int
    BY <1>1, LengthType
<1>6. F \in [1 .. n -> Int] /\ T \in [1 .. n -> Int]
    BY <1>1, <1>3, <1>5 DEF FromOf, ToOf
<1>7. DOMAIN l = 1 .. n
    OBVIOUS
<1>8. PICK g : /\ DOMAIN g = 0 .. n /\ g[0] = 0
               /\ \A i \in 1 .. n : g[i] = g[i - 1] + l[i]
               /\ Total(l) = g[n]
    BY <1>7, TotalTraced
<1>9. \A k \in 1 .. n : F[k] = (IF k = 1 THEN 0 ELSE T[k - 1]) /\ T[k] = F[k] + l[k]
    <2> SUFFICES ASSUME NEW k \in 1 .. n
                 PROVE  F[k] = (IF k = 1 THEN 0 ELSE T[k - 1]) /\ T[k] = F[k] + l[k]
        OBVIOUS
    <2>1. PICK from : from = IF k = 1 THEN 0 ELSE eps[k - 1].to
        OBVIOUS
    <2>2. Placed(eps[k], old[k], k, from)
        BY <2>1 DEF AreReindexed
    <2>3. eps[k].from = from /\ eps[k].to = from + eps[k].length
        BY <2>2 DEF Placed
    <2>4. k # 1 => k - 1 \in 1 .. n
        OBVIOUS
    <2> QED
        BY <1>4, <2>1, <2>3, <2>4
<1>10. PICK S : S = {i \in 0 .. n : g[i] = IF i = 0 THEN 0 ELSE T[i]}
    OBVIOUS
<1>11. 0 \in S
    BY <1>8, <1>10
<1>12. ASSUME NEW i \in 0 .. n - 1, i \in S PROVE i + 1 \in S
    <2>1. PICK k \in 1 .. n : k = i + 1 /\ k - 1 = i /\ k \in 0 .. n /\ k # 0
        OBVIOUS
    <2>2. g[i] = IF i = 0 THEN 0 ELSE T[i]
        BY <1>10, <1>12
    <2>3. g[k] = g[i] + l[k]
        BY <1>8, <2>1
    <2>4. F[k] = g[i]
        BY <1>9, <2>1, <2>2
    <2>5. T[k] = F[k] + l[k]
        BY <1>9
    <2>6. g[k] = T[k]
        BY <2>3, <2>4, <2>5
    <2> QED
        BY <1>10, <2>1, <2>6
<1>13. \A i \in 0 .. n : i \in S
    <2>1. \A i \in 0 .. n - 1 : i \in S => i + 1 \in S
        BY <1>12
    <2> QED
        BY <1>11, <2>1, UpTo
<1>14. ASSUME NEW i \in 1 .. n PROVE F[i] = g[i - 1] /\ T[i] = g[i] /\ T[i] > F[i]
    <2>1. i - 1 \in 0 .. n /\ i \in 0 .. n /\ (i = 1 <=> i - 1 = 0) /\ i # 0
        OBVIOUS
    <2>2. g[i] = T[i]
        BY <1>10, <1>13, <2>1
    <2>3. g[i - 1] = IF i = 1 THEN 0 ELSE T[i - 1]
        BY <1>10, <1>13, <2>1
    <2>4. T[i] = F[i] + l[i] /\ l[i] > 0 /\ l[i] \in Nat /\ F[i] \in Int
        BY <1>2, <1>6, <1>9
    <2> QED
        BY <1>9, <2>2, <2>3, <2>4
<1>15. Chained(g, F, T, n)
    BY <1>8, <1>14 DEF Chained
<1>16. Tile(F, T, n, g[n])
    BY <1>6, <1>15, ChainIsTile
<1>17. TotalOf(eps) = g[n]
    BY <1>2, <1>8 DEF TotalOf, LengthsOf
<1> QED
    BY <1>3, <1>6, <1>16, <1>17

(* As many rows as the episodes have frames, if every file is whole.        *)
OnlyFiles(fs, part, nm, n, l) ==
    /\ nm \in [1 .. n -> DOMAIN fs] /\ \A j, k \in 1 .. n : nm[j] = nm[k] => j = k
    /\ \A f \in DOMAIN fs : \E k \in 1 .. n : f = nm[k]
    /\ \A k \in 1 .. n : DOMAIN part[nm[k]] = 1 .. l[k]

LEMMA WholeFilesFill ==
    ASSUME NEW fs, NEW part, NEW nm, NEW n \in Nat, NEW l \in [1 .. n -> Nat], OnlyFiles(fs, part, nm, n, l),
           IsFiniteSet(Cells(l, n))
    PROVE  Cardinality(InFiles(fs, part)) = Cardinality(Cells(l, n))
<1>1. PICK P, C : P = InFiles(fs, part) /\ C = Cells(l, n)
    OBVIOUS
<1>2. ASSUME NEW c \in C
      PROVE  /\ c[1] \in 1 .. n /\ c[2] \in Nat /\ c = <<c[1], c[2]>> /\ c[2] \in 1 .. l[c[1]]
    <2>1. c \in (1 .. n) \X Nat /\ 1 <= c[2] /\ c[2] <= l[c[1]]
        BY <1>1 DEF Cells
    <2>2. c[1] \in 1 .. n /\ c[2] \in Nat /\ c = <<c[1], c[2]>> /\ l[c[1]] \in Nat
        BY <2>1
    <2> QED
        BY <2>1, <2>2
<1>3. PICK phi : phi = [c \in C |-> <<nm[c[1]], c[2]>>]
    OBVIOUS
<1>4. ASSUME NEW c \in C PROVE phi[c] \in P
    <2>1. nm[c[1]] \in DOMAIN fs /\ c[2] \in DOMAIN part[nm[c[1]]]
        BY <1>2 DEF OnlyFiles
    <2> QED
        BY <1>1, <1>2, <1>3, <2>1 DEF InFiles
<1>5. ASSUME NEW p \in P PROVE \E c \in C : phi[c] = p
    <2>1. p[1] \in DOMAIN fs /\ p[2] \in Nat /\ p = <<p[1], p[2]>> /\ p[2] \in DOMAIN part[p[1]]
        BY <1>1 DEF InFiles
    <2>2. PICK k \in 1 .. n : p[1] = nm[k]
        BY <2>1 DEF OnlyFiles
    <2>3. p[2] \in 1 .. l[k] /\ l[k] \in Nat
        BY <2>1, <2>2 DEF OnlyFiles
    <2>4. PICK c : c = <<k, p[2]>>
        OBVIOUS
    <2>5. c \in C
        BY <1>1, <2>1, <2>3, <2>4 DEF Cells
    <2> QED
        BY <1>3, <2>1, <2>2, <2>4, <2>5
<1>6. ASSUME NEW c \in C, NEW e \in C, phi[c] = phi[e] PROVE c = e
    <2>1. nm[c[1]] = nm[e[1]] /\ c[2] = e[2]
        BY <1>3, <1>6
    <2>2. c[1] = e[1]
        BY <1>2, <2>1 DEF OnlyFiles
    <2> QED
        BY <1>2, <2>1, <2>2
<1>7. phi \in Surjection(C, P)
    BY <1>3, <1>4, <1>5 DEF Surjection
<1>8. phi \in Injection(C, P)
    BY <1>3, <1>4, <1>6 DEF Injection, IsInjective
<1>9. Cardinality(P) = Cardinality(C)
    BY <1>1, <1>7, <1>8, FS_Surjection
<1> QED
    BY <1>1, <1>9

(* A dataset written to a directory of its own.                             *)
LEMMA NewFiles ==
    ASSUME NEW d, NEW was, NEW dk, NEW map, NEW old, NEW eps, NEW n \in Nat, NewAt(d, was, dk, map, old, eps, n),
           DOMAIN was.data = {}
    PROVE  /\ \A f \in DOMAIN d.data : \E k \in 1 .. n : f = eps[k].file
           /\ \A k \in 1 .. n : Stocked(d, eps[k])
<1>1. \A k \in 1 .. n : NewFileOf(d, eps[k], k)
    BY NewFileIs
<1>2. ASSUME NEW f \in DOMAIN d.data PROVE \E k \in 1 .. n : f = eps[k].file
    <2>1. PICK k \in 1 .. n : f = File(k - 1)
        BY DEF NewAt, FilledTo
    <2> QED
        BY <1>1, <2>1 DEF NewFileOf
<1>3. ASSUME NEW k \in 1 .. n PROVE Stocked(d, eps[k])
    <2>1. PICK e : e = eps[k]
        OBVIOUS
    <2>2. NewFileOf(d, e, k)
        BY <1>1, <2>1
    <2>3. ASSUME NEW f \in DOMAIN d.data, NEW r \in DOMAIN d.data[f].rows, d.data[f].rows[r].episode = e.episode
          PROVE  f = e.file
        <3>1. PICK j \in 1 .. n : f = eps[j].file
            BY <1>2
        <3>2. d.data[f].rows[r].episode = j - 1
            BY <1>1, <3>1 DEF NewFileOf
        <3>3. e.episode = k - 1
            BY <2>2 DEF NewFileOf
        <3>4. j = k
            BY <2>3, <3>1, <3>2, <3>3
        <3> QED
            BY <2>1, <3>1, <3>4
    <2>4. Sole(d, e)
        BY <2>3 DEF Sole
    <2>5. Stocked(d, e)
        BY <2>2, <2>4 DEF NewFileOf, Stocked, Shows
    <2> QED
        BY <2>1, <2>5
<1> QED
    BY <1>2, <1>3

LEMMA NewCount ==
    ASSUME NEW d, NEW was, NEW dk, NEW map, NEW old, NEW eps, NEW n \in Nat, NewAt(d, was, dk, map, old, eps, n),
           DOMAIN was.data = {}, \A k \in 1 .. n : eps[k].of \notin Packed
    PROVE  Len(DataRows(d)) = TotalOf(eps)
<1>1. PICK nm, l : nm = NamesOf(n) /\ l = LengthsOf(eps)
    OBVIOUS
<1>2. PICK fs, part : fs = d.data /\ part = RowsOf(d)
    OBVIOUS
<1>3. LengthsOf(eps) \in [1 .. n -> Nat] /\ \A k \in 1 .. n : LengthsOf(eps)[k] = eps[k].length
    BY NewLengths
<1>4. IsFiniteSet(Cells(l, n)) /\ TotalOf(eps) = Cardinality(Cells(l, n)) /\ l \in [1 .. n -> Nat]
    BY <1>1, <1>3, TotalCells
<1>5. IsDataset(d)
    BY DEF NewAt
<1>6. \A k \in 1 .. n : NewFileOf(d, eps[k], k) /\ nm[k] = eps[k].file
    <2> SUFFICES ASSUME NEW k \in 1 .. n PROVE NewFileOf(d, eps[k], k) /\ nm[k] = eps[k].file
        OBVIOUS
    <2>1. NewFileOf(d, eps[k], k)
        BY NewFileIs
    <2> QED
        BY <1>1, <2>1 DEF NamesOf, NewFileOf
<1>7. Fillings(fs, part, nm, n, l, FramesOf(d))
    BY <1>1, <1>2, NewFillings
<1>8. \A f \in DOMAIN fs : \E k \in 1 .. n : f = nm[k]
    <2>1. \A f \in DOMAIN d.data : \E k \in 1 .. n : f = eps[k].file
        BY NewFiles
    <2> QED
        BY <1>2, <1>6, <2>1
<1>9. ASSUME NEW k \in 1 .. n PROVE DOMAIN part[nm[k]] = 1 .. l[k]
    <2>1. PICK f \in DOMAIN d.data : f = nm[k] /\ f = eps[k].file
        BY <1>6 DEF NewFileOf
    <2>2. PICK rows \in Seq(RowType) : rows = d.data[f].rows
        BY <1>5, DatasetFiles
    <2>3. part[f] = rows
        BY <1>2, <2>2 DEF RowsOf
    <2>4. Len(rows) = eps[k].length
        BY <1>6, <2>1, <2>2 DEF NewFileOf
    <2>5. DOMAIN rows = 1 .. Len(rows) /\ l[k] = eps[k].length
        BY <1>1, <1>3
    <2> QED
        BY <2>1, <2>3, <2>4, <2>5
<1>10. OnlyFiles(fs, part, nm, n, l)
    BY <1>7, <1>8, <1>9 DEF OnlyFiles, Fillings
<1>11. Cardinality(InFiles(fs, part)) = Cardinality(Cells(l, n))
    BY <1>4, <1>10, WholeFilesFill
<1>12. DataRows(d) = Joint(fs, part)
    BY <1>2, <1>5, DataJoined
<1>13. Files(fs) /\ \A f \in DOMAIN fs : part[f] \in Seq(RowType)
    BY <1>2, <1>5, DatasetFiles DEF RowsOf
<1>14. AreJoined(fs, part)
    BY <1>13, PartsTogether
<1> QED
    BY <1>4, <1>11, <1>12, <1>14 DEF AreJoined

(* Its ranges, in the validator's words.                                    *)
Tiled(eps, N) ==
    /\ \A k \in DOMAIN eps : Span(eps[k]) # {}
    /\ \A i, k \in DOMAIN eps : i # k => Span(eps[i]) \cap Span(eps[k]) = {}
    /\ UNION {Span(eps[k]) : k \in DOMAIN eps} = 0 .. N - 1

LEMMA TilesAreSpans ==
    ASSUME NEW n \in Nat, NEW eps, DOMAIN eps = 1 .. n, NEW N, Tile(FromOf(eps), ToOf(eps), n, N)
    PROVE  Tiled(eps, N)
<1>1. PICK F, T : F = FromOf(eps) /\ T = ToOf(eps)
    OBVIOUS
<1>2. \A k \in 1 .. n : Span(eps[k]) = F[k] .. T[k] - 1
    BY <1>1 DEF Span, FromOf, ToOf
<1>3. {Span(eps[k]) : k \in DOMAIN eps} = {F[k] .. T[k] - 1 : k \in 1 .. n}
    BY <1>2
<1>4. Tile(F, T, n, N)
    BY <1>1
<1>5. \A k \in DOMAIN eps : Span(eps[k]) # {}
    BY <1>2, <1>4 DEF Tile
<1>6. ASSUME NEW i \in DOMAIN eps, NEW k \in DOMAIN eps, i # k PROVE Span(eps[i]) \cap Span(eps[k]) = {}
    <2>1. (F[i] .. T[i] - 1) \cap (F[k] .. T[k] - 1) = {}
        BY <1>4, <1>6 DEF Tile
    <2> QED
        BY <1>2, <2>1
<1>7. UNION {F[k] .. T[k] - 1 : k \in 1 .. n} = 0 .. N - 1
    BY <1>4 DEF Tile
<1>8. UNION {Span(eps[k]) : k \in DOMAIN eps} = 0 .. N - 1
    BY <1>3, <1>7
<1> QED
    BY <1>5, <1>6, <1>8 DEF Tiled

LEMMA NewTiled ==
    ASSUME NEW d, NEW was, NEW dk, NEW map, NEW old, NEW eps, NEW n \in Nat, NewAt(d, was, dk, map, old, eps, n)
    PROVE  Tiled(eps, TotalOf(eps))
<1>1. AreReindexed(eps, old, n)
    BY DEF NewAt
<1>2. LengthsOf(eps) \in [1 .. n -> Nat] /\ \A k \in 1 .. n : LengthsOf(eps)[k] = eps[k].length
    BY NewLengths
<1>3. \A k \in 1 .. n : LengthsOf(eps)[k] > 0
    <2> SUFFICES ASSUME NEW k \in 1 .. n PROVE LengthsOf(eps)[k] > 0
        OBVIOUS
    <2>1. eps[k].length > 0
        BY NewFileIs DEF NewFileOf
    <2> QED
        BY <1>2, <2>1
<1>4. Tile(FromOf(eps), ToOf(eps), n, TotalOf(eps))
    BY <1>1, <1>2, <1>3, ReindexedTiles
<1>5. DOMAIN eps = 1 .. n
    BY <1>1 DEF AreReindexed
<1> QED
    BY <1>4, <1>5, TilesAreSpans

LEMMA NewSound ==
    ASSUME NEW d, NEW was, NEW dk, NEW map, NEW old, NEW eps, NEW n \in Nat, NewAt(d, was, dk, map, old, eps, n),
           DOMAIN was.data = {}, was.torn = {}, d # Absent, TableRows(d) = eps,
           Len(DataRows(d)) = TotalOf(eps), n > 0
    PROVE  Sound(d)
<1>1. d.torn = {} /\ d.info.episodes = n /\ d.info.frames = TotalOf(eps) /\ Len(eps) = n
    BY DEF NewAt, AreReindexed
<1>2. <<0, 0>> \in DOMAIN d.tables
    BY DEF NewAt, Held
<1>3. d.tables # NoFiles
    BY <1>2 DEF NoFiles
<1>4. 1 \in 1 .. n
    OBVIOUS
<1>5. NewFileOf(d, eps[1], 1)
    BY <1>4, NewFileIs
<1>6. eps[1].file \in DOMAIN d.data /\ eps[1].file \in DOMAIN d.video
    BY <1>5 DEF NewFileOf, Shows
<1>7. d.data # NoFiles /\ d.video # NoFiles
    BY <1>6 DEF NoFiles
<1>8. Tiled(eps, TotalOf(eps))
    BY NewTiled
<1> QED
    BY <1>1, <1>3, <1>7, <1>8 DEF Sound, Tiled

LEMMA NewFresh ==
    ASSUME NEW d, NEW was, NEW dk, NEW map, NEW old, NEW eps, NEW n \in Nat, NewAt(d, was, dk, map, old, eps, n),
           DOMAIN was.tables = {}, DOMAIN was.data = {}, was.torn = {}, d # Absent
    PROVE  Fresh(d)
<1>1. TableRows(d) = eps
    BY NewTables
<1>2. DOMAIN eps = 1 .. n /\ (eps # <<>> => n > 0)
    BY DEF NewAt, AreReindexed
<1>3. \A k \in DOMAIN TableRows(d) : Stocked(d, TableRows(d)[k])
    BY <1>1, <1>2, NewFiles
<1>4. ASSUME Unpacked(d) PROVE Sound(d) /\ OneEach(d)
    <2>1. n > 0 /\ \A k \in 1 .. n : eps[k].of \notin Packed
        BY <1>1, <1>2, <1>4 DEF Unpacked
    <2>2. Len(DataRows(d)) = TotalOf(eps)
        BY <2>1, NewCount
    <2>3. Sound(d)
        BY <1>1, <2>1, <2>2, NewSound
    <2>4. ASSUME NEW f \in DOMAIN d.data
          PROVE  \E k \in DOMAIN TableRows(d) :
                   TableRows(d)[k].file = f /\ Len(d.data[f].rows) = TableRows(d)[k].length
        <3>1. PICK k \in 1 .. n : f = eps[k].file
            BY NewFiles
        <3>2. Len(d.data[f].rows) = eps[k].length
            BY <2>1, <3>1, NewFileIs DEF NewFileOf
        <3> QED
            BY <1>1, <1>2, <3>1, <3>2
    <2> QED
        BY <2>3, <2>4 DEF OneEach
<1> QED
    BY <1>3, <1>4 DEF Fresh

(* Every row's place is listed once.                                        *)
PlaceType == [file : Nat \X Nat, row : Nat]
PlacesOf(d) == [f \in DOMAIN d.data |-> Places(d, f)]
RowAt(d, p) == d.data[p.file].rows[p.row]
IsPlace(d, p) == /\ p = Place(p.file, p.row)
                 /\ p.file \in DOMAIN d.data /\ p.row \in DOMAIN d.data[p.file].rows

ListsPlaces(J, d, m) ==
    /\ DOMAIN J = 1 .. m /\ \A k \in 1 .. m : IsPlace(d, J[k])
    /\ \A f \in DOMAIN d.data : \A r \in DOMAIN d.data[f].rows : \E k \in 1 .. m : J[k] = Place(f, r)
    /\ \A j, k \in 1 .. m : J[j] = J[k] => j = k

LEMMA PlacesTyped ==
    ASSUME NEW d, IsDataset(d), NEW f \in DOMAIN d.data
    PROVE  /\ Places(d, f) \in Seq(PlaceType) /\ PlacesOf(d)[f] = Places(d, f)
           /\ DOMAIN Places(d, f) = DOMAIN d.data[f].rows
           /\ \A r \in DOMAIN d.data[f].rows : Places(d, f)[r] = Place(f, r) /\ r \in Nat
<1>1. PICK rows \in Seq(RowType) : rows = d.data[f].rows
    BY DatasetFiles
<1>2. PICK n \in Nat : n = Len(rows) /\ DOMAIN rows = 1 .. n
    BY <1>1
<1>3. f \in Nat \X Nat
    BY DatasetFiles DEF Files
<1>4. Places(d, f) = [r \in 1 .. n |-> [file |-> f, row |-> r]]
    BY <1>1, <1>2 DEF Places
<1>5. \A r \in 1 .. n : [file |-> f, row |-> r] \in PlaceType
    BY <1>3 DEF PlaceType
<1>6. Places(d, f) \in Seq(PlaceType)
    BY <1>2, <1>4, <1>5
<1> QED
    BY <1>1, <1>2, <1>4, <1>6 DEF Place, PlacesOf

LEMMA PlacesJoined ==
    ASSUME NEW d, IsDataset(d)
    PROVE  AllPlaces(d) = Joint(d.data, PlacesOf(d)) /\ AreJoined(d.data, PlacesOf(d))
<1>1. Files(d.data)
    BY DatasetFiles
<1>2. AllPlaces(d) = Joint(d.data, PlacesOf(d))
    <2>1. PICK m \in Nat : InOrder(d.data) \in [1 .. m -> DOMAIN d.data]
        BY <1>1, FilesInOrder
    <2>2. PICK names : names = InOrder(d.data)
        OBVIOUS
    <2>3. [k \in DOMAIN names |-> Places(d, names[k])] = [k \in DOMAIN names |-> PlacesOf(d)[names[k]]]
        BY <2>1, <2>2 DEF PlacesOf
    <2> QED
        BY <2>2, <2>3 DEF AllPlaces, Joint
<1>3. \A f \in DOMAIN d.data : PlacesOf(d)[f] \in Seq(PlaceType)
    BY PlacesTyped
<1> QED
    BY <1>1, <1>2, <1>3, PartsTogether

LEMMA AllPlacesListed ==
    ASSUME NEW d, IsDataset(d)
    PROVE  \E m \in Nat : ListsPlaces(AllPlaces(d), d, m)
<1>1. PICK J : J = AllPlaces(d)
    OBVIOUS
<1>2. PICK P, part : P = InFiles(d.data, PlacesOf(d)) /\ part = PlacesOf(d)
    OBVIOUS
<1>3. J = Joint(d.data, part) /\ AreJoined(d.data, part)
    BY <1>1, <1>2, PlacesJoined
<1>4. J \in Seq(PlaceType)
    <2>1. Files(d.data) /\ \A f \in DOMAIN d.data : part[f] \in Seq(PlaceType)
        BY <1>2, DatasetFiles, PlacesTyped
    <2> QED
        BY <1>3, <2>1, PartsJoined
<1>5. PICK m \in Nat : m = Len(J) /\ DOMAIN J = 1 .. m
    BY <1>4
<1>6. /\ \A p \in P : \E k \in 1 .. m : J[k] = part[p[1]][p[2]]
      /\ \A k \in 1 .. m : \E p \in P : J[k] = part[p[1]][p[2]]
      /\ IsFiniteSet(P) /\ Cardinality(P) = m
    <2>1. P = InFiles(d.data, part)
        BY <1>2
    <2>2. /\ \A p \in P : \E k \in DOMAIN J : J[k] = part[p[1]][p[2]]
          /\ \A k \in DOMAIN J : \E p \in P : J[k] = part[p[1]][p[2]]
          /\ IsFiniteSet(P) /\ Cardinality(P) = Len(J)
        BY <1>3, <2>1 DEF AreJoined
    <2> QED
        BY <1>5, <2>2
<1>7. ASSUME NEW p \in P
      PROVE  /\ p[1] \in DOMAIN d.data /\ p[2] \in DOMAIN d.data[p[1]].rows /\ p = <<p[1], p[2]>>
             /\ part[p[1]][p[2]] = Place(p[1], p[2])
    <2>1. p[1] \in DOMAIN d.data /\ p[2] \in DOMAIN part[p[1]] /\ p = <<p[1], p[2]>>
        BY <1>2 DEF InFiles
    <2> QED
        BY <1>2, <2>1, PlacesTyped
<1>8. ASSUME NEW f \in DOMAIN d.data, NEW r \in DOMAIN d.data[f].rows
      PROVE  <<f, r>> \in P
    <2>1. r \in DOMAIN part[f] /\ r \in Nat
        BY <1>2, PlacesTyped
    <2> QED
        BY <1>2, <2>1 DEF InFiles
<1>9. ASSUME NEW k \in 1 .. m PROVE IsPlace(d, J[k])
    <2>1. PICK p \in P : J[k] = Place(p[1], p[2])
        BY <1>6, <1>7
    <2>2. J[k].file = p[1] /\ J[k].row = p[2]
        BY <2>1 DEF Place
    <2> QED
        BY <1>7, <2>1, <2>2 DEF IsPlace
<1>10. ASSUME NEW f \in DOMAIN d.data, NEW r \in DOMAIN d.data[f].rows
       PROVE  \E k \in 1 .. m : J[k] = Place(f, r)
    <2>1. PICK p \in P : p = <<f, r>>
        BY <1>8
    <2> QED
        BY <1>6, <1>7, <2>1
<1>11. PICK Q : Q = {J[k] : k \in 1 .. m}
    OBVIOUS
<1>12. PICK b : b = [p \in P |-> Place(p[1], p[2])]
    OBVIOUS
<1>13. b \in Surjection(P, Q)
    <2>1. \A p \in P : b[p] \in Q
        BY <1>6, <1>7, <1>11, <1>12
    <2>2. \A q \in Q : \E p \in P : b[p] = q
        BY <1>6, <1>7, <1>11, <1>12
    <2> QED
        BY <1>12, <2>1, <2>2 DEF Surjection
<1>14. b \in Injection(P, Q)
    <2>1. ASSUME NEW p \in P, NEW q \in P, b[p] = b[q] PROVE p = q
        <3>1. Place(p[1], p[2]) = Place(q[1], q[2])
            BY <1>12, <2>1
        <3>2. p[1] = q[1] /\ p[2] = q[2]
            BY <3>1 DEF Place
        <3> QED
            BY <1>7, <3>2
    <2> QED
        BY <1>13, <2>1 DEF Injection, IsInjective, Surjection
<1>15. IsFiniteSet(Q) /\ Cardinality(Q) = m
    BY <1>6, <1>13, <1>14, FS_Surjection
<1>16. J \in Surjection(1 .. m, Q)
    <2>1. J = [k \in 1 .. m |-> J[k]]
        BY <1>4, <1>5
    <2> QED
        BY <1>11, <2>1 DEF Surjection
<1>17. IsFiniteSet(1 .. m) /\ Cardinality(1 .. m) = m
    BY FS_Interval
<1>18. J \in Injection(1 .. m, Q)
    BY <1>15, <1>16, <1>17, FS_Surjection
<1>19. \A j, k \in 1 .. m : J[j] = J[k] => j = k
    BY <1>18 DEF Injection, IsInjective
<1>20. ListsPlaces(J, d, m)
    BY <1>5, <1>9, <1>10, <1>19 DEF ListsPlaces
<1> QED
    BY <1>1, <1>20

----------------------------------------------------------------------------
(* STAMPING IS EXACT.                                                       *)

(* The rows of a label, each once, by frame.                                *)
ListsLabel(at, d, x, c) ==
    /\ DOMAIN at = 1 .. c
    /\ \A i \in 1 .. c : IsPlace(d, at[i]) /\ RowAt(d, at[i]).episode = x
    /\ \A f \in DOMAIN d.data : \A r \in DOMAIN d.data[f].rows :
         d.data[f].rows[r].episode = x => \E i \in 1 .. c : at[i] = Place(f, r)
    /\ \A i, j \in 1 .. c : at[i] = at[j] => i = j

FrameAt(d, at) == [k \in DOMAIN at |-> RowAt(d, at[k]).frame]

LEMMA PlaceRow == ASSUME NEW d, NEW f, NEW r PROVE RowAt(d, Place(f, r)) = d.data[f].rows[r]
BY DEF RowAt, Place

LEMMA PlaceTyped == ASSUME NEW d, IsDataset(d), NEW p, IsPlace(d, p) PROVE RowAt(d, p) \in RowType
<1>1. p.file \in DOMAIN d.data /\ p.row \in DOMAIN d.data[p.file].rows
    BY DEF IsPlace
<1>2. d.data[p.file].rows \in Seq(RowType)
    BY <1>1, DatasetFiles
<1> QED
    BY <1>1, <1>2 DEF RowAt

LEMMA LabelledListed ==
    ASSUME NEW d, IsDataset(d), NEW x
    PROVE  \E c \in Nat : ListsLabel(Labelled(d, x), d, x, c)
<1>1. PICK J : J = AllPlaces(d)
    OBVIOUS
<1>2. PICK m \in Nat : ListsPlaces(J, d, m)
    BY <1>1, AllPlacesListed
<1>3. PICK K : K = {k \in DOMAIN J : RowAt(d, J[k]).episode = x}
    OBVIOUS
<1>4. PICK at : at = Kept(J, K)
    OBVIOUS
<1>5. at = Labelled(d, x)
    BY <1>1, <1>3, <1>4, Zenon DEF Labelled, RowAt
<1>6. DOMAIN J = 1 .. m /\ K \in SUBSET (1 .. m)
    BY <1>2, <1>3 DEF ListsPlaces
<1>7. KeptAt(J, K)
    BY <1>6, KeptPicks
<1>8. PICK pk : Picks(pk, K) /\ Kept(J, K) = [i \in 1 .. Cardinality(K) |-> J[pk[i]]]
    BY <1>7 DEF KeptAt
<1>9. PICK c \in Nat : c = Cardinality(K)
    BY <1>7 DEF KeptAt
<1>10. /\ pk \in [1 .. c -> K] /\ \A k \in K : \E i \in 1 .. c : pk[i] = k
       /\ \A i, j \in 1 .. c : i < j => pk[i] < pk[j]
    BY <1>8, <1>9 DEF Picks
<1>11. at = [i \in 1 .. c |-> J[pk[i]]]
    BY <1>4, <1>8, <1>9
<1>12. \A i \in 1 .. c : pk[i] \in K /\ pk[i] \in 1 .. m /\ at[i] = J[pk[i]]
    BY <1>6, <1>10, <1>11
<1>13. ASSUME NEW i \in 1 .. c PROVE IsPlace(d, at[i]) /\ RowAt(d, at[i]).episode = x
    <2>1. IsPlace(d, J[pk[i]])
        BY <1>2, <1>12 DEF ListsPlaces
    <2>2. RowAt(d, J[pk[i]]).episode = x
        BY <1>3, <1>12
    <2> QED
        BY <1>12, <2>1, <2>2
<1>14. ASSUME NEW f \in DOMAIN d.data, NEW r \in DOMAIN d.data[f].rows, d.data[f].rows[r].episode = x
       PROVE  \E i \in 1 .. c : at[i] = Place(f, r)
    <2>1. PICK k \in 1 .. m : J[k] = Place(f, r)
        BY <1>2 DEF ListsPlaces
    <2>2. k \in K
        BY <1>3, <1>6, <1>14, <2>1, PlaceRow
    <2>3. PICK i \in 1 .. c : pk[i] = k
        BY <1>10, <2>2
    <2> QED
        BY <1>12, <2>1, <2>3
<1>15. ASSUME NEW i \in 1 .. c, NEW j \in 1 .. c, at[i] = at[j] PROVE i = j
    <2>1. pk[i] = pk[j] /\ pk[i] \in Int /\ pk[j] \in Int
        BY <1>2, <1>12, <1>15 DEF ListsPlaces
    <2>2. ~ (i < j) /\ ~ (j < i)
        BY <1>10, <2>1
    <2> QED
        BY <2>2
<1>16. ListsLabel(at, d, x, c)
    BY <1>11, <1>13, <1>14, <1>15 DEF ListsLabel
<1> QED
    BY <1>5, <1>16

(* Frames of a label in order, whatever they are.                           *)
LEMMA EpisodeRowsListed ==
    ASSUME NEW d, IsDataset(d), NEW x
    PROVE  \E c \in Nat : \E so :
             /\ ListsLabel(Labelled(d, x), d, x, c) /\ Sorts(so, FrameAt(d, Labelled(d, x)), c)
             /\ EpisodeRows(d, x) = [k \in 1 .. c |-> Labelled(d, x)[so[k]]]
<1>1. PICK at : at = Labelled(d, x)
    OBVIOUS
<1>2. PICK c \in Nat : ListsLabel(at, d, x, c)
    BY <1>1, LabelledListed
<1>3. PICK key : key = FrameAt(d, at)
    OBVIOUS
<1>4. DOMAIN at = 1 .. c
    BY <1>2 DEF ListsLabel
<1>5. ASSUME NEW k \in 1 .. c PROVE key[k] \in Int
    <2>1. RowAt(d, at[k]) \in RowType
        BY <1>2, PlaceTyped DEF ListsLabel
    <2>2. key[k] = RowAt(d, at[k]).frame
        BY <1>3, <1>4 DEF FrameAt
    <2> QED
        BY <2>1, <2>2 DEF RowType
<1>6. SortedAt(at, key, c)
    BY <1>4, <1>5, SortedBySorts
<1>7. PICK so : Sorts(so, key, c) /\ SortedBy(at, key) = [k \in 1 .. c |-> at[so[k]]]
    BY <1>6 DEF SortedAt
<1>8. EpisodeRows(d, x) = SortedBy(at, key)
    BY <1>1, <1>3 DEF EpisodeRows, FrameAt, RowAt
<1> QED
    BY <1>1, <1>2, <1>3, <1>7, <1>8

LEMMA EpisodeRowsLabelled ==
    ASSUME NEW d, IsDataset(d), NEW x
    PROVE  \E c \in Nat : /\ DOMAIN EpisodeRows(d, x) = 1 .. c
                          /\ EpisodeRows(d, x) = [k \in 1 .. c |-> EpisodeRows(d, x)[k]]
                          /\ \A k \in 1 .. c : RowAt(d, EpisodeRows(d, x)[k]).episode = x
                          /\ x \in LabelsOf(d) => c > 0
<1>1. PICK at, ER : at = Labelled(d, x) /\ ER = EpisodeRows(d, x)
    OBVIOUS
<1>2. PICK c \in Nat : \E so : /\ ListsLabel(at, d, x, c) /\ Sorts(so, FrameAt(d, at), c)
                               /\ ER = [k \in 1 .. c |-> at[so[k]]]
    BY <1>1, EpisodeRowsListed
<1>3. PICK so : /\ ListsLabel(at, d, x, c) /\ Sorts(so, FrameAt(d, at), c)
                /\ ER = [k \in 1 .. c |-> at[so[k]]]
    BY <1>2
<1>4. \A k \in 1 .. c : so[k] \in 1 .. c
    BY <1>3 DEF Sorts
<1>5. \A k \in 1 .. c : RowAt(d, ER[k]).episode = x
    BY <1>3, <1>4 DEF ListsLabel
<1>6. ASSUME x \in LabelsOf(d) PROVE c > 0
    <2>1. PICK f \in DOMAIN d.data : \E r \in DOMAIN d.data[f].rows : d.data[f].rows[r].episode = x
        BY <1>6 DEF LabelsOf
    <2>2. PICK r \in DOMAIN d.data[f].rows : d.data[f].rows[r].episode = x
        BY <2>1
    <2>3. \E i \in 1 .. c : at[i] = Place(f, r)
        BY <1>3, <2>2 DEF ListsLabel
    <2> QED
        BY <2>3
<1>7. DOMAIN ER = 1 .. c /\ ER = [k \in 1 .. c |-> ER[k]]
    BY <1>3
<1> QED
    BY <1>1, <1>5, <1>6, <1>7

(* The rows of an episode that owns its frames.                             *)
OwnRow(d, e, p) ==
    /\ IsPlace(d, p) /\ p.file = e.file /\ RowAt(d, p).episode = e.episode
    /\ RowAt(d, p).frame \in Int /\ RowAt(d, p).frame + 1 \in 1 .. Length[e.of]
    /\ RowAt(d, p).of = [recording |-> e.of, frame |-> RowAt(d, p).frame + 1]

LEMMA OwnRowIs ==
    ASSUME NEW d, IsDataset(d), NEW e \in EpisodeType, Owns(d, e), NEW p, IsPlace(d, p),
           RowAt(d, p).episode = e.episode
    PROVE  OwnRow(d, e, p)
<1>1. p.file \in DOMAIN d.data /\ p.row \in DOMAIN d.data[p.file].rows
    BY DEF IsPlace
<1>2. d.data[p.file].rows[p.row].episode = e.episode
    BY DEF RowAt
<1>3. p.file = e.file /\ OwnFrame(RowAt(d, p), e)
    <2>1. OwnsRows(d, e)
        BY OwnsParts
    <2>2. p.file = e.file /\ OwnFrame(d.data[p.file].rows[p.row], e)
        BY <1>1, <1>2, <2>1, Zenon DEF OwnsRows
    <2> QED
        BY <2>2, Zenon DEF RowAt
<1>4. RowAt(d, p).frame \in Int
    BY PlaceTyped DEF RowType
<1> QED
    BY <1>3, <1>4, Zenon DEF OwnRow, OwnFrame

LEMMA OwnRowsDiffer ==
    ASSUME NEW d, NEW e, Owns(d, e), NEW p, OwnRow(d, e, p), NEW q, OwnRow(d, e, q),
           RowAt(d, p).frame = RowAt(d, q).frame
    PROVE  p = q
<1>1. PICK rows : rows = d.data[e.file].rows
    OBVIOUS
<1>2. PICK i, j \in DOMAIN rows : i = p.row /\ j = q.row
    BY <1>1 DEF OwnRow, IsPlace
<1>3. rows[i] = RowAt(d, p) /\ rows[j] = RowAt(d, q)
    BY <1>1, <1>2 DEF OwnRow, RowAt
<1>4. rows[i].episode = e.episode /\ rows[j].episode = e.episode /\ rows[i].frame = rows[j].frame
    BY <1>3, Zenon DEF OwnRow
<1>5. i = j
    <2>1. OwnsOnce(rows, e)
        BY <1>1, OwnsParts
    <2> QED
        BY <1>2, <1>4, <2>1 DEF OwnsOnce
<1>6. p = Place(p.file, p.row) /\ q = Place(q.file, q.row) /\ p.file = q.file
    BY DEF OwnRow, IsPlace
<1> QED
    BY <1>2, <1>5, <1>6

InFrames(ER, d, e) ==
    /\ ER = [k \in 1 .. Length[e.of] |-> ER[k]]
    /\ \A k \in 1 .. Length[e.of] : OwnRow(d, e, ER[k]) /\ RowAt(d, ER[k]).frame = k - 1

LEMMA EpisodeInFrames ==
    ASSUME NEW d, IsDataset(d), NEW e \in EpisodeType, Owns(d, e)
    PROVE  InFrames(EpisodeRows(d, e.episode), d, e)
<1>1. PICK x : x = e.episode
    OBVIOUS
<1>2. PICK at, ER : at = Labelled(d, x) /\ ER = EpisodeRows(d, x)
    OBVIOUS
<1>3. PICK m \in Nat : m = Length[e.of]
    BY LengthType
<1>4. PICK key : key = FrameAt(d, at)
    OBVIOUS
<1>5. PICK c \in Nat : \E so : /\ ListsLabel(at, d, x, c) /\ Sorts(so, key, c)
                               /\ ER = [k \in 1 .. c |-> at[so[k]]]
    BY <1>2, <1>4, EpisodeRowsListed
<1>6. PICK so : /\ ListsLabel(at, d, x, c) /\ Sorts(so, key, c)
                /\ ER = [k \in 1 .. c |-> at[so[k]]]
    BY <1>5
<1>7. ASSUME NEW i \in 1 .. c PROVE OwnRow(d, e, at[i]) /\ key[i] = RowAt(d, at[i]).frame
    <2>1. IsPlace(d, at[i]) /\ RowAt(d, at[i]).episode = e.episode
        BY <1>1, <1>6 DEF ListsLabel
    <2>2. key[i] = RowAt(d, at[i]).frame
        BY <1>4, <1>6 DEF FrameAt, ListsLabel
    <2> QED
        BY <2>1, <2>2, OwnRowIs
<1>8. \A i \in 1 .. c : key[i] \in Int /\ key[i] + 1 \in 1 .. m
    BY <1>3, <1>7 DEF OwnRow
<1>9. ASSUME NEW v \in 1 .. m PROVE \E i \in 1 .. c : key[i] + 1 = v
    <2>1. PICK rows : rows = d.data[e.file].rows
        OBVIOUS
    <2>2. PICK k \in DOMAIN rows : rows[k].episode = e.episode /\ rows[k].frame + 1 = v
        <3>1. OwnsAll(rows, e)
            BY <2>1, OwnsParts
        <3> QED
            BY <1>3, <3>1 DEF OwnsAll
    <2>3. e.file \in DOMAIN d.data
        BY OwnsParts
    <2>4. PICK i \in 1 .. c : at[i] = Place(e.file, k)
        BY <1>1, <1>6, <2>1, <2>2, <2>3 DEF ListsLabel
    <2>5. RowAt(d, at[i]) = rows[k]
        BY <2>1, <2>4, PlaceRow
    <2> QED
        BY <1>7, <2>2, <2>5
<1>10. ASSUME NEW i \in 1 .. c, NEW j \in 1 .. c, key[i] = key[j] PROVE i = j
    <2>1. at[i] = at[j]
        BY <1>7, <1>10, OwnRowsDiffer
    <2> QED
        BY <1>6, <2>1 DEF ListsLabel
<1>11. c = m
    <2>1. PICK f : f = [i \in 1 .. c |-> key[i] + 1]
        OBVIOUS
    <2>2. f \in Surjection(1 .. c, 1 .. m)
        BY <1>8, <1>9, <2>1 DEF Surjection
    <2>3. f \in Injection(1 .. c, 1 .. m)
        BY <1>8, <1>10, <2>1 DEF Injection, IsInjective
    <2>4. IsFiniteSet(1 .. c) /\ Cardinality(1 .. c) = c
        BY FS_Interval
    <2>5. Cardinality(1 .. m) = m
        BY FS_Interval
    <2> QED
        BY <2>2, <2>3, <2>4, <2>5, FS_Surjection
<1>12. \A k \in 1 .. m : key[so[k]] = k - 1
    <2>1. \A k \in 1 .. m : key[k] \in Int
        BY <1>8, <1>11
    <2>2. ASSUME NEW v \in 0 .. m - 1 PROVE \E k \in 1 .. m : key[k] = v
        <3>1. PICK w \in 1 .. m : w = v + 1
            OBVIOUS
        <3>2. PICK k \in 1 .. m : key[k] + 1 = w
            BY <1>9, <1>11
        <3>3. key[k] = v
            BY <2>1, <3>1, <3>2
        <3> QED
            BY <3>3
    <2>3. Sorts(so, key, m)
        BY <1>6, <1>11
    <2> QED
        BY <2>1, <2>2, <2>3, KeysCount
<1>13. ASSUME NEW k \in 1 .. m PROVE OwnRow(d, e, ER[k]) /\ RowAt(d, ER[k]).frame = k - 1
    <2>1. so[k] \in 1 .. c /\ ER[k] = at[so[k]]
        BY <1>6, <1>11 DEF Sorts
    <2> QED
        BY <1>7, <1>12, <2>1
<1>14. ER = [k \in 1 .. m |-> ER[k]]
    BY <1>6, <1>11
<1>15. InFrames(ER, d, e)
    BY <1>3, <1>13, <1>14 DEF InFrames
<1> QED
    BY <1>1, <1>2, <1>15

LEMMA OwnRowIsAt ==
    ASSUME NEW d, IsDataset(d), NEW e \in EpisodeType, Owns(d, e), NEW p, OwnRow(d, e, p),
           NEW ER, InFrames(ER, d, e)
    PROVE  ER[RowAt(d, p).frame + 1] = p
<1>1. PICK i \in 1 .. Length[e.of] : i = RowAt(d, p).frame + 1
    BY DEF OwnRow
<1>2. PICK q : q = ER[i]
    OBVIOUS
<1>3. OwnRow(d, e, q) /\ RowAt(d, q).frame = i - 1
    BY <1>2 DEF InFrames
<1>4. RowAt(d, q).frame = RowAt(d, p).frame
    BY <1>1, <1>3 DEF OwnRow
<1>5. q = p
    BY <1>3, <1>4, OwnRowsDiffer
<1> QED
    BY <1>1, <1>2, <1>5

LEMMA OwnsHolds ==
    ASSUME NEW d, IsDataset(d), NEW e \in EpisodeType, Owns(d, e), Shows(d, e)
    PROVE  Holds(d, e)
<1>1. PICK at : at = EpisodeRows(d, e.episode)
    OBVIOUS
<1>2. InFrames(at, d, e)
    BY <1>1, EpisodeInFrames
<1>3. DOMAIN at = 1 .. Length[e.of]
    BY <1>2 DEF InFrames
<1>4. ASSUME NEW k \in 1 .. Length[e.of]
      PROVE  d.data[at[k].file].rows[at[k].row].of = [recording |-> e.of, frame |-> k]
    <2>1. OwnRow(d, e, at[k]) /\ RowAt(d, at[k]).frame = k - 1
        BY <1>2 DEF InFrames
    <2>2. Length[e.of] \in Nat
        BY LengthType
    <2>3. RowAt(d, at[k]).frame + 1 = k
        BY <2>1, <2>2
    <2> QED
        BY <2>1, <2>3 DEF OwnRow, RowAt
<1>5. [k \in DOMAIN at |-> d.data[at[k].file].rows[at[k].row].of]
         = [k \in 1 .. Length[e.of] |-> [recording |-> e.of, frame |-> k]]
    BY <1>3, <1>4
<1> QED
    BY <1>1, <1>5 DEF Holds, Shows

(* What a stamp marks.                                                      *)
EndsOf(o) == {i \in 1 .. Length[o] : EndsCycle(Arm(o, 1), i) \/ EndsCycle(Arm(o, 2), i)}

IsArmState(st, i) == "ends" \in DOMAIN st /\ st.ends \subseteq 1 .. i

LEMMA ArmStepWithin ==
    ASSUME NEW i \in Nat, NEW st, IsArmState(st, i), NEW v
    PROVE  IsArmState(ArmStep(st, v, i + 1), i + 1)
<1>1. st.ends \cup {i + 1} \subseteq 1 .. i + 1 /\ st.ends \subseteq 1 .. i + 1
    BY DEF IsArmState
<1>2. CASE st.searching /\ v > Open
    <2>1. ArmStep(st, v, i + 1) = [searching |-> FALSE, ends |-> st.ends \cup {i + 1}]
        BY <1>2 DEF ArmStep
    <2> QED
        BY <1>1, <2>1 DEF IsArmState
<1>3. CASE ~(st.searching /\ v > Open) /\ (~st.searching /\ v < Closed)
    <2>1. ArmStep(st, v, i + 1) = [st EXCEPT !.searching = TRUE]
        BY <1>3 DEF ArmStep
    <2>2. "ends" \in DOMAIN st
        BY DEF IsArmState
    <2>3. "ends" \in DOMAIN [st EXCEPT !.searching = TRUE] /\ [st EXCEPT !.searching = TRUE].ends = st.ends
        BY <2>2
    <2> QED
        BY <1>1, <2>1, <2>3 DEF IsArmState
<1>4. CASE ~(st.searching /\ v > Open) /\ ~(~st.searching /\ v < Closed)
    <2>1. ArmStep(st, v, i + 1) = st
        BY <1>4 DEF ArmStep
    <2> QED
        BY <1>1, <2>1 DEF IsArmState
<1> QED
    BY <1>2, <1>3, <1>4

LEMMA EndsWithin ==
    ASSUME NEW values, NEW n \in Nat, DOMAIN values = 1 .. n
    PROVE  ArmCycleEnds(values) \subseteq 1 .. n
<1>1. PICK g : /\ DOMAIN g = 0 .. n /\ g[0] = ArmStart(values)
               /\ \A i \in 1 .. n : g[i] = ArmStep(g[i - 1], values[i], i)
               /\ ArmCycleEnds(values) = g[n].ends
    BY ArmTraced
<1>2. PICK S : S = {i \in 0 .. n : IsArmState(g[i], i)}
    OBVIOUS
<1>3. 0 \in S
    <2>1. g[0] = [searching |-> values # <<>> /\ values[1] < Closed, ends |-> {}]
        BY <1>1 DEF ArmStart
    <2>2. IsArmState(g[0], 0)
        BY <2>1 DEF IsArmState
    <2> QED
        BY <1>2, <2>2
<1>4. ASSUME NEW i \in 0 .. n - 1, i \in S PROVE i + 1 \in S
    <2>1. PICK k \in 1 .. n : k = i + 1 /\ k - 1 = i /\ k \in 0 .. n /\ i \in Nat
        OBVIOUS
    <2>2. g[k] = ArmStep(g[i], values[k], k)
        BY <1>1, <2>1
    <2>3. PICK st : st = g[i]
        OBVIOUS
    <2>4. IsArmState(st, i)
        BY <1>2, <1>4, <2>3
    <2>5. IsArmState(ArmStep(st, values[k], i + 1), i + 1)
        BY <2>1, <2>4, ArmStepWithin
    <2> QED
        BY <1>2, <2>1, <2>2, <2>3, <2>5
<1>5. \A i \in 0 .. n : i \in S
    <2>1. \A i \in 0 .. n - 1 : i \in S => i + 1 \in S
        BY <1>4
    <2> QED
        BY <1>3, <2>1, UpTo
<1>6. IsArmState(g[n], n)
    BY <1>2, <1>5
<1> QED
    BY <1>1, <1>6 DEF IsArmState

StatesOf(d, rows) == [k \in DOMAIN rows |-> Gripper(RowAt(d, rows[k]).of)]

LEMMA TerminalsAre ==
    ASSUME NEW d, NEW x
    PROVE  Terminals(d, x) = {EpisodeRows(d, x)[k] : k \in CycleEnds(StatesOf(d, EpisodeRows(d, x)))}
BY DEF Terminals, StatesOf, RowAt

LEMMA TerminalsLabelled ==
    ASSUME NEW d, IsDataset(d), NEW x, NEW p \in Terminals(d, x)
    PROVE  RowAt(d, p).episode = x
<1>1. PICK ER : ER = EpisodeRows(d, x)
    OBVIOUS
<1>2. PICK c \in Nat : DOMAIN ER = 1 .. c /\ \A k \in 1 .. c : RowAt(d, ER[k]).episode = x
    BY <1>1, EpisodeRowsLabelled
<1>3. PICK states : states = StatesOf(d, ER)
    OBVIOUS
<1>4. DOMAIN states = 1 .. c
    BY <1>2, <1>3 DEF StatesOf
<1>5. CycleEnds(states) \subseteq 1 .. c
    <2>1. PICK left, right : /\ left = [k \in DOMAIN states |-> states[k][1]]
                             /\ right = [k \in DOMAIN states |-> states[k][2]]
        OBVIOUS
    <2>2. DOMAIN left = 1 .. c /\ DOMAIN right = 1 .. c
        BY <1>4, <2>1
    <2>3. ArmCycleEnds(left) \subseteq 1 .. c
        BY <2>2, EndsWithin
    <2>4. ArmCycleEnds(right) \subseteq 1 .. c
        BY <2>2, EndsWithin
    <2> QED
        BY <2>1, <2>3, <2>4 DEF CycleEnds
<1>6. PICK k \in CycleEnds(states) : p = ER[k]
    BY <1>1, <1>3, TerminalsAre
<1> QED
    BY <1>2, <1>5, <1>6

LEMMA LastOf ==
    ASSUME NEW c \in Nat, NEW s, s = [k \in 1 .. c |-> s[k]]
    PROVE  Last(s) = s[c]
<1>1. \A T : (\A k \in 1 .. c : s[k] \in T) => s \in Seq(T) /\ Len(s) = c
    OBVIOUS
<1>2. Len(s) = c
    <2>1. PICK T : T = {s[k] : k \in 1 .. c}
        OBVIOUS
    <2>2. \A k \in 1 .. c : s[k] \in T
        BY <2>1
    <2> QED
        BY <1>1, <2>2
<1> QED
    BY <1>2 DEF Last

LEMMA LastLabelled ==
    ASSUME NEW d, IsDataset(d), NEW x \in LabelsOf(d)
    PROVE  RowAt(d, LastRow(d, x)).episode = x
<1>1. PICK ER : ER = EpisodeRows(d, x)
    OBVIOUS
<1>2. PICK c \in Nat : /\ ER = [k \in 1 .. c |-> ER[k]]
                       /\ \A k \in 1 .. c : RowAt(d, ER[k]).episode = x
                       /\ c > 0
    BY <1>1, EpisodeRowsLabelled
<1>3. Last(ER) = ER[c]
    BY <1>2, LastOf
<1>4. c \in 1 .. c
    BY <1>2
<1> QED
    BY <1>1, <1>2, <1>3, <1>4 DEF LastRow

LEMMA ArmTyped ==
    ASSUME NEW o \in DOMAIN Length, NEW side \in {1, 2}
    PROVE  Length[o] \in Nat /\ Length[o] > 0 /\ Arm(o, side) \in [1 .. Length[o] -> Int]
<1>1. Length[o] \in Nat \ {0} /\ \A i \in 1 .. Length[o] : Gripper([recording |-> o, frame |-> i]) \in Int \X Int
    BY EditsAssumption
<1>2. \A i \in 1 .. Length[o] : Gripper([recording |-> o, frame |-> i])[side] \in Int
    BY <1>1
<1> QED
    BY <1>1, <1>2 DEF Arm

LEMMA OwnTerminals ==
    ASSUME NEW d, IsDataset(d), NEW e \in EpisodeType, Owns(d, e), NEW ER, ER = EpisodeRows(d, e.episode)
    PROVE  /\ Terminals(d, e.episode) = {ER[k] : k \in EndsOf(e.of)}
           /\ LastRow(d, e.episode) = ER[Length[e.of]]
<1>1. PICK o \in DOMAIN Length : o = e.of
    BY LengthType
<1>2. PICK m \in Nat : m = Length[o] /\ m > 0
    BY LengthType, <1>1
<1>3. InFrames(ER, d, e)
    BY EpisodeInFrames
<1>4. ER = [k \in 1 .. m |-> ER[k]] /\ DOMAIN ER = 1 .. m
    BY <1>1, <1>2, <1>3 DEF InFrames
<1>5. ASSUME NEW k \in 1 .. m PROVE RowAt(d, ER[k]).of = [recording |-> o, frame |-> k]
    <2>1. OwnRow(d, e, ER[k]) /\ RowAt(d, ER[k]).frame = k - 1
        BY <1>1, <1>2, <1>3 DEF InFrames
    <2>2. RowAt(d, ER[k]).frame + 1 = k
        BY <2>1
    <2> QED
        BY <1>1, <2>1, <2>2 DEF OwnRow
<1>6. PICK states : states = StatesOf(d, ER)
    OBVIOUS
<1>7. states = [k \in 1 .. m |-> Gripper([recording |-> o, frame |-> k])]
    BY <1>4, <1>5, <1>6 DEF StatesOf
<1>8. ASSUME NEW side \in {1, 2}
      PROVE  ArmCycleEnds([k \in DOMAIN states |-> states[k][side]]) = {i \in 1 .. m : EndsCycle(Arm(o, side), i)}
    <2>1. PICK a : a = Arm(o, side)
        OBVIOUS
    <2>2. [k \in DOMAIN states |-> states[k][side]] = a
        BY <1>2, <1>7, <2>1 DEF Arm
    <2>3. a \in [1 .. m -> Int]
        BY <1>2, <2>1, ArmTyped
    <2>4. ArmCycleEnds(a) = {i \in 1 .. m : EndsCycle(a, i)}
        BY <2>3, ArmEndsExact
    <2> QED
        BY <2>1, <2>2, <2>4
<1>9. CycleEnds(states) = EndsOf(o)
    <2>1. PICK left, right : /\ left = ArmCycleEnds([k \in DOMAIN states |-> states[k][1]])
                             /\ right = ArmCycleEnds([k \in DOMAIN states |-> states[k][2]])
        OBVIOUS
    <2>2. left = {i \in 1 .. m : EndsCycle(Arm(o, 1), i)} /\ right = {i \in 1 .. m : EndsCycle(Arm(o, 2), i)}
        BY <1>8, <2>1
    <2>3. CycleEnds(states) = left \cup right
        BY <2>1 DEF CycleEnds
    <2> QED
        BY <1>2, <2>2, <2>3 DEF EndsOf
<1>10. Last(ER) = ER[m]
    BY <1>4, LastOf
<1> QED
    BY <1>1, <1>2, <1>6, <1>9, <1>10, TerminalsAre DEF LastRow

LEMMA MarksOwn ==
    ASSUME NEW d, IsDataset(d), NEW e \in EpisodeType, Owns(d, e), NEW p, OwnRow(d, e, p)
    PROVE  /\ p \in TerminalsOf(d) <=> RowAt(d, p).frame + 1 \in EndsOf(e.of)
           /\ p \in LastsOf(d) <=> RowAt(d, p).frame + 1 = Length[e.of]
<1>1. PICK x : x = e.episode
    OBVIOUS
<1>2. PICK ER : ER = EpisodeRows(d, x)
    OBVIOUS
<1>3. InFrames(ER, d, e)
    BY <1>1, <1>2, EpisodeInFrames
<1>4. PICK i \in 1 .. Length[e.of] : i = RowAt(d, p).frame + 1
    BY DEF OwnRow
<1>5. ER[i] = p
    BY <1>3, <1>4, OwnRowIsAt
<1>6. x \in LabelsOf(d) /\ RowAt(d, p).episode = x
    <2>1. PICK f \in DOMAIN d.data : f = p.file
        BY DEF OwnRow, IsPlace
    <2>2. PICK r \in DOMAIN d.data[f].rows : r = p.row
        BY <2>1 DEF OwnRow, IsPlace
    <2>3. d.data[f].rows[r].episode = x /\ RowAt(d, p).episode = x
        BY <1>1, <2>1, <2>2 DEF OwnRow, RowAt
    <2>4. x \in {d.data[f].rows[k].episode : k \in DOMAIN d.data[f].rows}
        BY <2>2, <2>3
    <2> QED
        BY <2>1, <2>3, <2>4 DEF LabelsOf
<1>7. Terminals(d, x) = {ER[k] : k \in EndsOf(e.of)} /\ LastRow(d, x) = ER[Length[e.of]]
    BY <1>1, <1>2, OwnTerminals
<1>8. \A k \in 1 .. Length[e.of] : ER[k] = p => k = i
    <2> SUFFICES ASSUME NEW k \in 1 .. Length[e.of], ER[k] = p PROVE k = i
        OBVIOUS
    <2>1. RowAt(d, ER[k]).frame = k - 1
        BY <1>3 DEF InFrames
    <2> QED
        BY <1>4, <2>1
<1>9. p \in TerminalsOf(d) <=> p \in Terminals(d, x)
    <2>1. ASSUME p \in TerminalsOf(d) PROVE p \in Terminals(d, x)
        <3>1. PICK y \in LabelsOf(d) : p \in Terminals(d, y)
            BY <2>1 DEF TerminalsOf
        <3>2. RowAt(d, p).episode = y
            BY <3>1, TerminalsLabelled
        <3> QED
            BY <1>6, <3>1, <3>2
    <2> QED
        BY <1>6, <2>1 DEF TerminalsOf
<1>10. p \in Terminals(d, x) <=> i \in EndsOf(e.of)
    <2>1. \A k \in EndsOf(e.of) : k \in 1 .. Length[e.of]
        BY DEF EndsOf
    <2> QED
        BY <1>5, <1>7, <1>8, <2>1
<1>11. p \in LastsOf(d) <=> p = LastRow(d, x)
    <2>1. ASSUME p \in LastsOf(d) PROVE p = LastRow(d, x)
        <3>1. PICK y \in LabelsOf(d) : p = LastRow(d, y)
            BY <2>1 DEF LastsOf
        <3>2. RowAt(d, p).episode = y
            BY <3>1, LastLabelled
        <3> QED
            BY <1>6, <3>1, <3>2
    <2> QED
        BY <1>6, <2>1 DEF LastsOf
<1>12. p = LastRow(d, x) <=> i = Length[e.of]
    <2>1. Length[e.of] \in 1 .. Length[e.of]
        BY LengthType
    <2> QED
        BY <1>5, <1>7, <1>8, <2>1
<1> QED
    BY <1>4, <1>9, <1>10, <1>11, <1>12

(* A stamp changes nothing but the marks, and these are right wherever the  *)
(* rows are of episodes that own their frames.                              *)
SameStock(new, d) ==
    /\ new.info = d.info /\ new.tables = d.tables /\ new.video = d.video /\ new.torn = d.torn
    /\ DOMAIN new.data = DOMAIN d.data
    /\ \A f \in DOMAIN d.data :
         /\ Len(new.data[f].rows) = Len(d.data[f].rows) /\ DOMAIN new.data[f].rows = DOMAIN d.data[f].rows
         /\ \A r \in DOMAIN d.data[f].rows : SameRow(new.data[f].rows[r], d.data[f].rows[r])

LEMMA StampedStock ==
    ASSUME NEW d, NEW new, StampedAs(new, d)
    PROVE  SameStock(new, d) /\ TableRows(new) = TableRows(d)
<1>1. new = Rec(d.info, d.tasks, d.tables, new.data, d.video, d.torn)
    BY DEF StampedAs
<1>2. new.info = d.info /\ new.tables = d.tables /\ new.video = d.video /\ new.torn = d.torn
    BY <1>1, Shaped
<1>3. DOMAIN new.data = DOMAIN d.data /\ \A f \in DOMAIN d.data : Remarked(new.data[f].rows, d.data[f].rows, f, d)
    BY DEF StampedAs
<1>4. SameStock(new, d)
    BY <1>2, <1>3 DEF SameStock, Remarked
<1>5. TableRows(new) = TableRows(d)
    BY <1>2 DEF TableRows
<1> QED
    BY <1>4, <1>5

(* Rows that differ in their marks alone.                                   *)
AllAgain(rows, old) ==
    /\ DOMAIN rows = DOMAIN old
    /\ \A k \in DOMAIN old : /\ rows[k].episode = old[k].episode /\ rows[k].frame = old[k].frame
                            /\ rows[k].of = old[k].of

LEMMA SameFrames ==
    ASSUME NEW rows, NEW old, AllAgain(rows, old), NEW o, NEW x, Frames(old, o, x)
    PROVE  Frames(rows, o, x)
<1>1. \A k \in DOMAIN old : old[k].episode = x
    BY DEF Frames
<1>2. Reframed(rows, old, x)
    BY <1>1 DEF AllAgain, Reframed
<1> QED
    BY <1>2, FramedAgain

LEMMA SameOwned ==
    ASSUME NEW rows, NEW old, AllAgain(rows, old), NEW e
    PROVE  /\ OwnsAll(old, e) => OwnsAll(rows, e)
           /\ OwnsOnce(old, e) => OwnsOnce(rows, e)
BY DEF AllAgain, OwnsAll, OwnsOnce

StockAgain(new, d, e) ==
    /\ Owns(d, e) => Owns(new, e)
    /\ Sole(d, e) => Sole(new, e)
    /\ Shows(d, e) => Shows(new, e)
    /\ \A f \in DOMAIN d.data :
         /\ Has(d.data[f], e.of) => Has(new.data[f], e.of)
         /\ Frames(d.data[f].rows, e.of, e.episode) => Frames(new.data[f].rows, e.of, e.episode)

LEMMA StockKept ==
    ASSUME NEW d, NEW new, SameStock(new, d), NEW e
    PROVE  StockAgain(new, d, e)
<1>1. DOMAIN new.data = DOMAIN d.data
    BY DEF SameStock
<1>2. \A f \in DOMAIN d.data : \A r \in DOMAIN d.data[f].rows :
        /\ new.data[f].rows[r].episode = d.data[f].rows[r].episode
        /\ new.data[f].rows[r].frame = d.data[f].rows[r].frame
        /\ new.data[f].rows[r].of = d.data[f].rows[r].of
    BY DEF SameStock, SameRow
<1>3. \A f \in DOMAIN d.data : DOMAIN new.data[f].rows = DOMAIN d.data[f].rows
    BY DEF SameStock
<1>4. Sole(d, e) => Sole(new, e)
    BY <1>1, <1>2, <1>3 DEF Sole
<1>5. Shows(d, e) => Shows(new, e)
    BY DEF Shows, SameStock
<1>6. \A f \in DOMAIN d.data : AllAgain(new.data[f].rows, d.data[f].rows)
    BY <1>2, <1>3 DEF AllAgain
<1>7. \A f \in DOMAIN d.data :
         /\ Has(d.data[f], e.of) => Has(new.data[f], e.of)
         /\ Frames(d.data[f].rows, e.of, e.episode) => Frames(new.data[f].rows, e.of, e.episode)
    <2> SUFFICES ASSUME NEW f \in DOMAIN d.data
                 PROVE  /\ Has(d.data[f], e.of) => Has(new.data[f], e.of)
                        /\ Frames(d.data[f].rows, e.of, e.episode) =>
                             Frames(new.data[f].rows, e.of, e.episode)
        OBVIOUS
    <2>1. PICK rows, old : rows = new.data[f].rows /\ old = d.data[f].rows
        OBVIOUS
    <2>2. AllAgain(rows, old)
        BY <1>6, <2>1
    <2>3. Has(d.data[f], e.of) => Has(new.data[f], e.of)
        BY <2>1, <2>2 DEF Has, AllAgain
    <2> QED
        BY <2>1, <2>2, <2>3, SameFrames
<1>8. ASSUME Owns(d, e) PROVE Owns(new, e)
    <2>1. e.file \in DOMAIN d.data /\ OwnsRows(d, e)
        BY <1>8, OwnsParts
    <2>2. PICK rows, old : rows = new.data[e.file].rows /\ old = d.data[e.file].rows
        OBVIOUS
    <2>3. OwnsAll(old, e) /\ OwnsOnce(old, e) /\ AllAgain(rows, old)
        BY <1>6, <1>8, <2>1, <2>2, OwnsParts
    <2>4. OwnsRows(new, e)
        <3>1. ASSUME NEW f \in DOMAIN d.data, NEW k \in DOMAIN d.data[f].rows,
                     NEW r, r = new.data[f].rows[k], r.episode = e.episode
              PROVE  f = e.file /\ OwnFrame(r, e)
            <4>1. PICK q : q = d.data[f].rows[k]
                OBVIOUS
            <4>2. q.episode = r.episode /\ q.frame = r.frame /\ q.of = r.of
                BY <1>2, <3>1, <4>1
            <4>3. f = e.file /\ OwnFrame(q, e)
                BY <2>1, <3>1, <4>1, <4>2 DEF OwnsRows
            <4> QED
                BY <4>2, <4>3, Zenon DEF OwnFrame
        <3> QED
            BY <1>1, <1>3, <3>1, Zenon DEF OwnsRows
    <2> QED
        BY <1>1, <2>1, <2>2, <2>3, <2>4, SameOwned, PartsOwn
<1>9. Owns(d, e) => Owns(new, e)
    BY <1>8
<1>10. StockAgain(new, d, e)
    BY <1>4, <1>5, <1>7, <1>9, Zenon DEF StockAgain
<1> QED
    BY <1>10

LEMMA SameSound ==
    ASSUME NEW d, IsDataset(d), NEW new, IsDataset(new), SameStock(new, d), TableRows(new) = TableRows(d),
           d # Absent, new # Absent
    PROVE  Sound(new) <=> Sound(d)
<1>1. Len(DataRows(new)) = Len(DataRows(d))
    <2>1. \A f \in DOMAIN d.data : DOMAIN RowsOf(new)[f] = DOMAIN RowsOf(d)[f]
        BY DEF SameStock, RowsOf
    <2>2. DOMAIN new.data = DOMAIN d.data
        BY DEF SameStock
    <2>3. InFiles(new.data, RowsOf(new)) = InFiles(d.data, RowsOf(d))
        BY <2>1, <2>2 DEF InFiles
    <2>4. ASSUME NEW s, IsDataset(s) PROVE Len(DataRows(s)) = Cardinality(InFiles(s.data, RowsOf(s)))
        <3>1. Files(s.data) /\ \A f \in DOMAIN s.data : RowsOf(s)[f] \in Seq(RowType)
            BY <2>4, DatasetFiles DEF RowsOf
        <3>2. AreJoined(s.data, RowsOf(s))
            BY <3>1, PartsTogether
        <3>3. DataRows(s) = Joint(s.data, RowsOf(s))
            BY <2>4, DataJoined
        <3> QED
            BY <3>2, <3>3 DEF AreJoined
    <2> QED
        BY <2>3, <2>4
<1>2. new.data = NoFiles <=> d.data = NoFiles
    <2>1. ASSUME NEW s, IsDataset(s) PROVE s.data = NoFiles <=> DOMAIN s.data = {}
        <3>1. s.data = [f \in DOMAIN s.data |-> s.data[f]]
            BY <2>1 DEF IsDataset, AreFiles
        <3> QED
            BY <3>1 DEF NoFiles
    <2>2. DOMAIN new.data = DOMAIN d.data
        BY DEF SameStock
    <2> QED
        BY <2>1, <2>2
<1>3. new.info = d.info /\ new.tables = d.tables /\ new.video = d.video /\ new.torn = d.torn
    BY DEF SameStock
<1> QED
    BY <1>1, <1>2, <1>3 DEF Sound

MarkedRight(row) ==
    /\ row.term <=> EndsCycle(Arm(row.of.recording, 1), row.of.frame) \/ EndsCycle(Arm(row.of.recording, 2), row.of.frame)
    /\ row.last <=> row.of.frame = Length[row.of.recording]

LEMMA RowsMarkedRight ==
    ASSUME NEW rows \in Seq(RowType), \A k \in DOMAIN rows : MarkedRight(rows[k])
    PROVE  MarksAreRight(rows)
<1>1. ASSUME NEW row \in RowType, MarkedRight(row)
      PROVE  /\ row.term = (\/ EndsCycle(Arm(row.of.recording, 1), row.of.frame)
                            \/ EndsCycle(Arm(row.of.recording, 2), row.of.frame))
             /\ row.last = (row.of.frame = Length[row.of.recording])
    <2>1. row.term \in BOOLEAN /\ row.last \in BOOLEAN
        BY DEF RowType
    <2>2. /\ row.term <=> (\/ EndsCycle(Arm(row.of.recording, 1), row.of.frame)
                           \/ EndsCycle(Arm(row.of.recording, 2), row.of.frame))
          /\ row.last <=> (row.of.frame = Length[row.of.recording])
        BY <1>1 DEF MarkedRight
    <2> QED
        BY <2>1, <2>2
<1>2. \A k \in DOMAIN rows : rows[k] \in RowType
    OBVIOUS
<1> QED
    BY <1>1, <1>2 DEF MarksAreRight

Owned(d, f) == \A r \in DOMAIN d.data[f].rows : \E e \in EpisodeType : Owns(d, e) /\ e.episode = d.data[f].rows[r].episode

LEMMA StampedRight ==
    ASSUME NEW d, IsDataset(d), NEW new, StampedAs(new, d), NEW f \in DOMAIN d.data, Owned(d, f)
    PROVE  MarksAreRight(new.data[f].rows)
<1>1. PICK old, rows : old = d.data[f].rows /\ rows = new.data[f].rows
    OBVIOUS
<1>2. Remarked(rows, old, f, d)
    BY <1>1 DEF StampedAs
<1>3. rows \in Seq(RowType) /\ DOMAIN rows = DOMAIN old
    BY <1>2 DEF Remarked
<1>4. ASSUME NEW r \in DOMAIN old PROVE MarkedRight(rows[r])
    <2>1. PICK e \in EpisodeType : Owns(d, e) /\ e.episode = old[r].episode
        BY <1>1 DEF Owned
    <2>2. PICK p : p = Place(f, r)
        OBVIOUS
    <2>3. RowAt(d, p) = old[r] /\ IsPlace(d, p)
        BY <1>1, <2>2 DEF RowAt, IsPlace, Place
    <2>4. OwnRow(d, e, p)
        BY <2>1, <2>3, OwnRowIs
    <2>5. /\ p \in TerminalsOf(d) <=> RowAt(d, p).frame + 1 \in EndsOf(e.of)
          /\ p \in LastsOf(d) <=> RowAt(d, p).frame + 1 = Length[e.of]
        BY <2>1, <2>4, MarksOwn
    <2>6. PICK i \in 1 .. Length[e.of] : i = old[r].frame + 1
        BY <2>3, <2>4 DEF OwnRow
    <2>7. old[r].of = [recording |-> e.of, frame |-> i]
        BY <2>3, <2>4, <2>6 DEF OwnRow
    <2>8. rows[r].of = old[r].of
        BY <1>2 DEF Remarked, SameRow
    <2>9. rows[r].of.recording = e.of /\ rows[r].of.frame = i
        BY <2>7, <2>8
    <2>10. rows[r].term <=> i \in EndsOf(e.of)
        <3>1. rows[r].term <=> p \in TerminalsOf(d)
            BY <1>2, <2>2, Zenon DEF Remarked
        <3> QED
            BY <2>3, <2>5, <2>6, <3>1, Zenon
    <2>11. rows[r].last <=> i = Length[e.of]
        <3>1. rows[r].last <=> p \in LastsOf(d)
            BY <1>2, <2>2, Zenon DEF Remarked
        <3> QED
            BY <2>3, <2>5, <2>6, <3>1, Zenon
    <2>12. i \in EndsOf(e.of) <=> EndsCycle(Arm(e.of, 1), i) \/ EndsCycle(Arm(e.of, 2), i)
        BY <2>6 DEF EndsOf
    <2> QED
        BY <2>9, <2>10, <2>11, <2>12, Zenon DEF MarkedRight
<1>5. MarksAreRight(rows)
    BY <1>3, <1>4, RowsMarkedRight
<1> QED
    BY <1>1, <1>5

LEMMA WholeRight ==
    ASSUME NEW d, IsDataset(d), NEW new, StampedAs(new, d), NEW e \in EpisodeType, e.file \in DOMAIN d.data,
           Whole(d.data[e.file], e.of, e.episode), Sole(d, e)
    PROVE  MarksAreRight(new.data[e.file].rows)
<1>1. Owns(d, e)
    BY WholeOwns
<1>2. \A r \in DOMAIN d.data[e.file].rows : d.data[e.file].rows[r].episode = e.episode
    BY DEF Whole, Frames
<1>3. Owned(d, e.file)
    BY <1>1, <1>2 DEF Owned
<1> QED
    BY <1>3, StampedRight

LEMMA StampStocked ==
    ASSUME NEW d, IsDataset(d), NEW new, StampedAs(new, d), NEW e \in EpisodeType, Stocked(d, e)
    PROVE  Stocked(new, e)
<1>1. SameStock(new, d)
    BY StampedStock
<1>2. PICK file, was : file = new.data[e.file] /\ was = d.data[e.file]
    OBVIOUS
<1>3. /\ e.length = Length[e.of] /\ e.file \in DOMAIN d.video /\ d.video[e.file] = Footage[e.of]
      /\ e.file \in DOMAIN d.data /\ Has(was, e.of)
      /\ e.of \notin Packed => Len(was.rows) = Length[e.of]
      /\ Len(was.rows) = Length[e.of] => Whole(was, e.of, e.episode) /\ Sole(d, e)
    BY <1>2 DEF Stocked
<1>4. new.video = d.video /\ DOMAIN new.data = DOMAIN d.data /\ Len(file.rows) = Len(was.rows)
    BY <1>1, <1>2, <1>3 DEF SameStock
<1>5. Has(file, e.of)
    BY <1>1, <1>2, <1>3, StockKept DEF StockAgain
<1>6. ASSUME Len(file.rows) = Length[e.of]
      PROVE  Whole(file, e.of, e.episode) /\ Sole(new, e)
    <2>1. Whole(was, e.of, e.episode) /\ Sole(d, e)
        BY <1>3, <1>4, <1>6
    <2>2. MarksAreRight(file.rows)
        BY <1>2, <1>3, <2>1, WholeRight
    <2>3. Frames(was.rows, e.of, e.episode)
        BY <2>1 DEF Whole
    <2>4. Frames(file.rows, e.of, e.episode) /\ Sole(new, e)
        BY <1>1, <1>2, <1>3, <2>1, <2>3, StockKept DEF StockAgain
    <2> QED
        BY <1>6, <2>2, <2>4 DEF Whole
<1> QED
    BY <1>2, <1>3, <1>4, <1>5, <1>6 DEF Stocked

LEMMA StampFresh ==
    ASSUME NEW d, IsDataset(d), NEW new, IsDataset(new), StampedAs(new, d), d # Absent, new # Absent, Fresh(d)
    PROVE  Fresh(new)
<1>1. SameStock(new, d) /\ TableRows(new) = TableRows(d)
    BY StampedStock
<1>2. PICK eps \in Seq(EpisodeType) : eps = TableRows(d)
    BY TablesJoined
<1>3. \A k \in DOMAIN eps : eps[k] \in EpisodeType
    OBVIOUS
<1>4. \A k \in DOMAIN eps : Stocked(d, eps[k])
    BY <1>2 DEF Fresh
<1>5. \A k \in DOMAIN eps : Stocked(new, eps[k])
    BY <1>3, <1>4, StampStocked
<1>6. ASSUME Unpacked(new) PROVE Sound(new) /\ OneEach(new)
    <2>1. Unpacked(d)
        BY <1>1, <1>6 DEF Unpacked
    <2>2. Sound(d) /\ OneEach(d)
        BY <2>1 DEF Fresh
    <2>3. Sound(new)
        BY <1>1, <2>2, SameSound
    <2>4. DOMAIN new.data = DOMAIN d.data
          /\ \A f \in DOMAIN d.data : Len(new.data[f].rows) = Len(d.data[f].rows)
        BY <1>1 DEF SameStock
    <2>5. OneEach(new)
        BY <1>1, <2>2, <2>4 DEF OneEach
    <2> QED
        BY <2>3, <2>5
<1> QED
    BY <1>1, <1>2, <1>5, <1>6 DEF Fresh

LEMMA StampExactly ==
    ASSUME NEW d, IsDataset(d), NEW new, StampedAs(new, d), Exact(d)
    PROVE  Exact(new)
<1>1. SameStock(new, d) /\ TableRows(new) = TableRows(d)
    BY StampedStock
<1>2. PICK eps \in Seq(EpisodeType) : eps = TableRows(d)
    BY TablesJoined
<1>3. \A k \in DOMAIN eps : eps[k] \in EpisodeType
    OBVIOUS
<1>4. \A k \in DOMAIN eps : Owns(d, eps[k]) /\ Shows(d, eps[k])
    BY <1>2 DEF Exact
<1>5. \A k \in DOMAIN eps : Owns(new, eps[k]) /\ Shows(new, eps[k])
    BY <1>1, <1>4, StockKept DEF StockAgain
<1>6. \A f \in DOMAIN d.data : \A r \in DOMAIN d.data[f].rows :
         \E k \in DOMAIN eps : eps[k].episode = d.data[f].rows[r].episode
    BY <1>2 DEF Exact
<1>7. ASSUME NEW f \in DOMAIN d.data PROVE MarksAreRight(new.data[f].rows)
    <2>1. Owned(d, f)
        BY <1>3, <1>4, <1>6 DEF Owned
    <2> QED
        BY <2>1, StampedRight
<1>8. /\ DOMAIN new.data = DOMAIN d.data
      /\ \A f \in DOMAIN d.data : /\ DOMAIN new.data[f].rows = DOMAIN d.data[f].rows
                                  /\ \A r \in DOMAIN d.data[f].rows :
                                       new.data[f].rows[r].episode = d.data[f].rows[r].episode
    BY <1>1 DEF SameStock, SameRow
<1>9. \A f \in DOMAIN new.data : \A r \in DOMAIN new.data[f].rows :
         \E k \in DOMAIN eps : eps[k].episode = new.data[f].rows[r].episode
    BY <1>6, <1>8
<1>10. \A f \in DOMAIN new.data : new.data[f].stamped => MarksAreRight(new.data[f].rows)
    BY <1>7, <1>8
<1> QED
    BY <1>1, <1>2, <1>5, <1>9, <1>10 DEF Exact

----------------------------------------------------------------------------
(* THE INVARIANT OVER JOBS.                                                 *)

Good(d, as) == d # Absent =>
    /\ as = "fresh" => Fresh(d)
    /\ as # "spoilt" /\ Sound(d) => Exact(d)

EditsSound == \A n \in Names : Good(disk[n], past[n])

LEMMA SoundInit == Init => EditsSound
<1> SUFFICES ASSUME Init PROVE EditsSound
    OBVIOUS
<1> SUFFICES ASSUME NEW n \in Names PROVE Good(disk[n], past[n])
    BY DEF EditsSound
<1>1. CASE \E shelf \in Shelves :
              /\ disk = [x \in Names \cup {Bak} |-> IF x \in Names THEN shelf[x] ELSE Absent]
              /\ past = [x \in Names |-> "fresh"]
              /\ loader = CHOOSE l \in SomeLoaders : TRUE
              /\ steps = 0
    <2>1. PICK shelf \in Shelves : disk[n] = shelf[n]
        BY <1>1
    <2>2. disk[n] # Absent => IsDataset(disk[n]) /\ Faithful(disk[n])
        BY <2>1, ShelvesAssumption
    <2> QED
        BY <2>2, FaithfulIsFresh DEF Good
<1>2. CASE \E draft \in Drafts, l \in SomeLoaders :
              /\ disk = [x \in Names \cup {Bak} |-> IF x \in Names THEN draft[x] ELSE Absent]
              /\ past = [x \in Names |-> "spoilt"]
              /\ loader = l
              /\ steps = MaxSteps - 1
    <2>1. past[n] = "spoilt"
        BY <1>2
    <2> QED
        BY <2>1 DEF Good
<1> QED
    BY <1>1, <1>2 DEF Init

(* What a job writes is sound when it read what was fresh.                  *)
LEMMA NewGood ==
    ASSUME NEW D, NEW dk, OnDisk(dk, D), NEW out \in D, dk[out] = Absent \/ IsDataset(dk[out]),
           NEW m \in Nat, NEW roots, NEW w, IsResult(w, dk, D, out, roots, m),
           FreshRoots(dk, roots, m, out), NEW as, as = "fresh" => dk[out] = Absent
    PROVE  Good(w[out], as)
<1>1. PICK d, was : d = w[out] /\ was = Made(dk, out)[out]
    OBVIOUS
<1>2. PICK n \in Nat : \E map, old, eps : NewAt(d, was, dk, map, old, eps, n)
    BY <1>1, NewIs
<1>3. PICK map, old, eps : NewAt(d, was, dk, map, old, eps, n)
    BY <1>2
<1>4. Sound(d) => Exact(d)
    BY <1>3, NewExact
<1>5. as = "fresh" /\ d # Absent => Fresh(d)
    <2>1. ASSUME dk[out] = Absent PROVE DOMAIN was.tables = {} /\ DOMAIN was.data = {} /\ was.torn = {}
        <3>1. was = Empty
            BY <1>1, <2>1, MadeTyped
        <3> QED
            BY <3>1 DEF Empty, NoFiles
    <2> QED
        BY <1>3, <2>1, NewFresh
<1> QED
    BY <1>1, <1>4, <1>5, Zenon DEF Good

LEMMA OthersGood ==
    ASSUME EditsSound, NEW n \in Names, \A x \in Names : x # n => disk'[x] = disk[x] /\ past'[x] = past[x],
           Good(disk'[n], past'[n])
    PROVE  EditsSound'
<1>1. \A x \in Names : Good(disk[x], past[x])
    BY DEF EditsSound
<1>2. \A x \in Names : Good(disk'[x], past'[x])
    BY <1>1
<1> QED
    BY <1>2 DEF EditsSound

LEMMA EditPast ==
    ASSUME EditsTyped, NEW n \in Names, NEW as, Edit(n, as)
    PROVE  past'[n] = as /\ \A x \in Names : x # n => past'[x] = past[x]
BY DEF Edit, EditsTyped

LEMMA IntoSound ==
    ASSUME EditsTyped, EditsSound, NEW m \in Nat, NEW roots, DOMAIN roots = 1 .. m,
           \A i \in 1 .. m : roots[i] \in Names /\ disk[roots[i]] # Absent,
           NEW out \in Names, Into(out, roots), IsResult(disk', disk, Directories, out, roots, m)
    PROVE  EditsSound'
<1>1. PICK was, now : was = disk /\ now = disk'
    OBVIOUS
<1>2. out \in Directories /\ Names \subseteq Directories
    BY DEF Directories
<1>3. OnDisk(was, Directories) /\ (was[out] = Absent \/ IsDataset(was[out]))
    BY <1>1, <1>2 DEF EditsTyped, IsDisk
<1>4. PICK as : as = After(roots, out)
    OBVIOUS
<1>5. past'[out] = as /\ \A x \in Names : x # out => past'[x] = past[x]
    BY <1>4, EditPast DEF Into
<1>6. \A x \in Names : x # out => now[x] = was[x]
    <2>1. Outside(now, was, out, Directories)
        BY <1>1, <1>2, IsResultTyped
    <2> QED
        BY <1>2, <2>1 DEF Outside
<1>7. Good(now[out], as)
    <2>1. CASE as = "spoilt"
        BY <2>1 DEF Good
    <2>2. CASE as # "spoilt"
        <3>1. ~(out \in Range(roots) \/ \E n \in Range(roots) : past[n] # "fresh")
            <4> SUFFICES ASSUME out \in Range(roots) \/ \E n \in Range(roots) : past[n] # "fresh" PROVE FALSE
                OBVIOUS
            <4>1. \A x \in Range(roots) : disk[x] # Absent
                BY DEF Range
            <4>2. CASE out \notin Range(roots)
                <5>1. ~(disk[out] = Absent /\ \A n \in Range(roots) : past[n] = "fresh")
                    BY <4>2
                <5>2. After(roots, out) = "spoilt"
                    BY <5>1 DEF After
                <5> QED
                    BY <1>4, <2>2, <5>2
            <4>3. CASE out \in Range(roots)
                <5>1. After(roots, out) = "spoilt"
                    BY <4>1, <4>3 DEF After
                <5> QED
                    BY <1>4, <2>2, <5>1
            <4> QED
                BY <4>2, <4>3
        <3>2. \A i \in 1 .. m : roots[i] \in Range(roots)
            BY DEF Range
        <3>3. ASSUME NEW i \in 1 .. m PROVE roots[i] # out /\ Fresh(was[roots[i]])
            <4>1. roots[i] # out /\ past[roots[i]] = "fresh" /\ roots[i] \in Names /\ was[roots[i]] # Absent
                BY <1>1, <3>1, <3>2
            <4>2. Good(was[roots[i]], past[roots[i]])
                BY <1>1, <4>1 DEF EditsSound
            <4> QED
                BY <4>1, <4>2 DEF Good
        <3>4. FreshRoots(was, roots, m, out)
            BY <3>3 DEF FreshRoots
        <3>5. as = "fresh" => was[out] = Absent
            BY <1>1, <1>4, <2>2 DEF After
        <3>6. IsResult(now, was, Directories, out, roots, m)
            BY <1>1
        <3> QED
            BY <1>2, <1>3, <3>4, <3>5, <3>6, NewGood, Zenon
    <2> QED
        BY <2>1, <2>2
<1> QED
    BY <1>1, <1>5, <1>6, <1>7, OthersGood

LEMMA InPlaceSound ==
    ASSUME EditsTyped, EditsSound, NEW n \in Names, NEW ids, DeleteInPlace(n, ids)
    PROVE  EditsSound'
<1>1. PICK mv : mv = Moved(n)
    OBVIOUS
<1>2. PICK now : now = disk'
    OBVIOUS
<1>3. disk[n] # Absent
    BY InPlaceIs
<1>4. PICK w : IsResult(w, mv, Directories, n, <<Bak>>, 1) /\ now = [w EXCEPT ![Bak] = Absent]
    BY <1>1, <1>2, InPlaceIs
<1>5. n \in Directories /\ n # Bak /\ Bak \in Directories /\ Names \subseteq Directories /\ Bak \notin Names
    BY EditsAssumption DEF Directories
<1>6. /\ OnDisk(mv, Directories) /\ mv[n] = Absent /\ mv[Bak] = disk[n]
      /\ \A x \in Names : x # n => mv[x] = disk[x]
    BY <1>1, <1>3, MovedTyped DEF IsDisk
<1>7. PICK one \in Nat : one = 1
    OBVIOUS
<1>8. PICK roots : roots = <<Bak>>
    OBVIOUS
<1>9. IsResult(w, mv, Directories, n, roots, one)
    BY <1>4, <1>7, <1>8
<1>10. Outside(w, mv, n, Directories)
    BY <1>5, <1>7, <1>9, IsResultTyped
<1>11. now[n] = w[n] /\ \A x \in Names : x # n => now[x] = disk[x]
    BY <1>4, <1>5, <1>6, <1>10 DEF Outside, OnDisk
<1>12. PICK as : as = IF past[n] = "fresh" THEN "fresh" ELSE "spoilt"
    OBVIOUS
<1>13. past'[n] = as /\ \A x \in Names : x # n => past'[x] = past[x]
    <2>1. Edit(n, as)
        BY <1>12 DEF DeleteInPlace
    <2> QED
        BY <2>1, EditPast
<1>14. Good(w[n], as)
    <2>1. CASE as = "spoilt"
        BY <2>1 DEF Good
    <2>2. CASE as # "spoilt"
        <3>1. past[n] = "fresh"
            BY <1>12, <2>2
        <3>2. Good(disk[n], past[n])
            BY DEF EditsSound
        <3>3. Fresh(disk[n])
            BY <1>3, <3>1, <3>2 DEF Good
        <3>4. FreshRoots(mv, roots, one, n)
            <4>1. \A i \in 1 .. one : roots[i] = Bak
                BY <1>7, <1>8
            <4> QED
                BY <1>5, <1>6, <3>3, <4>1 DEF FreshRoots
        <3> QED
            BY <1>5, <1>6, <1>7, <1>9, <3>4, NewGood
    <2> QED
        BY <2>1, <2>2
<1> QED
    BY <1>2, <1>11, <1>13, <1>14, OthersGood, Zenon

LEMMA StampSound ==
    ASSUME EditsTyped, EditsSound, NEW n \in Names, NEW overwrite \in BOOLEAN, Stamp(n, overwrite)
    PROVE  EditsSound'
<1>1. PICK d, new : d = disk[n] /\ new = disk'[n]
    OBVIOUS
<1>2. d # Absent /\ IsDataset(d) /\ Outside(disk', disk, n, Directories) /\ new = StampDatasetCycles(d)
    BY <1>1, StampTyped
<1>3. IsDataset(new) /\ StampedAs(new, d)
    BY <1>2, StampExact
<1>4. \A x \in Names : x # n => disk'[x] = disk[x]
    BY <1>2 DEF Outside, Directories
<1>5. past'[n] = past[n] /\ \A x \in Names : x # n => past'[x] = past[x]
    <2>1. Edit(n, past[n])
        BY DEF Stamp
    <2> QED
        BY <2>1, EditPast
<1>6. Good(d, past[n])
    BY <1>1 DEF EditsSound
<1>7. ASSUME new # Absent, past[n] = "fresh" PROVE Fresh(new)
    <2>1. Fresh(d)
        BY <1>2, <1>6, <1>7 DEF Good
    <2> QED
        BY <1>2, <1>3, <1>7, <2>1, StampFresh
<1>8. ASSUME new # Absent, past[n] # "spoilt", Sound(new) PROVE Exact(new)
    <2>1. SameStock(new, d) /\ TableRows(new) = TableRows(d)
        BY <1>3, StampedStock
    <2>2. Sound(d)
        BY <1>2, <1>3, <1>8, <2>1, SameSound
    <2>3. Exact(d)
        BY <1>2, <1>6, <1>8, <2>2 DEF Good
    <2> QED
        BY <1>2, <1>3, <2>3, StampExactly
<1>9. Good(new, past[n])
    BY <1>7, <1>8 DEF Good
<1> QED
    BY <1>1, <1>4, <1>5, <1>9, OthersGood

LEMMA EditsSoundStep == EditsTyped /\ EditsSound /\ [Next]_vars => EditsSound'
<1> SUFFICES ASSUME EditsTyped, EditsSound, [Next]_vars PROVE EditsSound'
    OBVIOUS
<1>1. ASSUME NEW n \in Names, NEW out \in Names, NEW ids \in Requested(n), DeleteInto(n, ids, out) \/ Split(n, ids, out)
      PROVE  EditsSound'
    <2>1. disk[n] # Absent /\ IsResult(disk', disk, Directories, out, <<n>>, 1)
        BY <1>1, OutwardIs
    <2>2. Into(out, <<n>>)
        BY <1>1 DEF DeleteInto, Split
    <2>3. PICK one \in Nat : one = 1
        OBVIOUS
    <2>4. PICK roots : roots = <<n>>
        OBVIOUS
    <2>5. Into(out, roots) /\ IsResult(disk', disk, Directories, out, roots, one)
        BY <2>1, <2>2, <2>3, <2>4
    <2>6. DOMAIN roots = 1 .. one /\ \A i \in 1 .. one : roots[i] \in Names /\ disk[roots[i]] # Absent
        BY <2>1, <2>3, <2>4
    <2> QED
        BY <2>3, <2>5, <2>6, IntoSound
<1>2. ASSUME NEW n \in Names, NEW ids \in Requested(n), DeleteInPlace(n, ids)
      PROVE  EditsSound'
    BY <1>2, InPlaceSound
<1>3. ASSUME NEW roots \in SeqOf(Names, 2), NEW out \in Names, Merge(roots, out)
      PROVE  EditsSound'
    <2>1. PICK m \in Nat : /\ roots \in [1 .. m -> Names] /\ \A i \in 1 .. m : disk[roots[i]] # Absent
                           /\ IsResult(disk', disk, Directories, out, roots, m)
        BY <1>3, MergeIs
    <2>2. Into(out, roots)
        BY <1>3 DEF Merge
    <2>3. DOMAIN roots = 1 .. m /\ \A i \in 1 .. m : roots[i] \in Names /\ disk[roots[i]] # Absent
        BY <2>1
    <2> QED
        BY <2>1, <2>2, <2>3, IntoSound
<1>4. ASSUME NEW n \in Names, NEW overwrite \in BOOLEAN, Stamp(n, overwrite)
      PROVE  EditsSound'
    BY <1>4, StampSound
<1>5. CASE UNCHANGED <<disk, past>>
    <2>1. \A n \in Names : Good(disk[n], past[n])
        BY DEF EditsSound
    <2>2. \A n \in Names : Good(disk'[n], past'[n])
        BY <1>5, <2>1
    <2> QED
        BY <2>2 DEF EditsSound
<1>6. \/ UNCHANGED <<disk, past>>
      \/ \E n \in Names, out \in Names : \E ids \in Requested(n) : DeleteInto(n, ids, out) \/ Split(n, ids, out)
      \/ \E n \in Names : \E ids \in Requested(n) : DeleteInPlace(n, ids)
      \/ \E roots \in SeqOf(Names, 2), out \in Names : Merge(roots, out)
      \/ \E n \in Names, overwrite \in BOOLEAN : Stamp(n, overwrite)
    BY DEF Next, vars, CheckQuick, CheckFull, Observe
<1> QED
    BY <1>1, <1>2, <1>3, <1>4, <1>5, <1>6

(* The inductive invariant.  In a directory only ever written as it should be, *)
(* the episodes are stocked and, unless recordings are packed, the dataset is *)
(* sound with one file for each; where no job wrote over its own source, what *)
(* is sound is also exact.                                                  *)
THEOREM EditsAreSound == Spec => []EditsSound
<1>1. Init => EditsSound
    BY SoundInit
<1>2. EditsTyped /\ EditsSound /\ [Next]_vars => EditsSound'
    BY EditsSoundStep
<1> QED
    BY <1>1, <1>2, EditsAreTyped, PTL DEF Spec

LEMMA PassedIsExact ==
    ASSUME EditsTyped, EditsSound, NEW n \in Names, disk[n] # Absent, past[n] # "spoilt",
           ValidateQuick(disk[n]) = "passed"
    PROVE  IsDataset(disk[n]) /\ Exact(disk[n])
<1>1. PICK d : d = disk[n]
    OBVIOUS
<1>2. d # Absent /\ IsDataset(d)
    BY <1>1, DatasetOrNot
<1>3. Sound(d)
    BY <1>1, <1>2, QuickMeans
<1>4. Good(d, past[n])
    BY <1>1 DEF EditsSound
<1> QED
    BY <1>1, <1>2, <1>3, <1>4 DEF Good

LEMMA ExactHolds ==
    ASSUME NEW d, IsDataset(d), Exact(d), NEW e \in Range(TableRows(d))
    PROVE  Holds(d, e)
<1>1. PICK eps \in Seq(EpisodeType) : eps = TableRows(d)
    BY TablesJoined
<1>2. PICK k \in DOMAIN eps : e = eps[k]
    BY <1>1 DEF Range
<1>3. e \in EpisodeType
    BY <1>2
<1>4. Owns(d, e) /\ Shows(d, e)
    BY <1>1, <1>2 DEF Exact
<1> QED
    BY <1>3, <1>4, OwnsHolds

(* After any sequence of deletions, splits, merges and stamps into directories *)
(* of their own, a dataset that passes the quick check holds, for each of its *)
(* episodes, the frames and the video of the right recording, whole         *)
(* (QuickIsExact).                                                          *)
THEOREM QuickIsExactAlways == Spec => []QuickIsExact
<1>1. ASSUME EditsTyped, EditsSound PROVE QuickIsExact
    <2>1. ASSUME NEW n \in Names, disk[n] # Absent, past[n] # "spoilt", ValidateQuick(disk[n]) = "passed",
                 NEW e \in Range(TableRows(disk[n]))
          PROVE  Holds(disk[n], e)
        <3>1. IsDataset(disk[n]) /\ Exact(disk[n])
            BY <1>1, <2>1, PassedIsExact
        <3> QED
            BY <3>1, ExactHolds
    <2> QED
        BY <2>1 DEF QuickIsExact
<1> QED
    BY <1>1, EditsAreTyped, EditsAreSound, PTL

(* Jobs into fresh directories turn datasets with a file for each episode into *)
(* datasets that pass the quick check, with one file for each episode still *)
(* (TidyStaysTidy).                                                         *)
THEOREM TidyStays == Spec => []TidyStaysTidy
<1>1. ASSUME EditsTyped, EditsSound PROVE TidyStaysTidy
    <2>1. ASSUME NEW n \in Names, disk[n] # Absent, past[n] = "fresh", NEW d, d = disk[n],
                 NEW eps, eps = TableRows(d), eps # <<>>, \A e \in Range(eps) : e.of \notin Packed
          PROVE  /\ ValidateQuick(d) = "passed"
                 /\ \A f \in DOMAIN d.data : \E e \in Range(eps) : e.file = f /\ Len(d.data[f].rows) = e.length
        <3>1. d # Absent /\ IsDataset(d)
            BY <1>1, <2>1, DatasetOrNot
        <3>2. Good(d, past[n])
            BY <1>1, <2>1 DEF EditsSound
        <3>3. Fresh(d)
            BY <2>1, <3>1, <3>2 DEF Good
        <3>4. \A k \in DOMAIN eps : eps[k] \in Range(eps)
            BY DEF Range
        <3>5. Unpacked(d)
            BY <2>1, <3>4 DEF Unpacked
        <3>6. Sound(d) /\ OneEach(d)
            BY <3>3, <3>5 DEF Fresh
        <3>7. ValidateQuick(d) = "passed"
            BY <3>1, <3>6, QuickMeans
        <3> QED
            BY <2>1, <3>4, <3>6, <3>7 DEF OneEach
    <2> QED
        BY <2>1 DEF TidyStaysTidy
<1> QED
    BY <1>1, EditsAreTyped, EditsAreSound, PTL

(* Columns a stamping left are right after any later edit, when the dataset *)
(* passes the quick check; and the automaton of a gripper ends a cycle just *)
(* where the definition of one does (StampsAreRight).                       *)
THEOREM StampsStayRight == Spec => []StampsAreRight
<1>1. ASSUME EditsTyped, EditsSound, TraceTyped PROVE StampsAreRight
    <2>1. ASSUME NEW n \in Names, disk[n] # Absent, past[n] # "spoilt", ValidateQuick(disk[n]) = "passed",
                 NEW f \in DOMAIN disk[n].data, disk[n].data[f].stamped
          PROVE  MarksAreRight(disk[n].data[f].rows)
        <3>1. Exact(disk[n])
            BY <1>1, <2>1, PassedIsExact
        <3> QED
            BY <2>1, <3>1 DEF Exact
    <2>2. \A i \in DOMAIN trace : i \in CycleEnds(trace) <=>
            \E side \in {1, 2} : EndsCycle([k \in DOMAIN trace |-> trace[k][side]], i)
        BY <1>1, TraceEndsExact
    <2> QED
        BY <2>1, <2>2, Zenon DEF StampsAreRight
<1> QED
    BY <1>1, EditsAreTyped, EditsAreSound, TraceIsTyped, PTL
=============================================================================
