---------------------------- MODULE LibraryProofs ----------------------------
(***************************************************************************)
(* Proofs about the whole server, for any datasets, requests and visitors: *)
(* what is proved about Migrations holds of it; so does what is proved     *)
(* about the hands of the annotators, and on it rest the column, the text  *)
(* of a task, the cached distribution, the statistics, the spared          *)
(* datasets, the export and the types of the whole server.                 *)
(***************************************************************************)
EXTENDS Library, AnnotationsProofs, TLAPS

(* The scripts run in the order of their versions, so that the database     *)
(* holds what its version promises and at most the work of one script more. *)
SchemaInOrder ==
    /\ {M!Adds[n] : n \in 1 .. version} \subseteq has
    /\ has \subseteq {M!Adds[n] : n \in 1 .. version + 1}

(* There is more than the version promises only between a script and its    *)
(* PRAGMA, or where a crash has cut one from the other.                     *)
MoreIsExplained ==
    version < M!Latest /\ M!Adds[version + 1] \in has =>
        boot \in {"stamp", "pragma"} \/ version + 1 \in cut

(* Where init_db can be at a version.                                       *)
PlaceFits ==
    /\ boot = "up" => version = M!Latest
    /\ boot \in {"script", "stamp", "pragma"} => version < M!Latest
    /\ boot \in {"stamp", "pragma"} => M!Adds[version + 1] \in has
    /\ boot = "failed" => version \in 1 .. 2 /\ version + 1 \in cut

SchemaInv == M!TypeOK /\ SchemaInOrder /\ MoreIsExplained /\ PlaceFits

----------------------------------------------------------------------------
(* The three scripts add three different things.                            *)
LEMMA AddsDiffer ==
    /\ M!Adds[1] = "tables" /\ M!Adds[2] = "reason" /\ M!Adds[3] = "auto_graded_at"
    /\ \A m, n \in 1 .. M!Latest : M!Adds[m] = M!Adds[n] => m = n
BY DEF M!Adds, M!Latest

LEMMA SchemaInit == M!Init => SchemaInv
<1> SUFFICES ASSUME M!Init PROVE SchemaInv
    OBVIOUS
<1>1. M!TypeOK
    BY DEF M!Init, M!TypeOK, M!Latest, M!Places
<1>2. SchemaInOrder
    BY DEF M!Init, SchemaInOrder, M!Latest
<1>3. version < M!Latest => M!Adds[version + 1] \notin has
    BY AddsDiffer DEF M!Init, M!Latest
<1> QED
    BY <1>1, <1>2, <1>3 DEF M!Init, SchemaInv, MoreIsExplained, PlaceFits

LEMMA ScriptKeeps == SchemaInv /\ M!Script => SchemaInv'
<1> SUFFICES ASSUME SchemaInv, M!Script PROVE SchemaInv'
    OBVIOUS
<1> DEFINE n == version + 1
<1>1. version \in 0 .. 2 /\ n \in 1 .. 3
    BY DEF SchemaInv, M!TypeOK, PlaceFits, M!Script, M!Latest
<1>2. CASE /\ n = 1 \/ M!Adds[n] \notin has
           /\ has' = has \cup {M!Adds[n]}
           /\ boot' = IF n = 3 THEN "stamp" ELSE "pragma"
    <2>1. UNCHANGED <<version, cut>>
        BY DEF M!Script
    <2>2. M!TypeOK'
        BY <1>1, <1>2, <2>1 DEF SchemaInv, M!TypeOK, M!Latest, M!Places
    <2>3. SchemaInOrder'
        BY <1>1, <1>2, <2>1 DEF SchemaInv, SchemaInOrder
    <2> QED
        BY <1>1, <1>2, <2>1, <2>2, <2>3 DEF SchemaInv, MoreIsExplained, PlaceFits, M!Latest
<1>3. CASE n > 1 /\ M!Adds[n] \in has /\ boot' = "failed" /\ UNCHANGED has
    <2>1. UNCHANGED <<version, cut>> /\ boot = "script"
        BY DEF M!Script
    <2>2. n \in cut
        BY <1>1, <1>3, <2>1 DEF SchemaInv, MoreIsExplained, M!Latest
    <2> QED
        BY <1>1, <1>3, <2>1, <2>2
        DEF SchemaInv, M!TypeOK, SchemaInOrder, MoreIsExplained, PlaceFits, M!Latest, M!Places
<1> QED
    BY <1>2, <1>3 DEF M!Script

LEMMA PragmaKeeps == SchemaInv /\ M!Pragma => SchemaInv'
<1> SUFFICES ASSUME SchemaInv, M!Pragma PROVE SchemaInv'
    OBVIOUS
<1>1. /\ version \in 0 .. 2 /\ M!Adds[version + 1] \in has
      /\ version' = version + 1 /\ UNCHANGED <<has, cut>>
      /\ boot' = IF version' = M!Latest THEN "up" ELSE "script"
    BY DEF SchemaInv, M!TypeOK, PlaceFits, M!Pragma, M!Latest
<1>2. M!TypeOK'
    BY <1>1 DEF SchemaInv, M!TypeOK, M!Latest, M!Places
<1>3. {M!Adds[n] : n \in 1 .. version'} \subseteq has
    BY <1>1 DEF SchemaInv, SchemaInOrder
<1>4. has \subseteq {M!Adds[n] : n \in 1 .. version' + 1}
    BY <1>1 DEF SchemaInv, SchemaInOrder
<1>5. version' < M!Latest => M!Adds[version' + 1] \notin has
    BY <1>1, AddsDiffer DEF SchemaInv, SchemaInOrder, M!Latest
<1> QED
    BY <1>1, <1>2, <1>3, <1>4, <1>5 DEF SchemaInv, SchemaInOrder, MoreIsExplained, PlaceFits, M!Latest

LEMMA SchemaStep == SchemaInv /\ [M!Boot \/ M!Crash]_(M!vars) => SchemaInv'
<1> SUFFICES ASSUME SchemaInv, [M!Boot \/ M!Crash]_(M!vars) PROVE SchemaInv'
    OBVIOUS
<1>1. CASE M!Read
    BY <1>1 DEF M!Read, SchemaInv, M!TypeOK, SchemaInOrder, MoreIsExplained, PlaceFits, M!Latest, M!Places
<1>2. CASE M!Script
    BY <1>2, ScriptKeeps
<1>3. CASE M!Stamp
    BY <1>3 DEF M!Stamp, SchemaInv, M!TypeOK, SchemaInOrder, MoreIsExplained, PlaceFits, M!Latest, M!Places
<1>4. CASE M!Pragma
    BY <1>4, PragmaKeeps
<1>5. CASE M!Crash
    <2>1. UNCHANGED <<version, has>> /\ boot' = "read" /\ cut \subseteq cut'
        BY <1>5 DEF M!Crash
    <2>2. boot \in {"stamp", "pragma"} => version + 1 \in cut'
        BY <1>5 DEF M!Crash
    <2>3. M!TypeOK'
        BY <1>5 DEF M!Crash, SchemaInv, M!TypeOK, PlaceFits, M!Latest, M!Places
    <2> QED
        BY <2>1, <2>2, <2>3 DEF SchemaInv, SchemaInOrder, MoreIsExplained, PlaceFits
<1>6. CASE UNCHANGED M!vars
    BY <1>6 DEF M!vars, SchemaInv, M!TypeOK, SchemaInOrder, MoreIsExplained, PlaceFits
<1> QED
    BY <1>1, <1>2, <1>3, <1>4, <1>5, <1>6 DEF M!Boot

(* The invariant that the two theorems below rest on: what the database has *)
(* beyond its version, and which crash has left it so.                      *)
THEOREM SchemaInvariance == M!Spec => []SchemaInv
<1>1. M!Init => SchemaInv
    BY SchemaInit
<1>2. SchemaInv /\ [M!Boot \/ M!Crash]_(M!vars) => SchemaInv'
    BY SchemaStep
<1> QED
    BY <1>1, <1>2, PTL DEF M!Spec

(* However often the server dies as it starts: the version on disk promises *)
(* no more than there is, and a server that serves has everything.          *)
THEOREM MigrationsHonest == M!Spec => []M!VersionIsHonest
<1>1. SchemaInv => M!VersionIsHonest
    BY DEF SchemaInv, SchemaInOrder, PlaceFits, M!VersionIsHonest
<1> QED
    BY <1>1, SchemaInvariance, PTL

(* The server fails to start only on a database whose second or third       *)
(* migration a crash has cut before its PRAGMA.                             *)
THEOREM MigrationsFailCut == M!Spec => []M!OnlyCutMigrationsFail
<1>1. SchemaInv => M!OnlyCutMigrationsFail
    BY DEF SchemaInv, PlaceFits, M!OnlyCutMigrationsFail
<1> QED
    BY <1>1, SchemaInvariance, PTL

----------------------------------------------------------------------------
(* Nobody but the start of the server touches the schema.                   *)
LEMMA AnnotatorsKeepSchema == ASSUME NEW r, Annotate(r) PROVE UNCHANGED schema
BY DEF Annotate

LEMMA VisitorsKeepSchema == ASSUME NEW v, Visit(v) PROVE UNCHANGED schema
BY DEF Visit, Scan, ScanRow, ScanStats, ScanCommit, Chart, Export, Column, ColumnRead,
       ColumnWrite, ColumnRaises, Task, ColumnRest, Elsewhere

LEMMA ServerStep == [LibraryNext]_libraryVars => [M!Boot \/ M!Crash]_(M!vars)
<1> SUFFICES ASSUME [LibraryNext]_libraryVars PROVE [M!Boot \/ M!Crash]_(M!vars)
    OBVIOUS
<1>1. ASSUME NEW r, Annotate(r) PROVE UNCHANGED M!vars
    BY <1>1, AnnotatorsKeepSchema DEF schema, M!vars
<1>2. ASSUME NEW v, Visit(v) PROVE UNCHANGED M!vars
    BY <1>2, VisitorsKeepSchema DEF schema, M!vars
<1>3. CASE Booting
    BY <1>3 DEF Booting, Boot, M!Boot
<1>4. CASE ServerCrash
    BY <1>4 DEF ServerCrash, M!Crash
<1>5. CASE UNCHANGED libraryVars
    BY <1>5 DEF libraryVars, schema, M!vars
<1> QED
    BY <1>1, <1>2, <1>3, <1>4, <1>5 DEF LibraryNext

(* The server implements Migrations.                                        *)
THEOREM ServerMigrates == LibrarySpec => M!Spec
<1>1. LibInit \/ UpgradeInit => M!Init
    BY DEF LibInit, UpgradeInit, M!Init, M!Latest, M!Adds
<1> QED
    BY <1>1, ServerStep, PTL DEF LibrarySpec, M!Spec

(* However often the server dies as it starts: the version on disk promises *)
(* no more than there is, and a server that serves has everything.          *)
THEOREM HonestVersion == LibrarySpec => []VersionIsHonest
<1>1. M!VersionIsHonest <=> VersionIsHonest
    BY DEF VersionIsHonest
<1> QED
    BY <1>1, MigrationsHonest, ServerMigrates, PTL

(* The server fails to start only on a database whose second or third       *)
(* migration a crash has cut before its PRAGMA.                             *)
THEOREM FailsOnlyCut == LibrarySpec => []OnlyCutMigrationsFail
<1>1. M!OnlyCutMigrationsFail <=> OnlyCutMigrationsFail
    BY DEF OnlyCutMigrationsFail
<1> QED
    BY <1>1, MigrationsFailCut, ServerMigrates, PTL

LEMMA AnnotatorsStep ==
    ASSUME NEW r \in Reqs, Annotate(r)
    PROVE  [Next]_vars
BY DEF Annotate, Next, Handler

LEMMA VisitsLeave ==
    ASSUME NEW v, Visit(v)
    PROVE  UNCHANGED <<loaded, map, gen, cache, locks, pc, my, ask, aim, calm, unread>>
BY DEF Visit, Scan, ScanRow, ScanStats, ScanCommit, Chart, Export, Column, ColumnRead,
       ColumnWrite, ColumnRaises, Task, ColumnRest, Among, given, memory, caches

----------------------------------------------------------------------------
(* What is proved about the annotators goes on beside the visitors and the  *)
(* starts of the server, which leave their hands alone.                     *)
LEMMA BootingLeaves ==
    ASSUME Booting
    PROVE  UNCHANGED <<loaded, map, gen, cache, chart, file, locks, pc, my, ask, aim, calm, unread>>
BY DEF Booting, memory, caches, tables, given

LEMMA ServerKinds ==
    ASSUME [LibraryNext]_libraryVars
    PROVE  \/ \E r \in Reqs : Annotate(r)
           \/ \E v \in Visitors : Visit(v)
           \/ Booting \/ (ServerCrash /\ Crash) \/ UNCHANGED libraryVars
BY DEF LibraryNext, ServerCrash

LEMMA LocalStays == LocalInv /\ UNCHANGED <<loaded, pc, my, ask, aim, calm>> => LocalInv'
BY DEF LocalInv, Shapes, Local, Busy, Purpose, Place, Sweeps, Twofold

LEMMA LocalServes == LocalInv /\ [LibraryNext]_libraryVars => LocalInv'
<1> SUFFICES ASSUME LocalInv, [LibraryNext]_libraryVars PROVE LocalInv'
    OBVIOUS
<1>1. ASSUME NEW r \in Reqs, Annotate(r) PROVE LocalInv'
    BY <1>1, AnnotatorsStep, LocalStep
<1>2. ASSUME NEW v \in Visitors, Visit(v) PROVE LocalInv'
    BY <1>2, VisitsLeave, LocalStays
<1>3. CASE Booting
    BY <1>3, BootingLeaves, LocalStays
<1>4. CASE Crash
    BY <1>4, LocalStep DEF Next
<1>5. CASE UNCHANGED libraryVars
    BY <1>5, LocalStays DEF libraryVars, vars
<1> QED
    BY <1>1, <1>2, <1>3, <1>4, <1>5, ServerKinds

LEMMA LocalUpgrade == UpgradeInit => LocalInv
BY DEF UpgradeInit, Idle, LocalInv, Shapes, Local, Busy, Awaits, Ended, Fields

(* Beside visitors, starts and crashes too, every handler knows what it has *)
(* in hand: LocalInv is an invariant of the whole server.                   *)
THEOREM LocalServed == LibrarySpec => []LocalInv
<1>1. LibInit \/ UpgradeInit => LocalInv
    BY LocalInit, LocalUpgrade DEF LibInit
<1> QED
    BY <1>1, LocalServes, PTL DEF LibrarySpec

----------------------------------------------------------------------------
(* Of numbers there is a least, and so of tables there is a first: the sets *)
(* of smaller ones are finite, and one of them has none smaller.            *)
LEMMA Least == ASSUME NEW S \in SUBSET Nat, S # {} PROVE \E n \in S : \A m \in S : n <= m
<1>1. PICK below : below = [n \in S |-> {m \in S : m < n}]
    OBVIOUS
<1> DEFINE T == {below[n] : n \in S}
<1>2. \A n \in S : below[n] \subseteq S /\ \A m \in S : m \in below[n] <=> m < n
    BY <1>1
<1>3. ASSUME NEW n \in S PROVE below[n] \in FiniteSubsetsOf(Nat)
    <2>1. ASSUME NEW s \in below[n] PROVE s \in Nat /\ s <= n
        <3>1. s \in S
            BY <1>2
        <3>2. s \in Nat /\ n \in Nat /\ s < n
            BY <1>2, <3>1
        <3> QED
            BY <3>2
    <2>2. IsFiniteSet(below[n])
        BY <2>1, FS_BoundedSetOfNaturals
    <2> QED
        BY <2>1, <2>2 DEF FiniteSubsetsOf
<1>4. T \subseteq FiniteSubsetsOf(Nat) /\ T # {}
    BY <1>3
<1>5. PICK x \in T : \A y \in T : <<y, x>> \notin StrictSubsetOrdering(Nat)
    <2> HIDE DEF T
    <2> QED
        BY <1>4, WFMin, FS_StrictSubsetOrderingWellFounded
<1>6. PICK n \in S : x = below[n]
    OBVIOUS
<1>7. \A m \in S : below[m] \in T /\ below[m] \subseteq Nat
    BY <1>2
<1> HIDE DEF T
<1>8. ASSUME NEW m \in S, m < n PROVE FALSE
    <2>1. below[m] \subseteq below[n] /\ below[m] # below[n]
        <3>0. m \in Nat /\ ~(m < m)
            OBVIOUS
        <3>1. m \in below[n] /\ m \notin below[m]
            BY <1>2, <1>8, <3>0
        <3>2. \A k \in S : k < m => k < n
            BY <1>8
        <3> QED
            BY <1>2, <3>1, <3>2
    <2> QED
        BY <1>5, <1>6, <1>7, <2>1 DEF StrictSubsetOrdering
<1> QED
    BY <1>8

LEMMA FirstIsOne ==
    ASSUME NEW d \in Datasets, NEW fs \in SUBSET Files(d), fs # {}
    PROVE  First(fs) \in fs
<1> DEFINE ns == {f[2] : f \in fs}
<1>1. \A f \in fs : f[2] \in Nat
    BY LibraryAssumption DEF Files, Indices
<1>2. ns \in SUBSET Nat /\ ns # {}
    BY <1>1
<1>3. PICK n \in ns : \A m \in ns : n <= m
    <2> HIDE DEF ns
    <2> QED
        BY <1>2, Least
<1>4. PICK f \in fs : f[2] = n
    OBVIOUS
<1>5. \A g \in fs : f[2] <= g[2]
    BY <1>3, <1>4
<1> QED
    BY <1>4, <1>5 DEF First

----------------------------------------------------------------------------
(* The new column.                                                          *)
HasTable(r) == pc[r] \in {"edit", "write"}

(* A visitor that adds a column has it in all tables but those it has left; *)
(* nobody has one of them in hand but those whose table is spoiled.         *)
Adding(v) ==
    at[v] \in {"read", "write"} =>
        /\ loop = v /\ want[v].op = "column"
        /\ todo[v] # {} /\ todo[v] \subseteq Files(want[v].dataset)
        /\ Files(want[v].dataset) \ todo[v] \subseteq cols \cup spoiled
        /\ \A r \in Reqs : HasTable(r) /\ my[r].file \in Files(want[v].dataset) =>
                my[r].file \in spoiled

(* A table in hand has the column if and only if the table that it replaces *)
(* has it.                                                                  *)
HoldsColumn(r) ==
    HasTable(r) /\ my[r].file \notin spoiled => (held[r] <=> my[r].file \in cols)

VisitsFit ==
    /\ want \in [Visitors -> Visits] /\ DOMAIN at = Visitors /\ DOMAIN todo = Visitors
    /\ DOMAIN held = Reqs
    /\ \A v \in Visitors : at[v] \in {"register", "stats", "commit"} => want[v].op = "scan"

ColumnInv ==
    /\ VisitsFit /\ ColumnStays
    /\ \A v \in Visitors : Adding(v)
    /\ \A r \in Reqs : HoldsColumn(r)

LEMMA TablesTaken ==
    ASSUME LocalInv, NEW r \in Reqs, Start(r) \/ Handler(r), HasTable(r)'
    PROVE  \/ ReadTable(r) /\ my'[r].file = my[r].file
           \/ WriteBegin(r) /\ my'[r] = my[r]
<1>1. CASE Aside(r)
    <2>1. PICK step \in (Awaits \cup Ended) \ Inside : \E l : Move(r, step, l)
        BY <1>1 DEF Aside
    <2>2. pc'[r] = step
        BY <2>1, Moved
    <2> QED
        BY <2>1, <2>2 DEF Inside, HasTable
<1>2. CASE Graded(r)
    BY <1>2, Moved DEF Graded, Answer, HasTable
<1>3. CASE Sweep(r)
    <2>1. \E step \in {"annotations", "sweep", "upsert"} : \E l : Move(r, step, l)
        BY <1>3 DEF Sweep
    <2>2. pc'[r] \in {"annotations", "sweep", "upsert"}
        BY <2>1, Moved
    <2> QED
        BY <2>2 DEF HasTable
<1>4. CASE Upsert(r)
    BY <1>4, Moved DEF Upsert, HasTable
<1>5. CASE ReadTable(r)
    BY <1>5, ReadTableTurns DEF HasTable
<1>6. CASE WriteBegin(r)
    BY <1>6, WriteBeginTurns
<1> QED
    BY <1>1, <1>2, <1>3, <1>4, <1>5, <1>6, MostMoveAside

LEMMA ColumnsKept ==
    ASSUME LocalInv, ColumnInv, NEW r \in Reqs, Annotate(r), NEW f, f \notin spoiled
    PROVE  f \in cols' <=> f \in cols
<1>1. CASE pc[r] = "write" /\ f = my[r].file
    BY <1>1 DEF ColumnInv, HoldsColumn, HasTable, Annotate, Rewritten
<1>2. CASE ~(pc[r] = "write" /\ f = my[r].file)
    BY <1>2 DEF Annotate, Rewritten
<1> QED
    BY <1>1, <1>2

LEMMA ColumnAnnotated ==
    ASSUME LocalInv, ColumnInv, NEW r \in Reqs, Annotate(r)
    PROVE  ColumnInv'
<1>1. /\ UNCHANGED <<want, at, todo, loop, spoiled>>
      /\ held' = IF pc[r] = "lock" THEN [held EXCEPT ![r] = my[r].file \in cols] ELSE held
    BY DEF Annotate, visits
<1>2. Start(r) \/ Handler(r)
    BY DEF Annotate, Handler
<1>3. \A q \in Reqs : q # r => pc'[q] = pc[q] /\ my'[q] = my[q] /\ held'[q] = held[q]
    BY <1>1, <1>2, OthersWait DEF ColumnInv, VisitsFit
<1>4. \A f : f \notin spoiled => (f \in cols' <=> f \in cols)
    BY ColumnsKept
<1>5. VisitsFit'
    BY <1>1 DEF ColumnInv, VisitsFit
<1>6. ColumnStays'
    BY <1>1, <1>4 DEF ColumnInv, ColumnStays
<1>7. ASSUME NEW v \in Visitors PROVE Adding(v)'
    <2> SUFFICES ASSUME at[v] \in {"read", "write"} PROVE Adding(v)'
        BY <1>1 DEF Adding
    <2>1. Adding(v) /\ loop # None
        BY LibraryAssumption DEF ColumnInv, Adding
    <2>2. WriteBegin(r) \/ WriteEnd(r) \/ WriteRaises(r)
        BY <2>1 DEF Annotate
    <2>3. HasTable(r)' => HasTable(r) /\ my'[r].file = my[r].file
        BY <1>2, <2>2, TablesTaken DEF HasTable, WriteBegin, WriteEnd, WriteRaises, ReadTable
    <2>4. \A q \in Reqs : HasTable(q)' => HasTable(q) /\ my'[q].file = my[q].file
        BY <1>3, <2>3 DEF HasTable
    <2> QED
        BY <1>1, <1>4, <2>1, <2>4 DEF Adding
<1>8. HoldsColumn(r)'
    <2> SUFFICES ASSUME HasTable(r)', my'[r].file \notin spoiled PROVE held'[r] <=> my'[r].file \in cols'
        BY <1>1 DEF HoldsColumn
    <2>1. CASE ReadTable(r) /\ my'[r].file = my[r].file
        BY <1>1, <1>4, <2>1 DEF ReadTable, ColumnInv, VisitsFit
    <2>2. CASE WriteBegin(r) /\ my'[r] = my[r]
        BY <1>1, <1>4, <2>2 DEF WriteBegin, ColumnInv, HoldsColumn, HasTable
    <2> QED
        BY <1>2, <2>1, <2>2, TablesTaken
<1>9. ASSUME NEW q \in Reqs, q # r PROVE HoldsColumn(q)'
    BY <1>1, <1>3, <1>4, <1>9 DEF ColumnInv, HoldsColumn, HasTable
<1> QED
    BY <1>5, <1>6, <1>7, <1>8, <1>9 DEF ColumnInv

(* A visitor that adds no column.                                           *)
LEMMA ColumnElsewhere ==
    ASSUME ColumnInv, NEW v \in Visitors, UNCHANGED <<column, want, pc, my>>,
           NEW stop, NEW got, NEW rest, Go(v, stop, got, rest), stop \notin {"read", "write"},
           stop \in {"register", "stats", "commit"} => want[v].op = "scan",
           stop = "ok" => want[v].op # "column"
    PROVE  ColumnInv'
<1>1. /\ at'[v] = stop /\ DOMAIN at' = Visitors /\ DOMAIN todo' = Visitors
      /\ \A u \in Visitors : u # v => at'[u] = at[u] /\ todo'[u] = todo[u]
    BY DEF Go, ColumnInv, VisitsFit
<1>2. VisitsFit' /\ ColumnStays'
    BY <1>1 DEF ColumnInv, VisitsFit, ColumnStays, column
<1>3. ASSUME NEW u \in Visitors PROVE Adding(u)'
    BY <1>1 DEF ColumnInv, Adding, HasTable, column
<1>4. \A r \in Reqs : HoldsColumn(r)'
    BY DEF ColumnInv, HoldsColumn, HasTable, column
<1> QED
    BY <1>2, <1>3, <1>4 DEF ColumnInv

(* It begins: whoever has a table of the dataset in hand spoils it.         *)
LEMMA ColumnBegins ==
    ASSUME ColumnInv, NEW v \in Visitors, Column(v)
    PROVE  ColumnInv'
<1> DEFINE fs == Files(want[v].dataset)
<1>1. /\ want[v].op = "column" /\ loop = None /\ at[v] = "new"
      /\ UNCHANGED <<want, pc, my, cols, held>>
    BY DEF Column, Asks, Serves, ColumnRest, Among
<1>2. CASE Done(v, "error", None) /\ UNCHANGED <<loop, spoiled>>
    BY <1>1, <1>2, ColumnElsewhere DEF Done, column
<1>3. CASE /\ fs # {} /\ Go(v, "read", None, fs) /\ loop' = v
           /\ spoiled' = spoiled \cup {f \in fs : \E r \in Reqs :
                            my[r].file = f /\ pc[r] \in {"edit", "write"}}
    <2>1. /\ at'[v] = "read" /\ todo'[v] = fs /\ DOMAIN at' = Visitors /\ DOMAIN todo' = Visitors
          /\ \A u \in Visitors : u # v => at'[u] = at[u] /\ todo'[u] = todo[u]
        BY <1>3 DEF Go, ColumnInv, VisitsFit
    <2>2. \A u \in Visitors : u # v => at[u] \notin {"read", "write"}
        BY <1>1, LibraryAssumption DEF ColumnInv, Adding
    <2>3. VisitsFit' /\ ColumnStays'
        BY <1>1, <1>3, <2>1 DEF ColumnInv, VisitsFit, ColumnStays
    <2>4. Adding(v)'
        BY <1>1, <1>3, <2>1 DEF Adding, HasTable
    <2>5. \A u \in Visitors : u # v => Adding(u)'
        BY <2>1, <2>2 DEF Adding
    <2>6. \A r \in Reqs : HoldsColumn(r)'
        BY <1>1, <1>3 DEF ColumnInv, HoldsColumn, HasTable
    <2> QED
        BY <2>3, <2>4, <2>5, <2>6 DEF ColumnInv
<1> QED
    BY <1>2, <1>3 DEF Column

(* It goes on: nobody else has this table in hand, unless it is spoiled.    *)
LEMMA ColumnGoesOn ==
    ASSUME ColumnInv, NEW v \in Visitors, ColumnRead(v) \/ ColumnWrite(v) \/ ColumnRaises(v)
    PROVE  ColumnInv'
<1>1. UNCHANGED <<want, pc, my, held, spoiled>>
    BY DEF ColumnRead, ColumnWrite, ColumnRaises, ColumnRest, Among
<1>2. at[v] \in {"read", "write"} /\ Adding(v) /\ DOMAIN todo = Visitors
    BY DEF ColumnRead, ColumnWrite, ColumnRaises, ColumnInv, VisitsFit
<1>3. \A u \in Visitors : u # v => at[u] \notin {"read", "write"}
    BY <1>2 DEF ColumnInv, Adding
<1> DEFINE Others(stop) ==
        /\ at'[v] = stop /\ DOMAIN at' = Visitors /\ DOMAIN todo' = Visitors
        /\ \A u \in Visitors : u # v => at'[u] = at[u] /\ todo'[u] = todo[u]
<1>4. ASSUME NEW stop, NEW got, NEW rest, Go(v, stop, got, rest)
      PROVE  Others(stop) /\ todo'[v] = rest
    BY <1>4 DEF Go, ColumnInv, VisitsFit
<1> HIDE DEF Others
<1>5. ASSUME Others("error"), UNCHANGED cols PROVE ColumnInv'
    <2>1. VisitsFit' /\ ColumnStays'
        BY <1>1, <1>5 DEF ColumnInv, VisitsFit, ColumnStays, Others
    <2>2. \A u \in Visitors : Adding(u)'
        BY <1>3, <1>5 DEF Adding, Others
    <2>3. \A r \in Reqs : HoldsColumn(r)'
        BY <1>1, <1>5 DEF ColumnInv, HoldsColumn, HasTable
    <2> QED
        BY <2>1, <2>2, <2>3 DEF ColumnInv
<1>6. CASE ColumnRead(v) /\ Go(v, "write", file[First(todo[v])], todo[v]) /\ UNCHANGED loop
    <2>1. Others("write") /\ todo'[v] = todo[v] /\ UNCHANGED cols
        BY <1>4, <1>6 DEF ColumnRead
    <2>2. VisitsFit' /\ ColumnStays'
        BY <1>1, <2>1 DEF ColumnInv, VisitsFit, ColumnStays, Others
    <2>3. Adding(v)'
        BY <1>1, <1>2, <1>6, <2>1 DEF Adding, HasTable, Others
    <2>4. \A u \in Visitors : u # v => Adding(u)'
        BY <1>3, <2>1 DEF Adding, Others
    <2>5. \A r \in Reqs : HoldsColumn(r)'
        BY <1>1, <2>1 DEF ColumnInv, HoldsColumn, HasTable
    <2> QED
        BY <2>2, <2>3, <2>4, <2>5 DEF ColumnInv
<1>7. CASE ColumnWrite(v)
    <2> DEFINE f == First(todo[v])
               rest == todo[v] \ {f}
    <2>1. want[v].dataset \in Datasets
        BY <1>2 DEF Adding, ColumnInv, VisitsFit, Visits
    <2>2. f \in todo[v]
        BY <1>2, <2>1, FirstIsOne DEF Adding
    <2>3. cols' = cols \cup {f}
        BY <1>7 DEF ColumnWrite
    <2>4. \/ rest = {} /\ Go(v, "ok", None, {}) /\ loop' = None
          \/ rest # {} /\ Go(v, "read", None, rest) /\ UNCHANGED loop
        BY <1>7 DEF ColumnWrite, Done
    <2>5. /\ \/ rest = {} /\ Others("ok")
             \/ rest # {} /\ Others("read") /\ UNCHANGED loop /\ todo'[v] = rest
        BY <1>4, <2>4
    <2>6. Files(want[v].dataset) \ rest \subseteq cols' \cup spoiled
        BY <1>2, <2>3 DEF Adding
    <2>7. VisitsFit' /\ ColumnStays'
        <3>1. ASSUME NEW u \in Visitors, u # v, want[u].op = "column", at[u] = "ok"
              PROVE  Files(want[u].dataset) \subseteq cols' \cup spoiled
            BY <2>3, <3>1 DEF ColumnInv, ColumnStays
        <3> QED
            BY <1>1, <2>5, <2>6, <3>1 DEF ColumnInv, VisitsFit, ColumnStays, Others
    <2>8. Adding(v)'
        BY <1>1, <1>2, <2>5, <2>6 DEF Adding, HasTable, Others
    <2>9. \A u \in Visitors : u # v => Adding(u)'
        BY <1>3, <2>5 DEF Adding, Others
    <2>10. ASSUME NEW r \in Reqs PROVE HoldsColumn(r)'
        <3>1. HasTable(r) /\ my[r].file \notin spoiled => my[r].file # f
            BY <1>2, <2>2 DEF Adding
        <3> QED
            BY <1>1, <2>3, <3>1 DEF ColumnInv, HoldsColumn, HasTable
    <2> QED
        BY <2>7, <2>8, <2>9, <2>10 DEF ColumnInv
<1>8. CASE Done(v, "error", None) /\ UNCHANGED cols
    BY <1>4, <1>5, <1>8 DEF Done
<1> QED
    BY <1>6, <1>7, <1>8 DEF ColumnRead, ColumnRaises

LEMMA ColumnVisited ==
    ASSUME ColumnInv, NEW v \in Visitors, Visit(v)
    PROVE  ColumnInv'
<1>1. UNCHANGED <<want, pc, my>>
    BY VisitsLeave
       DEF Visit, Scan, ScanRow, ScanStats, ScanCommit, Chart, Export, Column, ColumnRead, ColumnWrite,
           ColumnRaises, Task, ColumnRest, Elsewhere
<1>2. CASE Scan(v)
    BY <1>1, <1>2, ColumnElsewhere DEF Scan, Asks, Done, Elsewhere
<1>3. CASE ScanRow(v) \/ ScanStats(v)
    <2>1. UNCHANGED column /\ want[v].op = "scan"
        BY <1>3 DEF ScanRow, ScanStats, Elsewhere, ColumnInv, VisitsFit
    <2>2. \E stop \in {"register", "stats", "commit"} : \E got, rest : Go(v, stop, got, rest)
        BY <1>3 DEF ScanRow, ScanStats
    <2> QED
        BY <1>1, <2>1, <2>2, ColumnElsewhere
<1>4. CASE ScanCommit(v)
    BY <1>1, <1>4, ColumnElsewhere DEF ScanCommit, Done, Elsewhere, ColumnInv, VisitsFit
<1>5. CASE Chart(v) \/ Export(v) \/ Task(v)
    <2>1. UNCHANGED column /\ want[v].op # "column"
        BY <1>5 DEF Chart, Export, Task, Asks, Elsewhere
    <2>2. \E stop \in {"ok", "error"} : \E got, rest : Go(v, stop, got, rest)
        BY <1>5 DEF Chart, Export, Task, Done
    <2> QED
        BY <1>1, <2>1, <2>2, ColumnElsewhere
<1> QED
    BY <1>2, <1>3, <1>4, <1>5, ColumnBegins, ColumnGoesOn DEF Visit

LEMMA ColumnServes == LocalInv /\ ColumnInv /\ [LibraryNext]_libraryVars => ColumnInv'
<1> SUFFICES ASSUME LocalInv, ColumnInv, [LibraryNext]_libraryVars PROVE ColumnInv'
    OBVIOUS
<1>1. ASSUME UNCHANGED <<want, at, todo, column, pc, my>> PROVE ColumnInv'
    BY <1>1 DEF ColumnInv, VisitsFit, ColumnStays, Adding, HoldsColumn, HasTable, column
<1>2. CASE Booting
    BY <1>1, <1>2, BootingLeaves DEF Booting, visits
<1>3. CASE ServerCrash
    <2>1. /\ UNCHANGED <<want, todo, cols, held, spoiled>>
          /\ at' = [v \in Visitors |-> IF at[v] \in Ended \cup {"new"} THEN at[v] ELSE "lost"]
          /\ pc' = [r \in Reqs |-> IF pc[r] \in Ended \cup {"new"} THEN pc[r] ELSE "lost"]
        BY <1>3 DEF ServerCrash, Crash
    <2>2. \A v \in Visitors : at'[v] \in {"new", "ok", "error", "lost"} /\ (at'[v] = "ok" => at[v] = "ok")
        BY <2>1 DEF Ended
    <2>3. \A r \in Reqs : ~HasTable(r)'
        BY <2>1 DEF HasTable, Ended
    <2>4. VisitsFit' /\ ColumnStays'
        BY <2>1, <2>2 DEF ColumnInv, VisitsFit, ColumnStays
    <2> QED
        BY <2>2, <2>3, <2>4 DEF ColumnInv, Adding, HoldsColumn
<1>4. CASE UNCHANGED libraryVars
    BY <1>1, <1>4 DEF libraryVars, vars, visits
<1> QED
    BY <1>2, <1>3, <1>4, ColumnAnnotated, ColumnVisited, ServerKinds

LEMMA ColumnInit == LibInit \/ UpgradeInit => ColumnInv
BY DEF LibInit, UpgradeInit, Idle, Init, LibraryInit, ColumnInv, VisitsFit, ColumnStays, Adding, HoldsColumn, HasTable

(* Who adds a column has every table of the dataset to himself, but for     *)
(* those somebody has in hand already.                                      *)
THEOREM ColumnInvariance == LibrarySpec => []ColumnInv
BY ColumnInit, ColumnServes, LocalServed, PTL DEF LibrarySpec

(* A column that was added stays in every table of its dataset.             *)
THEOREM ColumnsStay == LibrarySpec => []ColumnStays
<1>1. ColumnInv => ColumnStays
    BY DEF ColumnInv
<1> QED
    BY <1>1, ColumnInvariance, PTL

----------------------------------------------------------------------------
(* The text of a task.  Who lists episodes was asked for a list.            *)
Lists(r) == Busy(r) /\ my[r].stage = "list"

LEMMA BegunWith ==
    ASSUME LocalInv, NEW r \in Reqs, NEW l, DOMAIN l = Fields, CallRegister(r, l)
    PROVE  pc'[r] = "error" \/ my'[r].stage = l.stage
<1>1. CASE Answer(r, "error")
    BY <1>1, Moved DEF Answer
<1>2. CASE Move(r, "register", [l EXCEPT !.path = loaded])
    <2>1. my'[r] = [l EXCEPT !.path = loaded]
        BY <1>2, Moved
    <2> QED
        BY <2>1 DEF Fields, Blank
<1> QED
    BY <1>1, <1>2 DEF CallRegister, CallWithPath

LEMMA StageBegun ==
    ASSUME LocalInv, NEW r \in Reqs
    PROVE  /\ \A stage : StartGet(r, stage) => pc'[r] = "error" \/ my'[r].stage = stage
           /\ \A tags : StartUpdate(r, tags) => pc'[r] = "error" \/ my'[r].stage = "update"
<1>1. ASSUME Answer(r, "error") PROVE pc'[r] = "error"
    BY <1>1, Moved DEF Answer
<1>2. ASSUME NEW stage, StartGet(r, stage) PROVE pc'[r] = "error" \/ my'[r].stage = stage
    <2>1. PICK l : l = [Blank EXCEPT !.stage = stage, !.file = <<map, FileOf[map][Target(r)]>>]
        OBVIOUS
    <2>2. DOMAIN l = Fields /\ l.stage = stage
        BY <2>1 DEF Fields, Blank
    <2>3. CallRegister(r, l) \/ Answer(r, "error")
        BY <1>2, <2>1 DEF StartGet
    <2> QED
        BY <1>1, <2>2, <2>3, BegunWith
<1>3. ASSUME NEW tags, StartUpdate(r, tags) PROVE pc'[r] = "error" \/ my'[r].stage = "update"
    <2>1. PICK l : l = [Blank EXCEPT !.stage = "update", !.tags = tags]
        OBVIOUS
    <2>2. DOMAIN l = Fields /\ l.stage = "update"
        BY <2>1 DEF Fields, Blank
    <2>3. CallRegister(r, l) \/ Answer(r, "error")
        BY <1>3, <2>1 DEF StartUpdate
    <2> QED
        BY <1>1, <2>2, <2>3, BegunWith
<1> QED
    BY <1>2, <1>3

LEMMA HandlersWork == ASSUME NEW r, Handler(r) PROVE Busy(r)
BY DEF Handler, Register, Insert, Migrate, SidecarRow, Stamped, Graded, Sweep, Upsert, Stamp, ReadNotes,
       ReadFile, Save, Count, Stats, ReadTable, WriteBegin, WriteEnd, WriteRaises, Busy, Ended

LEMMA ListersListed ==
    ASSUME LocalInv, NEW r \in Reqs, Start(r) \/ Handler(r), Lists(r)'
    PROVE  Lists(r) \/ List(r)
<1>1. pc'[r] \notin Ended
    BY DEF Lists, Busy
<1>2. pc'[r] \notin {"ok", "error"}
    BY <1>1 DEF Ended
<1>3. CASE Load(r)
    BY <1>2, <1>3, Moved DEF Load, Answer
<1>4. CASE Get(r) \/ Bulk(r)
    <2>1. ASSUME Bulk(r) PROVE pc'[r] = "error" \/ my'[r].stage = "bulk"
        <3>1. PICK l : l = [Blank EXCEPT !.stage = "bulk"]
            OBVIOUS
        <3>2. DOMAIN l = Fields /\ l.stage = "bulk" /\ CallRegister(r, l)
            BY <2>1, <3>1 DEF Bulk, Fields, Blank
        <3> QED
            BY <3>2, BegunWith
    <2>2. ASSUME Get(r) PROVE pc'[r] \in {"ok", "error"} \/ my'[r].stage = "get"
        <3>1. Answer(r, "ok") \/ Answer(r, "error") \/ StartGet(r, "get")
            BY <2>2 DEF Get
        <3>2. ASSUME NEW outcome, Answer(r, outcome) PROVE pc'[r] = outcome
            BY <3>2, Moved DEF Answer
        <3> QED
            BY <3>1, <3>2, StageBegun
    <2> QED
        BY <1>2, <1>4, <2>1, <2>2 DEF Lists
<1>5. CASE Patch(r)
    <2>1. (\E tags : StartUpdate(r, tags)) \/ StartGet(r, "tags") \/ Answer(r, "error")
        BY <1>5 DEF Patch
    <2>2. Answer(r, "error") => pc'[r] = "error"
        BY Moved DEF Answer
    <2>3. my'[r].stage \in {"update", "tags"}
        BY <1>2, <2>1, <2>2, StageBegun
    <2> QED
        BY <2>3 DEF Lists
<1>6. CASE Handler(r)
    <2>1. Busy(r)
        BY <1>6, HandlersWork
    <2>2. CASE Plain(r)
        <3>1. Turn(r)
            BY <2>2, PlainTurns
        <3> QED
            BY <1>2, <2>1, <3>1 DEF Turn, Same, Lists
    <2>3. CASE Save(r) \/ Count(r) \/ ReadTable(r)
        BY <1>2, <2>1, <2>3, SaveTurns, CountTurns, ReadTableTurns DEF Carries, Same, Lists
    <2>4. CASE WriteBegin(r) \/ WriteRaises(r)
        BY <1>2, <2>1, <2>4, WriteBeginTurns, WriteRaisesTurns DEF Lists
    <2>5. CASE WriteEnd(r) \/ (Stats(r) /\ my[r].back = "saved")
        <3>1. pc'[r] = "error" \/ \E files : NextTable(r, files)
            <4>1. Answer(r, "error") => pc'[r] = "error"
                BY Moved DEF Answer
            <4> QED
                BY <2>5, <4>1 DEF WriteEnd, Stats, Refreshed, WriteBack
        <3> QED
            BY <1>2, <2>1, <3>1, NextTableTurns DEF Lists
    <2> QED
        BY <1>6, <2>2, <2>3, <2>4, <2>5, HandlerKinds
<1> QED
    BY <1>3, <1>4, <1>5, <1>6 DEF Start

(* Only a list fills an empty cache.                                        *)
LEMMA CacheFills ==
    ASSUME LocalInv, NEW r \in Reqs, Start(r) \/ Handler(r), cache = None, cache' # None
    PROVE  pc[r] = "read" /\ my[r].stage = "list"
<1>1. Start(r) => cache' = cache \/ cache' = None
    <2>1. List(r) \/ Get(r) \/ Patch(r) \/ Bulk(r) => UNCHANGED memory
        BY DEF List, Get, Patch, Bulk
    <2> QED
        BY <2>1 DEF Start, Load, memory, caches
<1>2. CASE ReadFile(r)
    BY <1>2 DEF ReadFile, caches
<1>3. Finish(r) => UNCHANGED cache
    BY DEF Finish
<1>4. ~Stats(r)
    <2> SUFFICES ASSUME Stats(r) PROVE FALSE
        OBVIOUS
    <2>1. pc[r] \in Later /\ pc[r] = "stats"
        BY DEF Stats, Later, Awaits, Early
    <2>2. my[r].back \in {"migrated", "graded", "saved"}
        BY <2>1, Working DEF Purpose
    <2>3. UNCHANGED caches \/ (chart' = None /\ UNCHANGED cache) \/ Finish(r)
        BY <2>2 DEF Stats, Refreshed, WriteBack, NextTable
    <2> QED
        BY <1>3, <2>3 DEF caches
<1>5. ~WriteEnd(r)
    BY <1>3 DEF WriteEnd, NextTable, caches
<1>6. ReadFile(r) \/ Stats(r) \/ WriteEnd(r) \/ ~Handler(r) \/ UNCHANGED caches
    BY DEF Handler, Register, Insert, Migrate, SidecarRow, Stamped, Graded, Sweep, Upsert, Stamp,
           ReadNotes, Save, Count, ReadTable, WriteBegin, WriteRaises, memory
<1> QED
    BY <1>1, <1>2, <1>4, <1>5, <1>6 DEF caches

(* The text in memory is that of the loaded dataset; unless the text was    *)
(* edited too late for them, a list that waits has read it, and the cache   *)
(* shows it.                                                                *)
TextInv ==
    /\ DOMAIN text = Datasets /\ DOMAIN worded = Reqs /\ gen \in Nat
    /\ \A r \in Reqs : Lists(r) => ask[r].op = "list"
    /\ loaded # None => words = text[loaded]
    /\ ~late => \A r \in Reqs : Lists(r) => worded[r] = words
    /\ ~late /\ cache # None => shown = words

(* A dataset is loaded: the lists in flight were for the one before.        *)
LEMMA TextLoaded ==
    ASSUME LocalInv, TextInv, NEW r \in Reqs, Annotate(r), Load(r)
    PROVE  TextInv'
<1>0. /\ gen' = gen + 1 /\ cache' = None /\ ask' = ask /\ ask[r].op = "load" /\ gen' # gen
    BY DEF Load, TextInv
<1>1. /\ text' = text /\ worded' = worded
      /\ words' = IF loaded' = None THEN None ELSE text[loaded']
      /\ late' = (\E q \in InFlight \cap Reqs : ask[q].op = "list")
    BY <1>0 DEF Annotate
<1>2. ASSUME NEW q \in Reqs, Lists(q)' PROVE Lists(q)
    <2>1. CASE q = r
        <3>1. Start(r) /\ ~List(r) /\ Lists(r)'
            BY <1>0, <1>2, <2>1 DEF Start, List
        <3> QED
            BY <2>1, <3>1, ListersListed
    <2>2. CASE q # r
        BY <1>2, <2>2, OthersWait DEF Lists, Busy, Start
    <2> QED
        BY <2>1, <2>2
<1>3. ASSUME NEW q \in Reqs, Lists(q)' PROVE ask[q].op = "list" /\ late'
    <2>1. Lists(q) /\ ask[q].op = "list"
        BY <1>2, <1>3 DEF TextInv
    <2>2. q \in InFlight
        BY <2>1 DEF Lists, Busy, InFlight
    <2> QED
        BY <1>1, <2>1, <2>2
<1> QED
    BY <1>0, <1>1, <1>3 DEF TextInv

LEMMA TextAnnotated ==
    ASSUME LocalInv, TextInv, NEW r \in Reqs, Annotate(r), ~Load(r)
    PROVE  TextInv'
<1>1. Start(r) \/ Handler(r)
    BY DEF Annotate, Handler
<1>2. UNCHANGED <<loaded, gen, ask, text>>
    BY <1>1, HandlersLeave, StartsLeave DEF Annotate
<1>3. /\ UNCHANGED <<words, late>>
      /\ worded' = IF pc[r] = "new" /\ ask[r].op = "list" THEN [worded EXCEPT ![r] = words] ELSE worded
      /\ shown' = IF cache' = None THEN None
                  ELSE IF pc[r] = "read" /\ my[r].stage = "list" /\ cache' # cache THEN worded[r]
                  ELSE shown
    BY <1>2 DEF Annotate
<1>4. ASSUME NEW q \in Reqs, Lists(q)'
      PROVE  ask[q].op = "list" /\ (~late => worded'[q] = words)
    <2>1. CASE List(q) /\ q = r
        BY <1>3, <2>1 DEF List, TextInv
    <2>2. CASE Lists(q)
        <3>1. pc[q] # "new"
            BY <2>2 DEF Lists, Busy
        <3> QED
            BY <1>3, <2>2, <3>1 DEF TextInv
    <2>3. q # r => Lists(q)
        BY <1>1, <1>4, OthersWait DEF Lists, Busy
    <2> QED
        BY <1>1, <1>4, <2>1, <2>2, <2>3, ListersListed
<1>5. ASSUME ~late, cache' # None PROVE shown' = words
    <2>1. CASE pc[r] = "read" /\ my[r].stage = "list"
        <3>1. Lists(r)
            BY <2>1 DEF Lists, Busy, Ended
        <3>2. worded[r] = words /\ (cache # None => shown = words)
            BY <1>5, <3>1 DEF TextInv
        <3> QED
            BY <1>3, <1>5, <2>1, <3>2
    <2>2. CASE ~(pc[r] = "read" /\ my[r].stage = "list")
        <3>1. cache # None
            BY <1>1, <1>5, <2>2, CacheFills
        <3> QED
            BY <1>3, <1>5, <2>2, <3>1 DEF TextInv
    <2> QED
        BY <2>1, <2>2
<1> QED
    BY <1>2, <1>3, <1>4, <1>5 DEF TextInv

LEMMA TextStays ==
    TextInv /\ UNCHANGED <<loaded, gen, cache, pc, my, ask, tasks>> => TextInv'
BY DEF TextInv, Lists, Busy, tasks

(* The text is edited: what a list has read or the cache has is too old.    *)
LEMMA TextVisited ==
    ASSUME LocalInv, TextInv, NEW v \in Visitors, Visit(v)
    PROVE  TextInv'
<1>1. UNCHANGED <<loaded, gen, cache, pc, my, ask>>
    BY VisitsLeave
<1>2. CASE UNCHANGED tasks
    BY <1>1, <1>2, TextStays
<1>3. CASE /\ loaded # None
           /\ text' = [text EXCEPT ![loaded] = v] /\ words' = v /\ UNCHANGED <<worded, shown>>
           /\ late' = (late \/ cache # None \/ \E q \in InFlight \cap Reqs : ask[q].op = "list")
    <2>1. loaded \in Datasets
        BY <1>3 DEF LocalInv
    <2>2. ASSUME NEW r \in Reqs, Lists(r) PROVE late'
        BY <1>3, <2>2 DEF TextInv, Lists, Busy, InFlight
    <2> QED
        BY <1>1, <1>3, <2>1, <2>2 DEF TextInv, Lists, Busy
<1>4. CASE Task(v)
    BY <1>2, <1>3, <1>4 DEF Task, tasks
<1>5. CASE ~Task(v)
    BY <1>2, <1>5
       DEF Visit, Scan, ScanRow, ScanStats, ScanCommit, Chart, Export, Column, ColumnRead, ColumnWrite,
           ColumnRaises, ColumnRest, Elsewhere
<1> QED
    BY <1>4, <1>5

LEMMA TextServes == LocalInv /\ TextInv /\ [LibraryNext]_libraryVars => TextInv'
<1> SUFFICES ASSUME LocalInv, TextInv, [LibraryNext]_libraryVars PROVE TextInv'
    OBVIOUS
<1>1. CASE Booting
    BY <1>1, BootingLeaves, TextStays DEF Booting
<1>2. CASE ServerCrash
    <2>1. \A r \in Reqs : ~Lists(r)'
        BY <1>2 DEF ServerCrash, Crash, Lists, Busy, Ended
    <2> QED
        BY <1>2, <2>1 DEF ServerCrash, Crash, TextInv, Lists, Busy
<1>3. CASE UNCHANGED libraryVars
    BY <1>3, TextStays DEF libraryVars, vars
<1> QED
    BY <1>1, <1>2, <1>3, TextLoaded, TextAnnotated, TextVisited, ServerKinds

LEMMA TextInit == LibInit \/ UpgradeInit => TextInv
BY DEF LibInit, UpgradeInit, Idle, Init, LibraryInit, TextInv, Lists, Busy

(* The service has the text that is in the file of the loaded dataset; so   *)
(* have the lists in flight and the cache, unless the edit came late.       *)
THEOREM TextInvariance == LibrarySpec => []TextInv
BY TextInit, TextServes, LocalServed, PTL DEF LibrarySpec

(* The episodes of the loaded dataset show the text of the last edit, but   *)
(* those cached, or about to be, when it was made.                          *)
THEOREM TextsShown == LibrarySpec => []TextIsShown
<1>1. TextInv => TextIsShown
    BY DEF TextInv, TextIsShown
<1> QED
    BY <1>1, TextInvariance, PTL

----------------------------------------------------------------------------
(* An upgrade.  The auto-grade pass begins only at a dataset that is not    *)
(* stamped.                                                                 *)
LEMMA PassesBegin ==
    ASSUME LocalInv, NEW r \in Reqs, Start(r) \/ Handler(r), pc'[r] = "graded"
    PROVE  Stamped(r)
<1>1. ASSUME NEW step, NEW l, CallWithPath(r, step, l), step # "graded" PROVE FALSE
    BY <1>1, Moved DEF CallWithPath, Answer
<1>2. ASSUME NEW step, NEW l, Move(r, step, l), step # "graded" PROVE FALSE
    BY <1>2, Moved
<1>3. ASSUME NEW outcome \in Ended, Answer(r, outcome) PROVE FALSE
    BY <1>2, <1>3 DEF Answer, Ended
<1>4. ASSUME pc[r] \in Later, Migrated(r) PROVE FALSE
    <2>1. my[r].stage \in Stages
        BY <1>4, Working DEF Purpose
    <2>2. \/ CallWithPath(r, "stamped", my[r]) \/ Move(r, "save", [my[r] EXCEPT !.todo = ask[r].eps])
          \/ Move(r, "annotations", my[r])
        BY <1>4, <2>1 DEF Migrated, Stages
    <2> QED
        BY <1>1, <1>2, <2>2
<1>5. ~Start(r)
    BY StartTurns
<1>6. ~(Register(r) \/ Insert(r))
    BY <1>1, <1>2, <1>3 DEF Register, Insert, Registered, Ended
<1>7. ~(Migrate(r) \/ SidecarRow(r))
    <2>1. Migrate(r) => pc[r] \in Later
        BY DEF Migrate, Later, Awaits, Early
    <2>2. SidecarRow(r) => \E step \in {"sidecar", "count"} : \E l : Move(r, step, l)
        BY DEF SidecarRow
    <2> QED
        BY <1>2, <1>4, <2>1, <2>2 DEF Migrate
<1>8. ~(Graded(r) \/ Upsert(r) \/ Stamp(r))
    BY <1>2, <1>3 DEF Graded, Upsert, Stamp, Ended
<1>9. ~Sweep(r)
    <2>1. Sweep(r) => \E step \in {"annotations", "sweep", "upsert"} : \E l : Move(r, step, l)
        BY DEF Sweep
    <2> QED
        BY <1>2, <2>1
<1>10. ~ReadNotes(r)
    <2> SUFFICES ASSUME ReadNotes(r) PROVE FALSE
        OBVIOUS
    <2>1. pc[r] \in Later /\ pc[r] \in Grading
        BY DEF ReadNotes, Later, Awaits, Early, Grading
    <2>2. PICK l : l = [my[r] EXCEPT !.notes = db.notes[my[r].ds]]
        OBVIOUS
    <2>3. l.stage = my[r].stage /\ l.stage \in Stages \ {"update"}
        BY <2>1, <2>2, Working DEF Purpose, Fields, Blank
    <2>4. \/ \E m : Move(r, "save", m) \/ Move(r, "read", m)
          \/ Answer(r, "error")
        BY <2>2, <2>3 DEF ReadNotes, Stages
    <2> QED
        BY <1>2, <1>3, <2>4 DEF Ended
<1>11. ~ReadFile(r)
    <2>1. ReadFile(r) => \/ \E m : Move(r, "read", m)
                         \/ Answer(r, "error") \/ Answer(r, "ok")
                         \/ \E tags : StartUpdate(r, tags)
        BY DEF ReadFile
    <2>2. \A tags : StartUpdate(r, tags) => (\E l : CallWithPath(r, "register", l)) \/ Answer(r, "error")
        BY DEF StartUpdate, CallRegister
    <2> QED
        BY <1>1, <1>2, <1>3, <2>1, <2>2 DEF Ended
<1>12. ~Stats(r)
    <2> SUFFICES ASSUME Stats(r) PROVE FALSE
        OBVIOUS
    <2>1. pc[r] \in Later /\ pc[r] = "stats"
        BY DEF Stats, Later, Awaits, Early
    <2>2. my[r].back \in {"migrated", "graded", "saved"}
        BY <2>1, Working DEF Purpose
    <2>3. \/ Answer(r, "error") \/ Migrated(r) \/ Move(r, "annotations", my[r])
          \/ \E files : NextTable(r, files)
        BY <2>2 DEF Stats, Refreshed, WriteBack
    <2> QED
        BY <1>2, <1>3, <1>4, <2>1, <2>3, NextTableTurns DEF Ended
<1>13. ~(Save(r) \/ Count(r) \/ ReadTable(r) \/ WriteBegin(r) \/ WriteRaises(r))
    BY SaveTurns, CountTurns, ReadTableTurns, WriteBeginTurns, WriteRaisesTurns
<1>14. ~WriteEnd(r)
    BY NextTableTurns DEF WriteEnd
<1> QED
    BY <1>5, <1>6, <1>7, <1>8, <1>9, <1>10, <1>11, <1>12, <1>13, <1>14 DEF Handler

(* A database that grows has its parts, and no machine-written reason on    *)
(* what was there before.                                                   *)
LEMMA ShapeIsSet ==
    ASSUME Shaped(db), NEW d, NEW e, NEW note, NEW b, b = SetNote(d, e, note)
    PROVE  /\ Shaped(b) /\ b.reg = db.reg /\ b.stamp = db.stamp
           /\ \A x \in Datasets : \A i \in DOMAIN b.notes[x] :
                 \/ i \in DOMAIN db.notes[x] /\ b.notes[x][i] = db.notes[x][i]
                 \/ x = d /\ b.notes[x][i] = note
<1>1. Shaped(b) /\ b.reg = db.reg /\ b.stamp = db.stamp
    BY DEF Shaped, SetNote
<1>2. /\ \A x \in Datasets : x # d => b.notes[x] = db.notes[x]
      /\ d \in Datasets =>
            /\ DOMAIN b.notes[d] = DOMAIN db.notes[d] \cup {e}
            /\ \A i \in DOMAIN b.notes[d] : b.notes[d][i] = IF i = e THEN note ELSE db.notes[d][i]
    BY DEF Shaped, SetNote
<1> QED
    BY <1>1, <1>2

(* From c to b: what is new is not written by the machine, unless at x.     *)
Grows(c, b, x) ==
    /\ Shaped(b) /\ c.reg \subseteq b.reg /\ c.stamp \subseteq b.stamp
    /\ \A d \in Datasets : \A e \in DOMAIN b.notes[d] :
          \/ e \in DOMAIN c.notes[d] /\ b.notes[d][e] = c.notes[d][e]
          \/ b.notes[d][e].reason # "auto" \/ d = x

LEMMA NothingGrows == ASSUME NEW b, Shaped(b), NEW x PROVE Grows(b, b, x)
BY DEF Grows

LEMMA PartGrows ==
    ASSUME Shaped(db), NEW d, NEW x, NEW b,
           \/ b = [db EXCEPT !.reg = @ \cup x] \/ b = [db EXCEPT !.stamp = @ \cup x]
           \/ b = [db EXCEPT !.stats[d] = x]
    PROVE  \A y : Grows(db, b, y)
BY DEF Shaped, Grows

LEMMA AnnotatorsGrow ==
    ASSUME Shaped(db), NEW r \in Reqs, Start(r) \/ Handler(r)
    PROVE  Grows(db, db', IF pc[r] = "upsert" THEN my[r].ds ELSE None)
<1> DEFINE x == IF pc[r] = "upsert" THEN my[r].ds ELSE None
<1>1. ASSUME NEW d, NEW e, NEW note, note.reason # "auto" \/ d = x, NEW b, b = SetNote(d, e, note)
      PROVE  Grows(db, b, x)
    <2> HIDE DEF x
    <2> QED
        BY <1>1, ShapeIsSet DEF Grows
<1>2. CASE UNCHANGED db
    BY <1>2, NothingGrows
<1>3. CASE SidecarRow(r)
    <2>1. PICK i, grade, tags : \/ db' = db
             \/ db' = SetNote(my[r].ds, i, [grade |-> grade, tags |-> tags, reason |-> None])
        BY <1>3 DEF SidecarRow
    <2>2. None # "auto"
        BY AnnotationsAssumption
    <2> QED
        BY <1>1, <1>2, <2>1, <2>2
<1>4. CASE Upsert(r)
    <2>1. PICK i, note : db' = SetNote(my[r].ds, i, note) /\ pc[r] = "upsert"
        BY <1>4 DEF Upsert
    <2>2. x = my[r].ds
        BY <2>1
    <2> QED
        BY <1>1, <2>1, <2>2
<1>5. CASE Save(r)
    <2>1. PICK i : db' = SetNote(my[r].ds, i, Asked(r, i))
        BY <1>5 DEF Save
    <2>2. Asked(r, i).reason # "auto"
        BY AnnotationsAssumption DEF Asked
    <2> QED
        BY <1>1, <2>1, <2>2
<1>6. CASE Insert(r) \/ Stamp(r) \/ Stats(r)
    <2>1. PICK y, d : \/ db' = db \/ db' = [db EXCEPT !.reg = @ \cup y]
                      \/ db' = [db EXCEPT !.stamp = @ \cup y] \/ db' = [db EXCEPT !.stats[d] = y]
        BY <1>6 DEF Insert, Stamp, Stats, store
    <2> QED
        BY <1>2, <2>1, PartGrows
<1>7. CASE ~(Insert(r) \/ Stamp(r) \/ Stats(r) \/ SidecarRow(r) \/ Upsert(r) \/ Save(r))
    BY <1>2, <1>7, StartsLeave
       DEF Handler, Register, Migrate, Stamped, Graded, Sweep, ReadNotes, ReadFile, Count, ReadTable,
           WriteBegin, WriteEnd, WriteRaises, store
<1> QED
    BY <1>3, <1>4, <1>5, <1>6, <1>7

LEMMA FetchGrows ==
    ASSUME Shaped(db), NEW d
    PROVE  Grows(db, Fetched(d), None)
<1> DEFINE legacy == [e \in DOMAIN Sidecar[d] |->
                        [grade |-> Sidecar[d][e].grade, tags |-> Sidecar[d][e].tags, reason |-> None]]
           registered == [db EXCEPT !.reg = @ \cup {d}]
<1>1. Grows(db, registered, None) /\ registered.notes = db.notes
    BY PartGrows DEF Shaped
<1>2. PICK b : b = Fetched(d)
    OBVIOUS
<1>5. \/ b = registered
      \/ b = [registered EXCEPT !.notes[d] = legacy]
      \/ b = [registered EXCEPT !.notes[d] = legacy, !.stats[d] = CountsOf(legacy)]
    BY <1>2 DEF Fetched
<1>3. \A e \in DOMAIN legacy : legacy[e].reason # "auto"
    BY AnnotationsAssumption
<1> HIDE DEF legacy
<1>4. CASE b # registered
    <2>1. Shaped(b) /\ b.reg = db.reg \cup {d} /\ b.stamp = db.stamp
        BY <1>4, <1>5 DEF Shaped
    <2>2. ASSUME NEW x \in Datasets PROVE b.notes[x] = IF x = d THEN legacy ELSE db.notes[x]
        <3>1. b.notes = [db.notes EXCEPT ![d] = legacy]
            BY <1>4, <1>5 DEF Shaped
        <3> QED
            BY <3>1 DEF Shaped
    <2> QED
        BY <1>2, <1>3, <2>1, <2>2 DEF Grows
<1> QED
    BY <1>1, <1>2, <1>4

(* Visitors write no reason, and commit what there is.                      *)
LEMMA VisitorsGrow ==
    ASSUME Shaped(db), NEW v \in Visitors, Visit(v)
    PROVE  Grows(db, db', None) /\ (disk' = disk \/ disk' = db')
<1>1. CASE ScanRow(v) \/ ScanStats(v)
    <2>1. PICK x, d : db' = [db EXCEPT !.reg = @ \cup x] \/ db' = [db EXCEPT !.stats[d] = x]
        BY <1>1 DEF ScanRow, ScanStats
    <2> QED
        BY <1>1, <2>1, PartGrows DEF ScanRow, ScanStats
<1>2. CASE Chart(v) \/ Export(v)
    <2>1. UNCHANGED store \/ \E d : Fetch(d)
        BY <1>2 DEF Chart, Export
    <2> QED
        BY <2>1, FetchGrows, NothingGrows DEF Fetch, store
<1>3. CASE ScanCommit(v)
    BY <1>3, NothingGrows DEF ScanCommit
<1>4. CASE ~(ScanRow(v) \/ ScanStats(v) \/ Chart(v) \/ Export(v) \/ ScanCommit(v))
    BY <1>4, NothingGrows
       DEF Visit, Scan, Column, ColumnRead, ColumnWrite, ColumnRaises, Task, ColumnRest, store
<1> QED
    BY <1>1, <1>2, <1>3, <1>4

(* A dataset from before version 3 is stamped before the server serves, and *)
(* so no pass begins at it.                                                 *)
Spared(b) ==
    /\ Shaped(b) /\ old \subseteq b.reg
    /\ version = 3 \/ (boot = "pragma" /\ version = 2) => old \subseteq b.stamp
    /\ \A d \in old : \A e \in DOMAIN b.notes[d] : b.notes[d][e].reason # "auto"

OldInv ==
    /\ old \subseteq Datasets /\ version \in 0 .. 3
    /\ boot = "up" => version = 3
    /\ boot \in {"script", "stamp", "pragma"} => version < 3
    /\ Spared(db) /\ Spared(disk)
    /\ \A r \in Reqs : pc[r] \in {"graded", "sweep", "upsert"} => my[r].ds \notin old

LEMMA SparedGrows ==
    ASSUME NEW c, NEW b, NEW x, Spared(c), Grows(c, b, x), x \notin old, old \subseteq Datasets
    PROVE  Spared(b)
BY DEF Spared, Grows

(* A database that has grown, and what is committed of it.                  *)
LEMMA StoreGrows ==
    ASSUME OldInv, UNCHANGED <<schema, old>>, NEW x, x \notin old, Grows(db, db', x),
           disk' = disk \/ disk' = db'
    PROVE  Spared(db)' /\ Spared(disk)'
<1>1. PICK b : b = db'
    OBVIOUS
<1>2. PICK c : c = disk'
    OBVIOUS
<1>3. Spared(b) /\ Spared(c)
    BY <1>1, <1>2, SparedGrows DEF OldInv
<1> QED
    BY <1>1, <1>2, <1>3 DEF Spared, Shaped, schema

LEMMA OldAnnotated ==
    ASSUME LocalInv, OldInv, NEW r \in Reqs, Annotate(r)
    PROVE  OldInv'
<1>1. (Start(r) \/ Handler(r)) /\ UNCHANGED <<schema, old>> /\ boot = "up"
    BY DEF Annotate, Handler
<1>2. None \notin old /\ old \subseteq Datasets
    BY AnnotationsAssumption DEF OldInv
<1>3. (IF pc[r] = "upsert" THEN my[r].ds ELSE None) \notin old
    BY <1>2 DEF OldInv
<1>4. Shaped(db)
    BY DEF OldInv, Spared
<1>5. Spared(db)' /\ Spared(disk)'
    BY <1>1, <1>3, <1>4, AnnotatorsGrow, DiskFollows, StoreGrows
<1>6. ASSUME pc'[r] \in {"graded", "sweep", "upsert"} PROVE my'[r].ds \notin old
    <2>1. CASE Stamped(r)
        <3>1. Move(r, IF my[r].ds \in db.stamp \/ loaded = None THEN "annotations" ELSE "graded", my[r])
            BY <2>1 DEF Stamped
        <3>2. my'[r] = my[r] /\ (pc'[r] = "annotations" \/ my[r].ds \notin db.stamp)
            BY <3>1, Moved
        <3>3. old \subseteq db.stamp
            BY <1>1 DEF OldInv, Spared
        <3> QED
            BY <1>6, <3>2, <3>3
    <2>2. CASE Graded(r) \/ Sweep(r) \/ Upsert(r)
        <3>1. \E step : \E files, severe, todos, graded :
                 Move(r, step, [my[r] EXCEPT !.files = files, !.graded = graded])
                 \/ Move(r, step, [my[r] EXCEPT !.files = files, !.severe = severe])
                 \/ Move(r, step, [my[r] EXCEPT !.files = files, !.todo = todos])
                 \/ Move(r, step, [my[r] EXCEPT !.files = files])
                 \/ Move(r, step, [my[r] EXCEPT !.todo = todos])
                 \/ Answer(r, "error")
            BY <2>2 DEF Graded, Sweep, Upsert
        <3>2. PICK l : \/ l.ds = my[r].ds /\ \E step : Move(r, step, l)
                       \/ Answer(r, "error")
            BY <3>1 DEF LocalInv, Shapes, Fields, Blank
        <3>3. ASSUME Answer(r, "error") PROVE FALSE
            BY <1>6, <3>3, Moved DEF Answer
        <3>4. my'[r].ds = my[r].ds
            BY <3>2, <3>3, Moved
        <3>5. pc[r] \in {"graded", "sweep", "upsert"}
            BY <2>2 DEF Graded, Sweep, Upsert
        <3> QED
            BY <3>4, <3>5 DEF OldInv
    <2>3. CASE Aside(r) /\ ~Stamped(r)
        <3>1. pc'[r] # "graded"
            BY <1>1, <2>3, PassesBegin
        <3>2. PICK step \in (Awaits \cup Ended) \ Inside : \E l : Move(r, step, l)
            BY <2>3 DEF Aside
        <3>3. pc'[r] = step
            BY <3>2, Moved
        <3> QED
            BY <1>6, <3>1, <3>2, <3>3 DEF Inside
    <2>4. CASE ReadTable(r) \/ WriteBegin(r)
        BY <1>6, <2>4, ReadTableTurns, WriteBeginTurns
    <2> QED
        BY <1>1, <2>1, <2>2, <2>3, <2>4, MostMoveAside
<1>7. ASSUME NEW q \in Reqs, q # r, pc'[q] \in {"graded", "sweep", "upsert"} PROVE my'[q].ds \notin old
    BY <1>1, <1>7, OthersWait DEF OldInv
<1> QED
    BY <1>1, <1>5, <1>6, <1>7 DEF OldInv, schema

LEMMA OldVisited ==
    ASSUME OldInv, NEW v \in Visitors, Visit(v)
    PROVE  OldInv'
<1>1. UNCHANGED <<schema, old, pc, my>>
    BY VisitorsKeepSchema, VisitsLeave
       DEF Visit, Scan, ScanRow, ScanStats, ScanCommit, Chart, Export, Column, ColumnRead, ColumnWrite,
           ColumnRaises, Task, ColumnRest, Elsewhere
<1>2. None \notin old /\ Shaped(db)
    BY AnnotationsAssumption DEF OldInv, Spared
<1>3. Spared(db)' /\ Spared(disk)'
    BY <1>1, <1>2, VisitorsGrow, StoreGrows
<1> QED
    BY <1>1, <1>3 DEF OldInv, schema

(* The third script stamps all there are before its PRAGMA.                 *)
LEMMA OldBooted == ASSUME OldInv, Booting PROVE OldInv'
<1>1. UNCHANGED <<old, pc, my>> /\ Boot
    BY BootingLeaves DEF Booting
<1>2. CASE M!Stamp
    <2>1. db' = [db EXCEPT !.stamp = @ \cup db.reg] /\ disk' = db' /\ UNCHANGED version
          /\ boot = "stamp" /\ boot' = "pragma"
        BY <1>1, <1>2 DEF Boot, M!Stamp
    <2>2. PICK b : b = db'
        OBVIOUS
    <2>3. /\ Shaped(b) /\ old \subseteq b.reg /\ old \subseteq b.stamp
          /\ \A d \in old : \A e \in DOMAIN b.notes[d] : b.notes[d][e].reason # "auto"
        BY <2>1, <2>2 DEF OldInv, Spared, Shaped
    <2>4. Spared(db)' /\ Spared(disk)'
        BY <1>1, <2>1, <2>2, <2>3 DEF Spared, Shaped
    <2> QED
        BY <1>1, <2>1, <2>4 DEF OldInv
<1>3. CASE ~M!Stamp
    <2>1. UNCHANGED <<db, disk>> /\ (M!Read \/ M!Script \/ M!Pragma)
        BY <1>1, <1>3 DEF Boot, M!Boot
    <2>2. /\ version' \in 0 .. 3
          /\ boot' = "up" => version' = 3
          /\ boot' \in {"script", "stamp", "pragma"} => version' < 3
          /\ version' = 3 \/ (boot' = "pragma" /\ version' = 2) =>
                version = 3 \/ (boot = "pragma" /\ version = 2)
        BY <2>1 DEF OldInv, M!Read, M!Script, M!Pragma, M!Latest
    <2>3. Spared(db)' /\ Spared(disk)'
        BY <1>1, <2>1, <2>2 DEF OldInv, Spared, Shaped
    <2> QED
        BY <1>1, <2>1, <2>2, <2>3 DEF OldInv
<1> QED
    BY <1>2, <1>3

LEMMA OldServes == LocalInv /\ OldInv /\ [LibraryNext]_libraryVars => OldInv'
<1> SUFFICES ASSUME LocalInv, OldInv, [LibraryNext]_libraryVars PROVE OldInv'
    OBVIOUS
<1>1. CASE ServerCrash
    <2>1. /\ UNCHANGED <<old, version, disk>> /\ boot' = "read" /\ db' = disk
          /\ \A r \in Reqs : pc'[r] \notin {"graded", "sweep", "upsert"}
        BY <1>1 DEF ServerCrash, Crash, M!Crash, Ended
    <2>2. Spared(db)' /\ Spared(disk)'
        BY <2>1 DEF OldInv, Spared, Shaped
    <2> QED
        BY <2>1, <2>2 DEF OldInv
<1>2. CASE UNCHANGED libraryVars
    BY <1>2 DEF libraryVars, vars, store, schema, OldInv, Spared, Shaped
<1> QED
    BY <1>1, <1>2, OldAnnotated, OldVisited, OldBooted, ServerKinds

LEMMA OldInit == LibInit \/ UpgradeInit => OldInv
<1>1. CASE LibInit
    BY <1>1 DEF LibInit, Init, M!Init, M!Latest, LibraryInit, OldInv, Spared, Shaped, EmptyNotes
<1>2. CASE UpgradeInit
    <2>1. /\ version \in 0 .. 2 /\ boot = "read" /\ old = db.reg /\ old \subseteq Datasets
        BY <1>2 DEF UpgradeInit, M!Init, M!Latest, LibraryInit
    <2>2. "auto" \notin {None, "user"}
        BY AnnotationsAssumption
    <2>3. \A d \in Datasets : \A e \in DOMAIN db.notes[d] : db.notes[d][e].reason # "auto"
        BY <1>2, <2>2 DEF UpgradeInit, OldNote
    <2>4. Spared(db) /\ disk = db
        BY <1>2, <2>1, <2>3 DEF UpgradeInit, Idle, Spared, Shaped
    <2> QED
        BY <1>2, <2>1, <2>4 DEF UpgradeInit, Idle, OldInv
<1> QED
    BY <1>1, <1>2

(* The server that starts on the database of an earlier version stamps its  *)
(* datasets before it serves.                                               *)
THEOREM OldInvariance == LibrarySpec => []OldInv
BY OldInit, OldServes, LocalServed, PTL DEF LibrarySpec

(* Datasets from before the auto-grade pass are never graded by it, however *)
(* often the server died on its way to version 3.                           *)
THEOREM OldAreSpared == LibrarySpec => []OldAreNotGraded
<1>1. OldInv => OldAreNotGraded
    BY DEF OldInv, Spared, OldAreNotGraded
<1> QED
    BY <1>1, OldInvariance, PTL

----------------------------------------------------------------------------
(* The cached distribution.  A handler that has written, or is about to,    *)
(* what a distribution counts forgets the cached one before it ends.        *)
Dirty(r) ==
    \/ pc[r] \in {"save", "upsert"} \cup Writing
    \/ pc[r] \in {"count", "stats"} /\ my[r].back \in {"saved", "graded"}
Stale == \E r \in Reqs : Dirty(r)

(* There is a distribution, and it is of the dataset that is loaded.        *)
Charted == ~Failed /\ ~crossed /\ chart # None /\ loaded # None

ChartHolds == Whole(loaded) => Stale \/ chart = Counts(Overlaid(Rows(loaded), db.notes[loaded]))

(* Its legacy annotations were migrated before, or there are none.          *)
NothingMigrates ==
    /\ ~Migrating(loaded)
    /\ \A r \in Reqs : pc[r] = "sidecar" /\ my[r].ds = loaded => my[r].path # loaded

(* A table that is about to get the column has not been written since.      *)
WritesBack == \A v \in Visitors : at[v] = "write" => Stale \/ seen[v] = file[First(todo[v])]

ChartInv ==
    /\ Shaped(db) /\ Shaped(disk) /\ DOMAIN file = AllFiles /\ DOMAIN seen = Visitors
    /\ Charted => ChartHolds /\ NothingMigrates /\ WritesBack

LEMMA FailedStays == LocalInv /\ [LibraryNext]_libraryVars /\ Failed => Failed'
<1> SUFFICES ASSUME LocalInv, [LibraryNext]_libraryVars, NEW q \in Reqs, pc[q] \in {"error", "lost"}
             PROVE  pc'[q] \in {"error", "lost"}
    BY DEF Failed
<1>1. ASSUME NEW r \in Reqs, Annotate(r) PROVE pc'[q] \in {"error", "lost"}
    BY <1>1, AnnotatorsStep, EndedStays DEF Ended
<1>2. CASE ServerCrash
    BY <1>2 DEF ServerCrash, Crash, Ended
<1>3. CASE UNCHANGED libraryVars
    BY <1>3 DEF libraryVars, vars
<1> QED
    BY <1>1, <1>2, <1>3, BootingLeaves, VisitsLeave, ServerKinds

(* Handlers change the distribution by forgetting it.                       *)
LEMMA ChartForgotten ==
    ASSUME LocalInv, NEW r \in Reqs, Start(r) \/ Handler(r)
    PROVE  chart' = None \/ (chart' = chart /\ UNCHANGED loaded)
<1>1. CASE Start(r)
    <2>1. List(r) \/ Get(r) \/ Patch(r) \/ Bulk(r) => UNCHANGED memory
        BY DEF List, Get, Patch, Bulk
    <2> QED
        BY <1>1, <2>1 DEF Start, Load, memory, caches
<1>2. CASE Handler(r)
    <2>1. UNCHANGED loaded
        BY <1>2, HandlersLeave
    <2>2. ASSUME NEW files, NextTable(r, files) PROVE chart' = None \/ chart' = chart
        BY <2>2 DEF NextTable, Finish, caches
    <2>3. CASE Stats(r)
        <3>1. pc[r] \in Later /\ pc[r] = "stats"
            BY <2>3 DEF Stats, Later, Awaits, Early
        <3>2. my[r].back \in {"migrated", "graded", "saved"}
            BY <3>1, Working DEF Purpose
        <3>3. UNCHANGED caches \/ chart' = None \/ \E files : NextTable(r, files)
            BY <2>3, <3>2 DEF Stats, Refreshed, WriteBack
        <3> QED
            BY <2>1, <2>2, <3>3 DEF caches
    <2>4. CASE WriteEnd(r)
        BY <2>1, <2>2, <2>4 DEF WriteEnd
    <2>5. CASE ReadFile(r)
        BY <2>1, <2>5 DEF ReadFile, caches
    <2>6. CASE ~(Stats(r) \/ WriteEnd(r) \/ ReadFile(r))
        BY <1>2, <2>6
           DEF Handler, Register, Insert, Migrate, SidecarRow, Stamped, Graded, Sweep, Upsert, Stamp,
               ReadNotes, Save, Count, ReadTable, WriteBegin, WriteRaises, memory, caches
    <2> QED
        BY <2>3, <2>4, <2>5, <2>6
<1> QED
    BY <1>1, <1>2

LEMMA TablesForget ==
    ASSUME LocalInv, NEW r \in Reqs, NEW files, NextTable(r, files)
    PROVE  pc'[r] = "lock" \/ chart' = None
<1>1. ASSUME NEW f, NEW l, Move(r, "lock", l) PROVE pc'[r] = "lock"
    BY <1>1, Moved
<1> QED
    BY <1>1 DEF NextTable, Finish

LEMMA DirtyGoesOn ==
    ASSUME LocalInv, NEW r \in Reqs, Start(r) \/ Handler(r), Dirty(r), chart' # None, pc'[r] # "error"
    PROVE  Dirty(r)'
<1>1. Handler(r)
    BY StartTurns DEF Dirty, Writing
<1>2. ASSUME NEW outcome, Answer(r, outcome), outcome = "error" PROVE FALSE
    BY <1>2, Moved DEF Answer
<1>3. CASE Save(r)
    BY <1>3, SaveTurns DEF Dirty
<1>4. CASE Count(r)
    BY <1>4, CountTurns DEF Dirty, Writing
<1>5. CASE Stats(r)
    <2>1. pc[r] = "stats" /\ my[r].back \in {"saved", "graded"}
        BY <1>5 DEF Stats, Dirty, Writing
    <2>2. my[r].back = "saved" /\ \E files : NextTable(r, files)
        BY <1>2, <1>5, <2>1 DEF Stats, Refreshed, WriteBack
    <2> QED
        BY <2>2, TablesForget DEF Dirty, Writing
<1>6. CASE ReadTable(r) \/ WriteBegin(r)
    BY <1>6, ReadTableTurns, WriteBeginTurns DEF Dirty, Writing
<1>7. CASE WriteRaises(r)
    BY <1>2, <1>7 DEF WriteRaises
<1>8. CASE WriteEnd(r)
    BY <1>8, TablesForget DEF WriteEnd, Dirty, Writing
<1>9. CASE Upsert(r)
    BY <1>9, Moved DEF Upsert, Dirty
<1>10. CASE Stamp(r)
    <2>1. PICK l : l = [my[r] EXCEPT !.back = "graded", !.graded = {}, !.severe = {}]
        OBVIOUS
    <2>2. l.back = "graded"
        BY <2>1 DEF LocalInv, Shapes, Fields, Blank
    <2>3. Move(r, "count", l)
        BY <1>10, <2>1 DEF Stamp
    <2>4. pc'[r] = "count" /\ my'[r] = l
        BY <2>3, Moved
    <2> QED
        BY <2>2, <2>4 DEF Dirty
<1>11. CASE ~(\/ Save(r) \/ Count(r) \/ Stats(r) \/ ReadTable(r) \/ WriteBegin(r) \/ WriteRaises(r)
              \/ WriteEnd(r) \/ Upsert(r) \/ Stamp(r))
    <2>1. pc[r] \notin {"save", "upsert", "count", "stats"} \cup Writing
        BY <1>1, <1>11
           DEF Handler, Register, Insert, Migrate, SidecarRow, Stamped, Graded, Sweep, ReadNotes,
               ReadFile, Writing
    <2> QED
        BY <2>1 DEF Dirty
<1> QED
    BY <1>3, <1>4, <1>5, <1>6, <1>7, <1>8, <1>9, <1>10, <1>11

(* Rows of the database are written by those who save or grade, and by a    *)
(* migration of legacy annotations.                                         *)
LEMMA NotesChange ==
    ASSUME Shaped(db), NEW r \in Reqs, Start(r) \/ Handler(r), NEW d \in Datasets
    PROVE  /\ DOMAIN db.notes[d] \subseteq DOMAIN db'.notes[d]
           /\ \/ db'.notes[d] = db.notes[d]
              \/ pc[r] \in {"save", "upsert"} \/ (pc[r] = "sidecar" /\ my[r].ds = d)
<1>1. ASSUME NEW x, NEW e, NEW note, NEW b, b = SetNote(x, e, note)
      PROVE  /\ DOMAIN db.notes[d] \subseteq DOMAIN b.notes[d]
             /\ x # d => b.notes[d] = db.notes[d]
    BY <1>1 DEF Shaped, SetNote
<1>2. CASE SidecarRow(r)
    <2>1. pc[r] = "sidecar" /\ \E e, note : db' = db \/ db' = SetNote(my[r].ds, e, note)
        BY <1>2 DEF SidecarRow
    <2> QED
        BY <1>1, <2>1
<1>3. CASE Upsert(r) \/ Save(r)
    <2>1. pc[r] \in {"save", "upsert"} /\ \E e, note : db' = SetNote(my[r].ds, e, note)
        BY <1>3 DEF Upsert, Save
    <2> QED
        BY <1>1, <2>1
<1>4. CASE Insert(r) \/ Stamp(r) \/ Stats(r)
    <2>1. PICK y, x : \/ db' = db \/ db' = [db EXCEPT !.reg = @ \cup y]
                      \/ db' = [db EXCEPT !.stamp = @ \cup y] \/ db' = [db EXCEPT !.stats[x] = y]
        BY <1>4 DEF Insert, Stamp, Stats, store
    <2>2. db'.notes = db.notes
        BY <2>1 DEF Shaped
    <2> QED
        BY <2>2
<1>5. CASE ~(Insert(r) \/ Stamp(r) \/ Stats(r) \/ SidecarRow(r) \/ Upsert(r) \/ Save(r))
    BY <1>5, StartsLeave
       DEF Handler, Register, Migrate, Stamped, Graded, Sweep, ReadNotes, ReadFile, Count, ReadTable,
           WriteBegin, WriteEnd, WriteRaises, store
<1> QED
    BY <1>2, <1>3, <1>4, <1>5

(* Who migrates legacy annotations has begun when there was nothing else.   *)
LEMMA MigrationBegins ==
    ASSUME LocalInv, NEW r \in Reqs, Start(r) \/ Handler(r), pc'[r] = "sidecar"
    PROVE  /\ my'[r].ds = my[r].ds /\ my'[r].path = my[r].path
           /\ \/ pc[r] = "sidecar"
              \/ DOMAIN db.notes[my[r].ds] = {} /\ DOMAIN Sidecar[my[r].path] # {}
<1>1. ASSUME NEW left, Move(r, "sidecar", [my[r] EXCEPT !.todo = left])
      PROVE  my'[r].ds = my[r].ds /\ my'[r].path = my[r].path
    <2>1. PICK l : l = [my[r] EXCEPT !.todo = left]
        OBVIOUS
    <2>2. l.ds = my[r].ds /\ l.path = my[r].path
        BY <2>1 DEF LocalInv, Shapes, Fields, Blank
    <2>3. Move(r, "sidecar", l)
        BY <1>1, <2>1
    <2> QED
        BY <2>2, <2>3, Moved
<1>2. CASE Migrate(r)
    <2>1. pc[r] \in Later
        BY <1>2 DEF Migrate, Later, Awaits, Early
    <2>2. ~Migrated(r)
        BY <2>1, MigratedMigratesNoMore
    <2> QED
        BY <1>1, <1>2, <2>2 DEF Migrate
<1>3. CASE SidecarRow(r)
    <2>1. pc[r] = "sidecar" /\ \/ \E left : Move(r, "sidecar", [my[r] EXCEPT !.todo = left])
                               \/ \E l : Move(r, "count", l)
        BY <1>3 DEF SidecarRow
    <2>2. ASSUME NEW l, Move(r, "count", l) PROVE FALSE
        BY <2>2, Moved
    <2> QED
        BY <1>1, <2>1, <2>2
<1>4. CASE Handler(r) /\ ~Migrate(r) /\ ~SidecarRow(r)
    <2>1. ~Plain(r)
        BY <1>4, FewMigrate
    <2>2. ~(Save(r) \/ Count(r) \/ ReadTable(r) \/ WriteBegin(r) \/ WriteRaises(r))
        BY SaveTurns, CountTurns, ReadTableTurns, WriteBeginTurns, WriteRaisesTurns
    <2>3. \A files : ~NextTable(r, files)
        BY NextTableTurns
    <2>4. ~WriteEnd(r)
        BY <2>3 DEF WriteEnd
    <2>5. ~(Stats(r) /\ my[r].back = "saved")
        <3> SUFFICES ASSUME Stats(r), my[r].back = "saved" PROVE FALSE
            OBVIOUS
        <3>1. Answer(r, "error") => pc'[r] = "error"
            BY Moved DEF Answer
        <3> QED
            BY <2>3, <3>1 DEF Stats, Refreshed, WriteBack
    <2> QED
        BY <1>4, <2>1, <2>2, <2>4, <2>5, HandlerKinds
<1>5. ~Start(r)
    BY StartTurns
<1> QED
    BY <1>2, <1>3, <1>4, <1>5

LEMMA ChartAnnotated ==
    ASSUME LocalInv, ChartInv, NEW r \in Reqs, Annotate(r)
    PROVE  ChartInv'
<1>1. (Start(r) \/ Handler(r)) /\ UNCHANGED <<at, seen, todo>>
    BY DEF Annotate, Handler, visits
<1>2. \A q \in Reqs : q # r => pc'[q] = pc[q] /\ my'[q] = my[q]
    BY <1>1, OthersWait
<1>3. Shaped(db)' /\ Shaped(disk)'
    <2>1. PICK b : b = db'
        OBVIOUS
    <2>2. PICK c : c = disk'
        OBVIOUS
    <2>3. Shaped(b)
        BY <1>1, <2>1, AnnotatorsGrow DEF ChartInv, Grows
    <2>4. Shaped(c)
        BY <1>1, <2>1, <2>2, <2>3, DiskFollows DEF ChartInv
    <2> QED
        BY <2>1, <2>2, <2>3, <2>4 DEF Shaped
<1>4. DOMAIN file' = AllFiles /\ DOMAIN seen' = Visitors
    BY <1>1, FewWriteTables DEF ChartInv, WriteBegin, WriteEnd
<1>5. ASSUME Charted' PROVE ChartHolds' /\ NothingMigrates' /\ WritesBack'
    <2>1. chart' = chart /\ UNCHANGED loaded /\ chart # None /\ chart' # None
        BY <1>1, <1>5, ChartForgotten DEF Charted
    <2>2. Charted /\ ~(pc[r] = "sidecar" /\ my[r].path # my[r].ds)
        BY <1>5, <2>1, FailedStays DEF Charted, Annotate, LibraryNext
    <2>3. ChartHolds /\ NothingMigrates /\ WritesBack /\ loaded \in Datasets
        BY <2>2 DEF ChartInv, Charted, LocalInv
    <2>4. pc'[r] # "error"
        BY <1>5 DEF Charted, Failed
    <2>5. Stale => Stale'
        BY <1>1, <1>2, <2>1, <2>4, DirtyGoesOn DEF Stale, Dirty
    <2>6. /\ DOMAIN db.notes[loaded] \subseteq DOMAIN db'.notes[loaded]
          /\ \/ db'.notes[loaded] = db.notes[loaded]
             \/ pc[r] \in {"save", "upsert"} \/ (pc[r] = "sidecar" /\ my[r].ds = loaded)
        BY <1>1, <2>3, NotesChange DEF ChartInv
    <2>7. ASSUME ~Stale PROVE UNCHANGED file /\ db'.notes[loaded] = db.notes[loaded]
        <3>1. pc[r] \notin {"save", "upsert", "edit", "write"}
            BY <2>7 DEF Stale, Dirty, Writing
        <3>2. ~(pc[r] = "sidecar" /\ my[r].ds = loaded)
            BY <2>2, <2>3 DEF NothingMigrates
        <3> QED
            BY <1>1, <2>6, <3>1, <3>2, FewWriteTables DEF WriteBegin, WriteEnd
    <2>8. ChartHolds'
        BY <2>1, <2>3, <2>5, <2>7 DEF ChartHolds, Whole, Rows
    <2>9. NothingMigrates'
        <3>1. ~Migrating(loaded)'
            BY <2>1, <2>3, <2>6 DEF NothingMigrates, Migrating
        <3>2. pc'[r] = "sidecar" /\ my'[r].ds = loaded => my'[r].path # loaded
            BY <1>1, <2>3, MigrationBegins DEF NothingMigrates, Migrating
        <3> QED
            BY <1>2, <2>1, <2>3, <3>1, <3>2 DEF NothingMigrates
    <2>10. WritesBack'
        BY <1>1, <2>3, <2>5, <2>7 DEF WritesBack
    <2> QED
        BY <2>8, <2>9, <2>10
<1> QED
    BY <1>3, <1>4, <1>5 DEF ChartInv

(* A visitor that changes neither a table nor a note.                       *)
LEMMA ChartLooksOn ==
    ASSUME ChartInv, UNCHANGED <<loaded, chart, file, pc, my>>, crossed => crossed',
           Charted => db'.notes = db.notes,
           Shaped(db)', Shaped(disk)', NEW v \in Visitors, NEW stop, NEW got, NEW rest,
           Go(v, stop, got, rest), DOMAIN at = Visitors, DOMAIN todo = Visitors,
           stop = "write" => got = file[First(rest)]
    PROVE  ChartInv'
<1>1. /\ DOMAIN seen' = Visitors
      /\ at'[v] = stop /\ seen'[v] = got /\ todo'[v] = rest
      /\ \A u \in Visitors : u # v => at'[u] = at[u] /\ seen'[u] = seen[u] /\ todo'[u] = todo[u]
    BY DEF Go, ChartInv
<1>2. Stale' = Stale /\ (Charted' => Charted)
    BY DEF Stale, Dirty, Charted, Failed
<1>3. ASSUME Charted' PROVE ChartHolds' /\ NothingMigrates' /\ WritesBack'
    <2>1. ChartHolds /\ NothingMigrates /\ WritesBack /\ db'.notes = db.notes
        BY <1>2, <1>3 DEF ChartInv
    <2>2. ChartHolds'
        BY <1>2, <2>1 DEF ChartHolds, Whole, Rows
    <2>3. NothingMigrates'
        BY <2>1 DEF NothingMigrates, Migrating
    <2>4. WritesBack'
        BY <1>1, <1>2, <2>1 DEF WritesBack
    <2> QED
        BY <2>2, <2>3, <2>4
<1> QED
    BY <1>1, <1>3 DEF ChartInv

LEMMA FetchKeeps ==
    ASSUME Shaped(db), NEW d \in Datasets
    PROVE  /\ Migrating(d) => DOMAIN Fetched(d).notes[d] # {}
           /\ ~Migrating(d) => Fetched(d).notes = db.notes
<1>1. PICK legacy : legacy = [e \in DOMAIN Sidecar[d] |->
                        [grade |-> Sidecar[d][e].grade, tags |-> Sidecar[d][e].tags, reason |-> None]]
    OBVIOUS
<1>2. PICK b : b = Fetched(d)
    OBVIOUS
<1>3. PICK registered : registered = [db EXCEPT !.reg = @ \cup {d}]
    OBVIOUS
<1>4. registered.notes = db.notes /\ DOMAIN registered = DOMAIN db
    BY <1>3 DEF Shaped
<1>5. CASE Migrating(d)
    <2>1. \/ b = [registered EXCEPT !.notes[d] = legacy]
          \/ b = [registered EXCEPT !.notes[d] = legacy, !.stats[d] = CountsOf(legacy)]
        BY <1>1, <1>2, <1>3, <1>5 DEF Fetched
    <2>2. b.notes[d] = legacy
        BY <1>4, <2>1 DEF Shaped
    <2> QED
        BY <1>1, <1>2, <1>5, <2>2 DEF Migrating
<1>6. CASE ~Migrating(d)
    BY <1>2, <1>3, <1>4, <1>6 DEF Fetched
<1> QED
    BY <1>5, <1>6

(* It is computed: the migration that it may have to make is made at once.  *)
LEMMA ChartAsked ==
    ASSUME LocalInv, ColumnInv, ChartInv, NEW v \in Visitors, Chart(v)
    PROVE  ChartInv'
<1> DEFINE d == want[v].dataset
<1>1. /\ want[v].op = "chart" /\ loop = None /\ UNCHANGED <<loaded, file, pc, my>>
      /\ crossed' = (crossed \/ d # loaded \/ \E r \in Reqs : pc[r] = "sidecar")
    BY DEF Chart, Asks, Serves, Among
<1>2. Shaped(db)' /\ Shaped(disk)'
    <2>1. PICK b : b = db'
        OBVIOUS
    <2>2. PICK c : c = disk'
        OBVIOUS
    <2>3. Shaped(b) /\ (c = disk \/ c = b)
        BY <2>1, <2>2, VisitorsGrow DEF ChartInv, Grows, Visit
    <2> QED
        BY <2>1, <2>2, <2>3 DEF Shaped, ChartInv
<1>3. CASE UNCHANGED <<chart, store>> /\ Done(v, "ok", chart)
    BY <1>1, <1>2, <1>3, ChartLooksOn DEF Done, store, ColumnInv, VisitsFit
<1>4. CASE chart = None /\ Done(v, "error", None) /\ UNCHANGED chart
    BY <1>1, <1>2, <1>4, ChartLooksOn DEF Done, Charted, ColumnInv, VisitsFit
<1>5. CASE /\ Fetch(d) /\ Whole(d) /\ Done(v, "ok", chart')
           /\ chart' = Counts(Overlaid(Rows(d), db'.notes[d]))
    <2>1. DOMAIN seen' = Visitors /\ at'[v] = "ok" /\ \A u \in Visitors : u # v => at'[u] = at[u]
        BY <1>5 DEF Done, Go, ChartInv, ColumnInv, VisitsFit
    <2>2. WritesBack'
        BY <1>1, <2>1, LibraryAssumption DEF WritesBack, ColumnInv, Adding
    <2>3. ASSUME Charted' PROVE ChartHolds' /\ NothingMigrates'
        <3>1. d = loaded /\ d \in Datasets /\ \A r \in Reqs : pc[r] # "sidecar"
            BY <1>1, <2>3 DEF Charted, LocalInv
        <3>2. ChartHolds'
            BY <1>1, <1>5, <3>1 DEF ChartHolds, Rows
        <3>3. /\ Migrating(loaded) => DOMAIN db'.notes[loaded] # {}
              /\ ~Migrating(loaded) => db'.notes = db.notes
            BY <1>5, <3>1, FetchKeeps DEF Fetch, ChartInv
        <3>4. ~Migrating(loaded)'
            BY <1>1, <3>3 DEF Migrating
        <3> QED
            BY <1>1, <3>1, <3>2, <3>4 DEF NothingMigrates
    <2> QED
        BY <1>1, <1>2, <2>1, <2>2, <2>3 DEF ChartInv
<1> QED
    BY <1>3, <1>4, <1>5 DEF Chart

(* The rows of a dataset none of whose tables is written.                   *)
LEMMA OtherRowsStay ==
    ASSUME DOMAIN file = AllFiles, NEW d \in Datasets, NEW f, NEW t, file' = [file EXCEPT ![f] = t],
           f \notin Files(d) \/ t = file[f]
    PROVE  Rows(d)' = Rows(d) /\ Whole(d)' = Whole(d)
<1>1. Files(d) \subseteq AllFiles
    BY DEF AllFiles
<1>2. \A g \in Files(d) : file'[g] = file[g]
    BY <1>1
<1>3. \A e \in Indices(d) : <<d, FileOf[d][e]>> \in Files(d)
    BY DEF Files
<1> QED
    BY <1>2, <1>3 DEF Rows, Whole

(* A column is written: over a table that is as it was read, or else its    *)
(* writer forgets the distribution.                                         *)
LEMMA ChartColumned ==
    ASSUME LocalInv, ColumnInv, ChartInv, NEW v \in Visitors, ColumnWrite(v) \/ ColumnRaises(v)
    PROVE  ChartInv'
<1>1. /\ UNCHANGED <<loaded, chart, db, disk, crossed, pc, my>> /\ at[v] = "write"
      /\ DOMAIN at = Visitors /\ DOMAIN todo = Visitors
    BY DEF ColumnWrite, ColumnRaises, ColumnRest, Among, memory, caches, store, ColumnInv, VisitsFit
<1>2. PICK f, t : /\ f = First(todo[v]) /\ file' = [file EXCEPT ![f] = t]
                  /\ t = seen[v] \/ t = Torn
    BY DEF ColumnWrite, ColumnRaises
<1>3. \E stop \in {"ok", "read", "error"} : \E got, rest : Go(v, stop, got, rest)
    BY DEF ColumnWrite, ColumnRaises, Done
<1>4. DOMAIN seen' = Visitors /\ at'[v] # "write" /\ \A u \in Visitors : u # v => at'[u] = at[u]
    BY <1>1, <1>3 DEF Go, ChartInv
<1>5. WritesBack'
    BY <1>1, <1>4 DEF WritesBack, ColumnInv, Adding
<1>6. Stale' = Stale /\ (Charted' => Charted) /\ Shaped(db)' /\ Shaped(disk)'
    BY <1>1 DEF Stale, Dirty, Charted, Failed, ChartInv, Shaped
<1>7. ASSUME Charted' PROVE ChartHolds' /\ NothingMigrates'
    <2>1. ChartHolds /\ NothingMigrates /\ WritesBack /\ loaded \in Datasets
        BY <1>6, <1>7 DEF ChartInv, Charted, LocalInv
    <2>2. NothingMigrates'
        BY <1>1, <2>1 DEF NothingMigrates, Migrating
    <2>3. CASE Stale
        BY <1>6, <2>2, <2>3 DEF ChartHolds
    <2>4. CASE f \notin Files(loaded) \/ t = file[f]
        <3>1. Rows(loaded)' = Rows(loaded) /\ Whole(loaded)' = Whole(loaded)
            <4>1. PICK d \in Datasets : d = loaded
                BY <2>1
            <4>2. Rows(d)' = Rows(d) /\ Whole(d)' = Whole(d)
                BY <1>2, <2>4, <4>1, OtherRowsStay DEF ChartInv
            <4> QED
                BY <1>1, <4>1, <4>2 DEF Rows, Whole
        <3> QED
            BY <1>1, <1>6, <2>1, <2>2, <3>1 DEF ChartHolds
    <2>5. CASE f \in Files(loaded) /\ t = Torn
        <3>1. f \in DOMAIN file
            BY <2>1, <2>5 DEF ChartInv, AllFiles
        <3>2. ~Whole(loaded)'
            BY <1>1, <1>2, <2>5, <3>1 DEF Whole
        <3> QED
            BY <2>2, <3>2 DEF ChartHolds
    <2> QED
        BY <1>1, <1>2, <2>1, <2>3, <2>4, <2>5 DEF WritesBack
<1> QED
    BY <1>2, <1>4, <1>5, <1>6, <1>7 DEF ChartInv

LEMMA ChartVisited ==
    ASSUME LocalInv, ColumnInv, ChartInv, NEW v \in Visitors, Visit(v)
    PROVE  ChartInv'
<1>1. Shaped(db)' /\ Shaped(disk)'
    <2>1. PICK b : b = db'
        OBVIOUS
    <2>2. PICK c : c = disk'
        OBVIOUS
    <2>3. Shaped(b) /\ (c = disk \/ c = b)
        BY <2>1, <2>2, VisitorsGrow DEF ChartInv, Grows
    <2> QED
        BY <2>1, <2>2, <2>3 DEF Shaped, ChartInv
<1>2. UNCHANGED <<loaded, pc, my>> /\ DOMAIN at = Visitors /\ DOMAIN todo = Visitors
    BY VisitsLeave DEF ColumnInv, VisitsFit
<1> DEFINE Looks(stop, got, rest) ==
        /\ UNCHANGED <<chart, file, crossed>> /\ Go(v, stop, got, rest)
        /\ stop = "write" => got = file[First(rest)]
<1>3. ASSUME NEW stop, NEW got, NEW rest, Looks(stop, got, rest), Charted => db'.notes = db.notes
      PROVE  ChartInv'
    BY <1>1, <1>2, <1>3, ChartLooksOn
<1> HIDE DEF Looks
<1>4. CASE Scan(v) \/ ScanCommit(v) \/ Column(v) \/ ColumnRead(v) \/ Task(v)
    <2>1. UNCHANGED <<db, chart, file, crossed>>
        BY <1>4 DEF Scan, ScanCommit, Column, ColumnRead, Task, ColumnRest, memory, caches, store
    <2>2. CASE ColumnRead(v)
        <3>1. \/ Go(v, "error", None, {}) \/ Go(v, "write", file[First(todo[v])], todo[v])
            BY <2>2 DEF ColumnRead, Done
        <3>2. Looks("error", None, {}) \/ Looks("write", file[First(todo[v])], todo[v])
            BY <2>1, <3>1 DEF Looks
        <3> QED
            BY <1>3, <2>1, <3>2
    <2>3. CASE ~ColumnRead(v)
        <3>1. \E stop \in {"ok", "error", "commit", "register", "read"} : \E got, rest : Go(v, stop, got, rest)
            BY <1>4, <2>3 DEF Scan, ScanCommit, Column, Task, Done
        <3>2. \E stop, got, rest : Looks(stop, got, rest)
            BY <2>1, <3>1 DEF Looks
        <3> QED
            BY <1>3, <2>1, <3>2
    <2> QED
        BY <2>2, <2>3
<1>5. CASE ScanRow(v) \/ ScanStats(v)
    <2>1. PICK x, d : db' = [db EXCEPT !.reg = @ \cup x] \/ db' = [db EXCEPT !.stats[d] = x]
        BY <1>5 DEF ScanRow, ScanStats
    <2>2. db'.notes = db.notes
        BY <2>1 DEF ChartInv, Shaped
    <2>3. UNCHANGED <<chart, file, crossed>>
        BY <1>5 DEF ScanRow, ScanStats, memory, caches
    <2>4. \E stop \in {"stats", "commit", "register"} : \E got, rest : Go(v, stop, got, rest)
        BY <1>5 DEF ScanRow, ScanStats
    <2>5. \E stop, got, rest : Looks(stop, got, rest)
        BY <2>3, <2>4 DEF Looks
    <2> QED
        BY <1>3, <2>2, <2>5
<1>6. CASE Export(v)
    <2>1. UNCHANGED <<chart, file, crossed>>
        BY <1>6 DEF Export, memory, caches
    <2>2. \E stop \in {"ok", "error"} : \E got, rest : Go(v, stop, got, rest)
        BY <1>6 DEF Export, Done
    <2>3. \E stop, got, rest : Looks(stop, got, rest)
        BY <2>1, <2>2 DEF Looks
    <2>4. ASSUME Charted PROVE db'.notes = db.notes
        <3>1. UNCHANGED store \/ db' = Fetched(loaded)
            BY <1>6 DEF Export, Fetch
        <3>2. ~Migrating(loaded) /\ loaded \in Datasets
            BY <2>4 DEF ChartInv, NothingMigrates, Charted, LocalInv
        <3> QED
            BY <3>1, <3>2, FetchKeeps DEF ChartInv, store
    <2> QED
        BY <1>3, <2>3, <2>4
<1> QED
    BY <1>4, <1>5, <1>6, ChartAsked, ChartColumned DEF Visit

LEMMA ChartStays ==
    /\ ChartInv
    /\ UNCHANGED <<loaded, chart, file, disk, crossed, pc, my, at, seen, todo>>
    /\ Shaped(db)' /\ db'.notes = db.notes
    => ChartInv'
BY DEF ChartInv, Charted, Failed, ChartHolds, NothingMigrates, WritesBack, Stale, Dirty, Whole, Rows,
       Migrating, Shaped

LEMMA ChartServes == LocalInv /\ ColumnInv /\ ChartInv /\ [LibraryNext]_libraryVars => ChartInv'
<1> SUFFICES ASSUME LocalInv, ColumnInv, ChartInv, [LibraryNext]_libraryVars PROVE ChartInv'
    OBVIOUS
<1>1. CASE Booting
    <2>1. db' = db \/ db' = [db EXCEPT !.stamp = @ \cup db.reg]
        BY <1>1 DEF Booting, Boot
    <2>2. (disk' = disk \/ disk' = db') /\ UNCHANGED <<at, seen, todo, crossed>>
        BY <1>1 DEF Booting, Boot, visits
    <2>3. PICK b : b = db'
        OBVIOUS
    <2>4. Shaped(b) /\ b.notes = db.notes
        BY <2>1, <2>3 DEF ChartInv, Shaped
    <2>5. Shaped(db)' /\ Shaped(disk)'
        BY <2>2, <2>3, <2>4 DEF ChartInv, Shaped
    <2> QED
        BY <1>1, <2>2, <2>3, <2>4, <2>5, BootingLeaves
           DEF ChartInv, Charted, Failed, ChartHolds, NothingMigrates, WritesBack, Stale, Dirty, Whole,
               Rows, Migrating
<1>2. CASE ServerCrash
    BY <1>2 DEF ServerCrash, Crash, ChartInv, Charted, Shaped
<1>3. CASE UNCHANGED libraryVars
    BY <1>3, ChartStays DEF libraryVars, vars, visits, ChartInv, Shaped
<1> QED
    BY <1>1, <1>2, <1>3, ChartAnnotated, ChartVisited, ServerKinds

LEMMA ChartInit == LibInit \/ UpgradeInit => ChartInv
BY DEF LibInit, UpgradeInit, Idle, Init, LibraryInit, ChartInv, Shaped, Charted

(* Where the cached distribution may not be that of the loaded dataset,     *)
(* whoever is to blame is still to forget it.                               *)
THEOREM ChartInvariance == LibrarySpec => []ChartInv
BY ChartInit, ChartServes, LocalServed, ColumnInvariance, PTL DEF LibrarySpec

(* When nothing is in flight, the cached distribution is that of the loaded *)
(* dataset as it is now.                                                    *)
THEOREM ChartsAreCurrent == LibrarySpec => []ChartIsCurrent
<1>1. LocalInv /\ ChartInv => ChartIsCurrent
    <2> SUFFICES ASSUME LocalInv, ChartInv, InFlight = {}, Charted, Whole(loaded)
                 PROVE  chart = Counts(Overlaid(Rows(loaded), db.notes[loaded]))
        BY DEF ChartIsCurrent, Charted
    <2>1. ~Stale
        BY DEF Stale, Dirty, InFlight, Ended, Writing
    <2> QED
        BY <2>1 DEF ChartInv, ChartHolds
<1> QED
    BY <1>1, ChartInvariance, LocalServed, PTL


----------------------------------------------------------------------------
(* The statistics.  Who writes notes writes the statistics of his dataset   *)
(* before he ends.                                                          *)
Counting(r) == pc[r] \in {"sidecar", "save", "upsert", "count", "stats"}
Scans(v) == at[v] \in {"register", "stats", "commit"}
CellDatasets == {Cell[i] : i \in DOMAIN Cell}

(* At most one request or scan is in flight.                                *)
Alone ==
    /\ \A r, q \in Reqs : Busy(r) /\ Busy(q) => r = q
    /\ \A v, u \in Visitors : Scans(v) /\ Scans(u) => v = u
    /\ \A r \in Reqs, v \in Visitors : ~(Busy(r) /\ Scans(v))

(* A torn table that nobody has in hand stays torn.                         *)
FrozenTable(f) ==
    /\ file[f] = Torn
    /\ \A r \in Reqs : HasTable(r) => my[r].file # f
    /\ \A v \in Visitors : at[v] = "write" => First(todo[v]) # f
Frozen(d) == \E f \in Files(d) : FrozenTable(f)

Exact(notes, stats) == AnyGraded(CountsOf(notes)) => stats = CountsOf(notes)
Kept(b) ==
    \A d \in Datasets : \/ Exact(b.notes[d], b.stats[d]) \/ Frozen(d)
                        \/ \E r \in Reqs : Counting(r) /\ my[r].ds = d

(* What a scan has counted or read is still so when it is written.          *)
Tallied(v) == \A d \in CellDatasets : Exact(db.notes[d], seen[v][d]) \/ Frozen(d)

Filed(b) == Shaped(b) /\ DOMAIN b.stats = Datasets

StatsInv ==
    /\ Filed(db) /\ Filed(disk) /\ DOMAIN file = AllFiles /\ DOMAIN seen = Visitors
    /\ \A v \in Visitors :
          /\ Scans(v) => todo[v] \in Seq(CellDatasets)
          /\ at[v] \in {"register", "stats"} => todo[v] # <<>>
    /\ apart /\ ~Failed =>
          /\ Alone /\ Kept(db) /\ Kept(disk)
          /\ \A r \in Reqs : pc[r] = "stats" => my[r].counts = CountsOf(db.notes[my[r].ds])
          /\ \A v \in Visitors : Scans(v) => Tallied(v)

LEMMA FewAreAlone ==
    ASSUME Cardinality(InFlight') <= 1
    PROVE  Alone'
<1>1. IsFiniteSet(InFlight')
    <2>1. InFlight' \subseteq Reqs \cup Visitors
        BY DEF InFlight
    <2>2. IsFiniteSet(Reqs \cup Visitors)
        BY AnnotationsAssumption, LibraryAssumption, FS_Union
    <2> QED
        BY <2>1, <2>2, FS_Subset
<1>0. PICK fly : fly = InFlight'
    OBVIOUS
<1>2. ASSUME NEW x \in fly, NEW y \in fly PROVE x = y
    <2>0. IsFiniteSet(fly) /\ Cardinality(fly) <= 1
        BY <1>0, <1>1
    <2>1. IsFiniteSet(fly \ {x}) /\ Cardinality(fly \ {x}) = Cardinality(fly) - 1
        BY <2>0, FS_RemoveElement
    <2>2. Cardinality(fly) \in Nat /\ Cardinality(fly \ {x}) \in Nat
        BY <2>0, <2>1, FS_CardinalityType
    <2>3. Cardinality(fly \ {x}) = 0
        BY <2>0, <2>1, <2>2
    <2>4. fly \ {x} = {}
        BY <2>1, <2>3, FS_EmptySet
    <2> QED
        BY <2>4
<1>3. \A r \in Reqs : Busy(r)' => r \in fly
    BY <1>0 DEF Busy, InFlight
<1>4. \A v \in Visitors : Scans(v)' => v \in fly
    BY <1>0 DEF Scans, InFlight, Ended
<1> QED
    BY <1>2, <1>3, <1>4, LibraryAssumption DEF Alone

LEMMA FrozenAnnotated ==
    ASSUME LocalInv, DOMAIN file = AllFiles, NEW r \in Reqs, Annotate(r), NEW d \in Datasets, Frozen(d)
    PROVE  Frozen(d)'
<1>1. PICK f \in Files(d) : FrozenTable(f) /\ f \in DOMAIN file
    BY DEF Frozen, AllFiles
<1>2. (Start(r) \/ Handler(r)) /\ UNCHANGED <<at, todo>>
    BY DEF Annotate, Handler, visits
<1>3. \A q \in Reqs : q # r => pc'[q] = pc[q] /\ my'[q] = my[q]
    BY <1>2, OthersWait
<1>4. file'[f] = Torn
    <2>1. CASE UNCHANGED file
        BY <1>1, <2>1 DEF FrozenTable
    <2>2. CASE WriteBegin(r) \/ WriteEnd(r)
        <3>1. my[r].file # f
            BY <1>1, <2>2 DEF FrozenTable, HasTable, WriteBegin, WriteEnd
        <3>2. \E rows : file' = [file EXCEPT ![my[r].file] = rows]
            BY <2>2 DEF WriteBegin, WriteEnd
        <3> QED
            BY <1>1, <3>1, <3>2 DEF FrozenTable
    <2> QED
        BY <1>2, <2>1, <2>2, FewWriteTables
<1>5. HasTable(r)' => my'[r].file # f
    <2>1. CASE ReadTable(r) /\ my'[r].file = my[r].file
        BY <1>1, <2>1, ReadTableTurns DEF FrozenTable, HasTable
    <2>2. CASE WriteBegin(r) /\ my'[r] = my[r]
        BY <1>1, <2>2 DEF FrozenTable, HasTable, WriteBegin
    <2> QED
        BY <1>2, <2>1, <2>2, TablesTaken
<1>6. FrozenTable(f)'
    BY <1>1, <1>2, <1>3, <1>4, <1>5 DEF FrozenTable, HasTable
<1> QED
    BY <1>1, <1>6 DEF Frozen

LEMMA FrozenVisited ==
    ASSUME ColumnInv, DOMAIN file = AllFiles, NEW v \in Visitors, Visit(v), NEW d \in Datasets, Frozen(d)
    PROVE  Frozen(d)'
<1>1. PICK f \in Files(d) : FrozenTable(f) /\ f \in DOMAIN file
    BY DEF Frozen, AllFiles
<1>2. UNCHANGED <<pc, my>> /\ DOMAIN at = Visitors /\ DOMAIN todo = Visitors
    BY VisitsLeave DEF ColumnInv, VisitsFit
<1>3. \E stop, got, rest : Go(v, stop, got, rest)
    BY DEF Visit, Scan, ScanRow, ScanStats, ScanCommit, Chart, Export, Column, ColumnRead, ColumnWrite,
           ColumnRaises, Task, Done
<1>4. \A u \in Visitors : u # v => at'[u] = at[u] /\ todo'[u] = todo[u]
    BY <1>2, <1>3 DEF Go
<1>5. file'[f] = Torn
    <2>1. CASE ColumnWrite(v) \/ ColumnRaises(v)
        BY <1>1, <2>1 DEF ColumnWrite, ColumnRaises, FrozenTable
    <2>2. CASE ~(ColumnWrite(v) \/ ColumnRaises(v))
        BY <1>1, <2>2 DEF Visit, Scan, ScanRow, ScanStats, ScanCommit, Chart, Export, Column,
            ColumnRead, Task, FrozenTable
    <2> QED
        BY <2>1, <2>2
<1>6. at'[v] = "write" => First(todo'[v]) # f
    <2> SUFFICES ASSUME at'[v] = "write" PROVE First(todo'[v]) # f
        OBVIOUS
    <2>1. ASSUME NEW stop, NEW got, NEW rest, Go(v, stop, got, rest), stop # "write" PROVE FALSE
        BY <1>2, <2>1 DEF Go
    <2>2. ColumnRead(v)
        BY <2>1 DEF Visit, Scan, ScanRow, ScanStats, ScanCommit, Chart, Export, Column, ColumnWrite,
               ColumnRaises, Task, Done
    <2>3. file[First(todo[v])] # Torn /\ Go(v, "write", file[First(todo[v])], todo[v])
        BY <2>1, <2>2 DEF ColumnRead, Done
    <2>4. todo'[v] = todo[v]
        BY <1>2, <2>3 DEF Go
    <2> QED
        BY <1>1, <2>3, <2>4 DEF FrozenTable
<1>7. FrozenTable(f)'
    BY <1>1, <1>2, <1>4, <1>5, <1>6 DEF FrozenTable, HasTable
<1> QED
    BY <1>1, <1>7 DEF Frozen

(* _refresh_dataset_stats: it counts what there is, and writes that; or it  *)
(* fails, or the pass goes on without it because a table is torn.           *)
LEMMA CountIsRight ==
    ASSUME LocalInv, NEW r \in Reqs, Count(r)
    PROVE  my'[r].ds = my[r].ds /\ my'[r].counts = CountsOf(db.notes[my[r].ds])
<1>1. PICK notes : notes = db.notes[my[r].ds]
    OBVIOUS
<1>2. PICK counts : counts = [g \in Grades |-> Cardinality({e \in DOMAIN notes : notes[e].grade = g})]
    OBVIOUS
<1>3. PICK l : l = [my[r] EXCEPT !.counts = counts]
    OBVIOUS
<1>4. l.ds = my[r].ds /\ l.counts = counts
    BY <1>3 DEF LocalInv, Shapes, Fields, Blank
<1>5. Move(r, "stats", l)
    BY <1>1, <1>2, <1>3 DEF Count
<1>6. counts = CountsOf(notes)
    <2>1. \A g : {e \in DOMAIN notes : notes[e].grade = g}
                  = {e \in DOMAIN GradesIn(notes) : GradesIn(notes)[e] = g}
        BY DEF GradesIn
    <2>2. \A g \in Grades : Counts(GradesIn(notes))[g] = Cardinality({e \in DOMAIN notes : notes[e].grade = g})
        BY <2>1 DEF Counts
    <2> QED
        BY <1>2, <2>2 DEF CountsOf
<1> QED
    BY <1>1, <1>4, <1>5, <1>6, Moved

LEMMA StatsAreWritten ==
    ASSUME LocalInv, NEW r \in Reqs, Stats(r)
    PROVE  \/ pc'[r] = "error"
           \/ UNCHANGED store /\ pc'[r] = "annotations" /\ \E f \in Files(my[r].ds) : file[f] = Torn
           \/ db' = [db EXCEPT !.stats[my[r].ds] = my[r].counts] /\ disk' = db'
<1>1. CASE Answer(r, "error")
    BY <1>1, Moved DEF Answer
<1>2. CASE my[r].back = "graded" /\ Refreshed(r) /\ UNCHANGED store /\ \E f \in Files(my[r].ds) : file[f] = Torn
    BY <1>2, Moved DEF Refreshed
<1> QED
    BY <1>1, <1>2 DEF Stats

LEMMA StatsBegin ==
    ASSUME LocalInv, NEW r \in Reqs, Start(r) \/ Handler(r), pc'[r] = "stats"
    PROVE  Count(r)
<1>1. ~Start(r)
    BY StartTurns
<1>2. ~Plain(r)
    BY PlainTurns DEF Turn
<1>3. ~(Save(r) \/ ReadTable(r) \/ WriteBegin(r) \/ WriteRaises(r))
    BY SaveTurns, ReadTableTurns, WriteBeginTurns, WriteRaisesTurns
<1>4. \A files : ~NextTable(r, files)
    BY NextTableTurns
<1>5. ~WriteEnd(r)
    BY <1>4 DEF WriteEnd
<1>6. ~(Stats(r) /\ my[r].back = "saved")
    <2> SUFFICES ASSUME Stats(r), my[r].back = "saved" PROVE FALSE
        OBVIOUS
    <2>1. Answer(r, "error") => pc'[r] = "error"
        BY Moved DEF Answer
    <2> QED
        BY <1>4, <2>1 DEF Stats, Refreshed, WriteBack
<1> QED
    BY <1>1, <1>2, <1>3, <1>5, <1>6, HandlerKinds

LEMMA CountingGoesOn ==
    ASSUME LocalInv, NEW r \in Reqs, Start(r) \/ Handler(r), Counting(r), ~Stats(r)
    PROVE  Counting(r)' /\ my'[r].ds = my[r].ds
<1>1. DOMAIN my[r] = Fields
    BY DEF LocalInv, Shapes
<1>2. ASSUME NEW step \in {"sidecar", "save", "upsert", "count", "stats"}, NEW l, l.ds = my[r].ds,
             Move(r, step, l)
      PROVE  Counting(r)' /\ my'[r].ds = my[r].ds
    BY <1>2, Moved DEF Counting
<1>3. CASE SidecarRow(r)
    <2>1. PICK left : \/ Move(r, "sidecar", [my[r] EXCEPT !.todo = left])
                      \/ Move(r, "count", [my[r] EXCEPT !.todo = {}, !.back = "migrated"])
        BY <1>3 DEF SidecarRow
    <2>2. PICK l : l \in {[my[r] EXCEPT !.todo = left], [my[r] EXCEPT !.todo = {}, !.back = "migrated"]}
                   /\ (Move(r, "sidecar", l) \/ Move(r, "count", l))
        BY <2>1
    <2>3. l.ds = my[r].ds
        BY <1>1, <2>2 DEF Fields, Blank
    <2> QED
        BY <1>2, <2>2, <2>3
<1>4. CASE Save(r)
    <2>1. PICK left : \/ Move(r, "save", [my[r] EXCEPT !.todo = left])
                      \/ Move(r, "count", [my[r] EXCEPT !.todo = {}, !.back = "saved"])
        BY <1>4 DEF Save
    <2>2. PICK l : l \in {[my[r] EXCEPT !.todo = left], [my[r] EXCEPT !.todo = {}, !.back = "saved"]}
                   /\ (Move(r, "save", l) \/ Move(r, "count", l))
        BY <2>1
    <2>3. l.ds = my[r].ds
        BY <1>1, <2>2 DEF Fields, Blank
    <2> QED
        BY <1>2, <2>2, <2>3
<1>5. CASE Upsert(r)
    <2>1. PICK left : Move(r, "upsert", [my[r] EXCEPT !.todo = left])
        BY <1>5 DEF Upsert
    <2>2. PICK l : l = [my[r] EXCEPT !.todo = left]
        OBVIOUS
    <2>3. l.ds = my[r].ds
        BY <1>1, <2>2 DEF Fields, Blank
    <2> QED
        BY <1>2, <2>1, <2>2, <2>3
<1>6. CASE Stamp(r)
    <2>1. PICK l : l = [my[r] EXCEPT !.back = "graded", !.graded = {}, !.severe = {}]
        OBVIOUS
    <2>2. l.ds = my[r].ds /\ Move(r, "count", l)
        BY <1>1, <1>6, <2>1 DEF Fields, Blank, Stamp
    <2> QED
        BY <1>2, <2>2
<1>7. CASE Count(r)
    BY <1>7, CountTurns, CountIsRight DEF Counting
<1>8. CASE ~(SidecarRow(r) \/ Save(r) \/ Upsert(r) \/ Stamp(r) \/ Count(r))
    <2>1. ~Start(r)
        BY StartTurns DEF Counting
    <2>2. pc[r] \notin {"sidecar", "save", "upsert", "count", "stats"}
        BY <1>8, <2>1
           DEF Handler, Register, Insert, Migrate, Stamped, Graded, Sweep, ReadNotes, ReadFile,
               ReadTable, WriteBegin, WriteEnd, WriteRaises
    <2> QED
        BY <2>2 DEF Counting
<1> QED
    BY <1>3, <1>4, <1>5, <1>6, <1>7, <1>8

(* Nobody else changes the statistics or the notes.                         *)
LEMMA StatsChange ==
    ASSUME Filed(db), NEW r \in Reqs, Start(r) \/ Handler(r), ~Stats(r)
    PROVE  Filed(db)' /\ db'.stats = db.stats /\ (Counting(r) \/ db'.notes = db.notes)
<1>1. PICK b : b = db'
    OBVIOUS
<1>2. Shaped(b)
    BY <1>1, AnnotatorsGrow DEF Grows, Filed
<1>3. ASSUME NEW x, NEW e, NEW note, b = SetNote(x, e, note) PROVE b.stats = db.stats
    BY <1>3 DEF Filed, Shaped, SetNote
<1>4. CASE SidecarRow(r)
    <2>1. pc[r] = "sidecar" /\ \E e, note : b = db \/ b = SetNote(my[r].ds, e, note)
        BY <1>1, <1>4 DEF SidecarRow
    <2> QED
        BY <1>1, <1>2, <1>3, <2>1 DEF Filed, Shaped, Counting
<1>5. CASE Upsert(r) \/ Save(r)
    <2>1. pc[r] \in {"save", "upsert"} /\ \E e, note : b = SetNote(my[r].ds, e, note)
        BY <1>1, <1>5 DEF Upsert, Save
    <2> QED
        BY <1>1, <1>2, <1>3, <2>1 DEF Filed, Shaped, Counting
<1>6. CASE Insert(r) \/ Stamp(r)
    <2>1. PICK y : \/ b = db \/ b = [db EXCEPT !.reg = @ \cup y] \/ b = [db EXCEPT !.stamp = @ \cup y]
        BY <1>1, <1>6 DEF Insert, Stamp, store
    <2>2. b.notes = db.notes /\ b.stats = db.stats
        BY <2>1 DEF Filed, Shaped
    <2> QED
        BY <1>1, <1>2, <2>2 DEF Filed, Shaped
<1>7. CASE ~(Insert(r) \/ Stamp(r) \/ SidecarRow(r) \/ Upsert(r) \/ Save(r))
    <2>1. UNCHANGED db
        BY <1>7, StartsLeave
           DEF Handler, Register, Migrate, Stamped, Graded, Sweep, ReadNotes, ReadFile, Count, ReadTable,
               WriteBegin, WriteEnd, WriteRaises, store
    <2> QED
        BY <2>1 DEF Filed, Shaped
<1> QED
    BY <1>4, <1>5, <1>6, <1>7

LEMMA StatsNeighbours ==
    ASSUME Filed(db), NEW r \in Reqs, Start(r) \/ Handler(r), ~Stats(r), NEW d \in Datasets, d # my[r].ds,
           Counting(r)
    PROVE  db'.notes[d] = db.notes[d]
<1>1. ASSUME NEW e, NEW note, NEW b, b = SetNote(my[r].ds, e, note) PROVE b.notes[d] = db.notes[d]
    BY <1>1 DEF Filed, Shaped, SetNote
<1>2. CASE SidecarRow(r)
    <2>1. \E e, note : db' = db \/ db' = SetNote(my[r].ds, e, note)
        BY <1>2 DEF SidecarRow
    <2> QED
        BY <1>1, <2>1
<1>3. CASE Upsert(r) \/ Save(r)
    <2>1. \E e, note : db' = SetNote(my[r].ds, e, note)
        BY <1>3 DEF Upsert, Save
    <2> QED
        BY <1>1, <2>1
<1>4. CASE Insert(r) \/ Stamp(r)
    <2>1. PICK y : \/ db' = db \/ db' = [db EXCEPT !.reg = @ \cup y] \/ db' = [db EXCEPT !.stamp = @ \cup y]
        BY <1>4 DEF Insert, Stamp, store
    <2>2. db'.notes = db.notes
        BY <2>1 DEF Filed, Shaped
    <2> QED
        BY <2>2
<1>5. CASE ~(Insert(r) \/ Stamp(r) \/ SidecarRow(r) \/ Upsert(r) \/ Save(r))
    BY <1>5, StartsLeave
       DEF Handler, Register, Migrate, Stamped, Graded, Sweep, ReadNotes, ReadFile, Count, ReadTable,
           WriteBegin, WriteEnd, WriteRaises, store
<1> QED
    BY <1>2, <1>3, <1>4, <1>5

(* A database that a handler has left: exact, or it is still at it.         *)
LEMMA StatsAnnotated ==
    ASSUME LocalInv, ColumnInv, StatsInv, NEW r \in Reqs, Annotate(r)
    PROVE  StatsInv'
<1>1. (Start(r) \/ Handler(r)) /\ UNCHANGED <<at, todo, seen, want>> /\ apart' = (apart /\ Cardinality(InFlight') <= 1)
    BY DEF Annotate, Handler, visits
<1>2. \A q \in Reqs : q # r => pc'[q] = pc[q] /\ my'[q] = my[q]
    BY <1>1, OthersWait
<1>3. Filed(db)
    BY DEF StatsInv
<1>4. Filed(db)' /\ Filed(disk)'
    <2>1. PICK b : b = db'
        OBVIOUS
    <2>2. PICK c : c = disk'
        OBVIOUS
    <2>3. CASE Stats(r)
        <3>1. \/ b = db \/ b = [db EXCEPT !.stats[my[r].ds] = my[r].counts]
            BY <2>1, <2>3 DEF Stats, store
        <3>2. Filed(b)
            BY <1>3, <3>1 DEF Filed, Shaped
        <3> QED
            BY <1>1, <2>1, <2>2, <3>2, DiskFollows DEF StatsInv, Filed, Shaped
    <2>4. CASE ~Stats(r)
        <3>1. Filed(b)
            BY <1>1, <1>3, <2>1, <2>4, StatsChange DEF Filed, Shaped
        <3> QED
            BY <1>1, <2>1, <2>2, <3>1, DiskFollows DEF StatsInv, Filed, Shaped
    <2> QED
        BY <2>3, <2>4
<1>5. DOMAIN file' = AllFiles /\ DOMAIN seen' = Visitors
    BY <1>1, FewWriteTables DEF StatsInv, WriteBegin, WriteEnd
<1>6. ASSUME apart', ~Failed'
      PROVE  /\ Alone' /\ Kept(db)' /\ Kept(disk)'
             /\ \A q \in Reqs : pc'[q] = "stats" => my'[q].counts = CountsOf(db'.notes[my'[q].ds])
             /\ \A v \in Visitors : Scans(v)' => Tallied(v)'
    <2>1. apart /\ ~Failed /\ Cardinality(InFlight') <= 1
        BY <1>1, <1>6, FailedStays DEF LibraryNext
    <2>2. /\ Alone /\ Kept(db) /\ Kept(disk)
          /\ \A q \in Reqs : pc[q] = "stats" => my[q].counts = CountsOf(db.notes[my[q].ds])
          /\ \A v \in Visitors : Scans(v) => Tallied(v)
        BY <2>1 DEF StatsInv
    <2>3. Alone'
        BY <2>1, FewAreAlone
    <2>4. \A d \in Datasets : Frozen(d) => Frozen(d)'
        BY FrozenAnnotated DEF StatsInv
    <2>5. CASE Start(r)
        <3>1. UNCHANGED <<db, disk>> /\ ~Counting(r) /\ pc'[r] # "stats"
            BY <2>5, StartsLeave, StartTurns DEF Counting
        <3>2. \A q \in Reqs : Counting(q) => Counting(q)' /\ my'[q] = my[q]
            BY <1>2, <3>1 DEF Counting
        <3>3. Kept(db)' /\ Kept(disk)'
            BY <2>2, <2>4, <3>1, <3>2 DEF Kept
        <3>4. ASSUME NEW v \in Visitors, Scans(v)' PROVE Tallied(v)'
            <4>1. Tallied(v)
                BY <1>1, <2>2, <3>4 DEF Scans
            <4>2. CellDatasets \subseteq Datasets
                BY LibraryAssumption DEF CellDatasets
            <4> QED
                BY <1>1, <2>4, <3>1, <4>1, <4>2 DEF Tallied
        <3> QED
            BY <1>2, <2>2, <2>3, <3>1, <3>3, <3>4
    <2>6. CASE Handler(r)
        <3>1. Busy(r)
            BY <2>6, HandlersWork
        <3>2. /\ \A q \in Reqs : q # r => ~Counting(q) /\ pc'[q] # "stats"
              /\ \A v \in Visitors : ~Scans(v)'
            <4>1. \A q \in Reqs : Counting(q) => Busy(q)
                BY DEF Counting, Busy, Ended
            <4> QED
                BY <1>1, <1>2, <2>2, <3>1, <4>1 DEF Alone, Counting, Scans
        <3>3. CASE Stats(r)
            <4>1. pc'[r] # "error" /\ pc[r] = "stats" /\ loop = None
                BY <1>6, <3>3 DEF Failed, Stats, Annotate, WriteBegin, WriteEnd, WriteRaises
            <4>2. pc'[r] # "stats"
                BY <1>1, <3>3, <4>1, StatsBegin DEF Count
            <4>3. CASE UNCHANGED store /\ pc'[r] = "annotations" /\ \E f \in Files(my[r].ds) : file[f] = Torn
                <5>1. PICK f \in Files(my[r].ds) : file[f] = Torn
                    BY <4>3
                <5>2. UNCHANGED file
                    BY <3>3 DEF Stats, tables
                <5>3. \A q \in Reqs : ~HasTable(q)'
                    <6>1. \A q \in Reqs : q # r => ~Busy(q)
                        BY <2>2, <3>1 DEF Alone
                    <6> QED
                        BY <1>2, <4>3, <6>1 DEF HasTable, Busy, Ended
                <5>4. \A v \in Visitors : at'[v] # "write"
                    BY <1>1, <4>1, LibraryAssumption DEF ColumnInv, Adding
                <5>5. FrozenTable(f)'
                    BY <5>1, <5>2, <5>3, <5>4 DEF FrozenTable
                <5>6. \A d \in Datasets : d = my[r].ds => Frozen(d)'
                    BY <5>1, <5>5 DEF Frozen
                <5>7. ASSUME NEW d \in Datasets
                      PROVE  /\ Exact(db.notes[d], db.stats[d]) \/ Frozen(d)'
                             /\ Exact(disk.notes[d], disk.stats[d]) \/ Frozen(d)'
                    BY <2>2, <2>4, <3>2, <5>6 DEF Kept
                <5>8. Kept(db)' /\ Kept(disk)'
                    BY <4>3, <5>7 DEF Kept, store
                <5> QED
                    BY <2>3, <3>2, <4>2, <5>8
            <4>4. CASE db' = [db EXCEPT !.stats[my[r].ds] = my[r].counts] /\ disk' = db'
                <5>1. PICK b : b = db'
                    OBVIOUS
                <5>2. /\ b.notes = db.notes
                      /\ \A d \in Datasets : b.stats[d] = IF d = my[r].ds THEN my[r].counts ELSE db.stats[d]
                    BY <1>3, <4>4, <5>1 DEF Filed, Shaped
                <5>3. my[r].counts = CountsOf(db.notes[my[r].ds])
                    BY <2>2, <4>1
                <5>4. ASSUME NEW d \in Datasets PROVE Exact(b.notes[d], b.stats[d]) \/ Frozen(d)'
                    <6>1. CASE d = my[r].ds
                        BY <5>2, <5>3, <6>1 DEF Exact
                    <6>2. CASE d # my[r].ds
                        BY <2>2, <2>4, <3>2, <5>2, <6>2 DEF Kept
                    <6> QED
                        BY <6>1, <6>2
                <5>5. Kept(db)' /\ Kept(disk)'
                    BY <4>4, <5>1, <5>4 DEF Kept
                <5> QED
                    BY <2>3, <3>2, <4>2, <5>5
            <4> QED
                BY <3>3, <4>1, <4>3, <4>4, StatsAreWritten
        <3>4. CASE ~Stats(r)
            <4>1. PICK b : b = db'
                OBVIOUS
            <4>2. b.stats = db.stats /\ (Counting(r) \/ b.notes = db.notes)
                BY <1>1, <1>3, <3>4, <4>1, StatsChange
            <4>3. Counting(r) => Counting(r)' /\ my'[r].ds = my[r].ds
                BY <1>1, <3>4, CountingGoesOn
            <4>4. ASSUME NEW d \in Datasets
                  PROVE  Exact(b.notes[d], b.stats[d]) \/ Frozen(d)' \/ (Counting(r)' /\ my'[r].ds = d)
                <5>1. b.notes[d] = db.notes[d] \/ (Counting(r) /\ my[r].ds = d)
                    <6>1. CASE Counting(r) /\ my[r].ds # d
                        BY <1>1, <1>3, <3>4, <4>1, <6>1, StatsNeighbours
                    <6> QED
                        BY <4>2, <6>1
                <5> QED
                    BY <2>2, <2>4, <3>2, <4>2, <4>3, <5>1 DEF Kept
            <4>5. ASSUME NEW d \in Datasets
                  PROVE  Exact(disk.notes[d], disk.stats[d]) \/ Frozen(d)' \/ (Counting(r)' /\ my'[r].ds = d)
                BY <2>2, <2>4, <3>2, <4>3 DEF Kept
            <4>6. Kept(db)' /\ Kept(disk)'
                <5>1. disk' = disk \/ disk' = db'
                    BY <1>1, DiskFollows
                <5> QED
                    BY <4>1, <4>4, <4>5, <5>1 DEF Kept
            <4>7. pc'[r] = "stats" => my'[r].counts = CountsOf(db'.notes[my'[r].ds])
                <5> SUFFICES ASSUME pc'[r] = "stats" PROVE my'[r].counts = CountsOf(db'.notes[my'[r].ds])
                    OBVIOUS
                <5>1. Count(r)
                    BY <1>1, StatsBegin
                <5> QED
                    BY <5>1, CountIsRight DEF Count, store
            <4> QED
                BY <2>3, <3>2, <4>6, <4>7
        <3> QED
            BY <3>3, <3>4
    <2> QED
        BY <1>1, <2>5, <2>6
<1> QED
    BY <1>1, <1>4, <1>5, <1>6 DEF StatsInv, Scans

(* A visitor keeps it all, if he brings only what is exact.                 *)
Brings(v, stop, got, rest) ==
    /\ Go(v, stop, got, rest) /\ DOMAIN file' = AllFiles
    /\ apart' => apart
    /\ stop \in {"register", "stats", "commit"} =>
          rest \in Seq(CellDatasets) /\ (stop = "commit" \/ rest # <<>>)
    /\ apart' /\ ~Failed =>
          /\ Alone'
          /\ db'.notes = db.notes \/ InFlight = {}
          /\ \A d \in Datasets : \/ db'.notes[d] = db.notes[d] /\ db'.stats[d] = db.stats[d]
                                 \/ Exact(db'.notes[d], db'.stats[d]) \/ Frozen(d)'
          /\ stop \in {"register", "stats", "commit"} =>
                \A d \in CellDatasets : Exact(db'.notes[d], got[d]) \/ Frozen(d)'

LEMMA StatsBrought ==
    ASSUME LocalInv, ColumnInv, StatsInv, NEW v \in Visitors, Visit(v), Filed(db)', Filed(disk)',
           disk' = disk \/ disk' = db',
           NEW stop, NEW got, NEW rest, Brings(v, stop, got, rest)
    PROVE  StatsInv'
<1>1. UNCHANGED <<pc, my>> /\ DOMAIN at = Visitors /\ DOMAIN todo = Visitors /\ DOMAIN seen = Visitors
    BY VisitsLeave DEF ColumnInv, VisitsFit, StatsInv
<1>2. /\ at'[v] = stop /\ seen'[v] = got /\ todo'[v] = rest /\ DOMAIN seen' = Visitors
      /\ \A u \in Visitors : u # v => at'[u] = at[u] /\ seen'[u] = seen[u] /\ todo'[u] = todo[u]
    BY <1>1 DEF Brings, Go
<1>3. ASSUME NEW u \in Visitors
      PROVE  /\ Scans(u)' => todo'[u] \in Seq(CellDatasets)
             /\ at'[u] \in {"register", "stats"} => todo'[u] # <<>>
    BY <1>2 DEF Brings, StatsInv, Scans
<1>4. ASSUME apart', ~Failed'
      PROVE  /\ Alone' /\ Kept(db)' /\ Kept(disk)'
             /\ \A r \in Reqs : pc'[r] = "stats" => my'[r].counts = CountsOf(db'.notes[my'[r].ds])
             /\ \A u \in Visitors : Scans(u)' => Tallied(u)'
    <2>1. apart /\ ~Failed
        BY <1>1, <1>4 DEF Brings, Failed
    <2>2. /\ Alone /\ Kept(db) /\ Kept(disk)
          /\ \A r \in Reqs : pc[r] = "stats" => my[r].counts = CountsOf(db.notes[my[r].ds])
          /\ \A u \in Visitors : Scans(u) => Tallied(u)
        BY <2>1 DEF StatsInv
    <2>3. \A d \in Datasets : Frozen(d) => Frozen(d)'
        BY FrozenVisited DEF StatsInv
    <2>4. \A r \in Reqs : Counting(r)' = Counting(r) /\ my'[r] = my[r]
        BY <1>1 DEF Counting
    <2>5. Kept(db)'
        BY <1>4, <2>1, <2>2, <2>3, <2>4 DEF Brings, Kept
    <2>6. Kept(disk)'
        <3>1. disk' = disk => Kept(disk)'
            BY <2>2, <2>3, <2>4 DEF Kept
        <3>2. disk' = db' => Kept(disk)'
            BY <2>5 DEF Kept
        <3> QED
            BY <3>1, <3>2
    <2>7. ASSUME NEW r \in Reqs, pc'[r] = "stats" PROVE my'[r].counts = CountsOf(db'.notes[my'[r].ds])
        <3>1. r \in InFlight
            BY <1>1, <2>7 DEF InFlight, Ended
        <3> QED
            BY <1>1, <1>4, <2>1, <2>2, <2>7, <3>1 DEF Brings
    <2>8. ASSUME NEW u \in Visitors, Scans(u)' PROVE Tallied(u)'
        <3>1. CASE u = v
            BY <1>2, <1>4, <2>1, <2>8, <3>1 DEF Brings, Scans, Tallied
        <3>2. CASE u # v
            <4>1. Scans(u) /\ u \in InFlight
                BY <1>2, <2>8, <3>2 DEF Scans, InFlight, Ended
            <4>2. db'.notes = db.notes /\ Tallied(u)
                BY <1>4, <2>1, <2>2, <4>1 DEF Brings
            <4>3. CellDatasets \subseteq Datasets
                BY LibraryAssumption DEF CellDatasets
            <4> QED
                BY <1>2, <2>3, <3>2, <4>2, <4>3 DEF Tallied
        <3> QED
            BY <3>1, <3>2
    <2> QED
        BY <1>4, <2>1, <2>5, <2>6, <2>7, <2>8 DEF Brings
<1> QED
    BY <1>2, <1>3, <1>4 DEF StatsInv, Brings

LEMMA CellsAreDatasets == CellDatasets \subseteq Datasets /\ Cell \in Seq(CellDatasets)
BY LibraryAssumption DEF CellDatasets

(* Where no visitor begins a scan, nobody comes to be beside another.       *)
LEMMA AloneStays ==
    ASSUME ColumnInv, Alone, NEW v \in Visitors, UNCHANGED pc, NEW stop, NEW got, NEW rest,
           Go(v, stop, got, rest), Scans(v) \/ stop \notin {"register", "stats", "commit"}
    PROVE  Alone'
<1>1. \A u \in Visitors : Scans(u)' => Scans(u)
    BY DEF Go, Scans, ColumnInv, VisitsFit
<1>2. \A r \in Reqs : Busy(r)' = Busy(r)
    BY DEF Busy
<1> QED
    BY <1>1, <1>2 DEF Alone

(* What a scan counts before it begins is exact, if nobody else is at work. *)
LEMMA ScanIsExact ==
    ASSUME Kept(db), NEW d \in Datasets, \A r \in Reqs : ~Counting(r), AnyGraded(db.stats[d]) \/ Whole(d)
    PROVE  Exact(db.notes[d], Scanned(d)) \/ Frozen(d)
<1>1. Exact(db.notes[d], db.stats[d]) \/ Frozen(d)
    BY DEF Kept
<1>2. CASE AnyGraded(db.stats[d])
    BY <1>1, <1>2 DEF Scanned
<1>3. CASE ~AnyGraded(db.stats[d])
    BY <1>1, <1>3 DEF Exact
<1> QED
    BY <1>2, <1>3

LEMMA StatsScanned ==
    ASSUME LocalInv, ColumnInv, StatsInv, NEW v \in Visitors, Scan(v)
    PROVE  \E stop, got, rest : Brings(v, stop, got, rest)
<1>1. UNCHANGED <<db, file, pc, my>> /\ Asks(v, "scan") /\ CellDatasets \subseteq Datasets
      /\ apart' = (apart /\ Cardinality(InFlight') <= 1)
    BY CellsAreDatasets DEF Scan, Among, store
<1>2. CASE Done(v, "error", None)
    <2>1. Brings(v, "error", None, {})
        BY <1>1, <1>2, FewAreAlone DEF Brings, Done, StatsInv
    <2> QED
        BY <2>1
<1>3. CASE ~Done(v, "error", None)
    <2>1. PICK got : got = [d \in CellDatasets |-> Scanned(d)]
        OBVIOUS
    <2>2. PICK stop \in {"commit", "register"} :
             Go(v, stop, got, Cell) /\ (stop = "commit" \/ Cell # <<>>)
        BY <1>3, <2>1 DEF Scan, CellDatasets
    <2>3. \A d \in CellDatasets : AnyGraded(db.stats[d]) \/ Whole(d)
        BY <1>3 DEF Scan, CellDatasets
    <2>4. Scans(v)'
        BY <2>2 DEF Scans, Go, ColumnInv, VisitsFit
    <2>5. ASSUME apart', ~Failed, NEW d \in CellDatasets PROVE Exact(db'.notes[d], got[d]) \/ Frozen(d)'
        <3>1. Alone' /\ apart
            BY <1>1, <2>5, FewAreAlone
        <3>2. \A r \in Reqs : ~Counting(r)
            BY <1>1, <2>4, <3>1 DEF Alone, Counting, Busy, Ended
        <3>3. Exact(db.notes[d], Scanned(d)) \/ Frozen(d)
            BY <1>1, <2>3, <2>5, <3>1, <3>2, ScanIsExact DEF StatsInv
        <3>4. Frozen(d) => Frozen(d)'
            BY <1>1, FrozenVisited DEF StatsInv, Visit
        <3> QED
            BY <1>1, <2>1, <3>3, <3>4
    <2>6. Brings(v, stop, got, Cell)
        BY <1>1, <2>2, <2>5, FewAreAlone, CellsAreDatasets DEF Brings, StatsInv
    <2> QED
        BY <2>6
<1> QED
    BY <1>2, <1>3

LEMMA StatsGoOn ==
    ASSUME LocalInv, ColumnInv, StatsInv, NEW v \in Visitors, ScanRow(v) \/ ScanStats(v) \/ ScanCommit(v)
    PROVE  Filed(db)' /\ \E stop, got, rest : Brings(v, stop, got, rest)
<1>1. /\ UNCHANGED <<file, pc, my, apart>> /\ Scans(v) /\ CellDatasets \subseteq Datasets
      /\ DOMAIN file = AllFiles /\ todo[v] \in Seq(CellDatasets) /\ Visit(v)
    BY CellsAreDatasets DEF ScanRow, ScanStats, ScanCommit, Among, Scans, StatsInv, Visit
<1>2. \A d \in Datasets : Frozen(d) => Frozen(d)'
    BY <1>1, FrozenVisited DEF StatsInv
<1>3. PICK b : b = db'
    OBVIOUS
<1>4. apart /\ ~Failed => Alone /\ Tallied(v)
    BY <1>1 DEF StatsInv
<1>5. CASE ScanRow(v)
    <2>1. Go(v, "stats", seen[v], todo[v]) /\ todo[v] # <<>>
        BY <1>5 DEF ScanRow, StatsInv
    <2>2. PICK x : b = [db EXCEPT !.reg = @ \cup x]
        BY <1>3, <1>5 DEF ScanRow
    <2>3. Filed(b) /\ b.notes = db.notes /\ b.stats = db.stats
        BY <2>2 DEF Filed, Shaped, StatsInv
    <2>4. Brings(v, "stats", seen[v], todo[v])
        BY <1>1, <1>2, <1>3, <1>4, <2>1, <2>3, AloneStays DEF Brings, Tallied
    <2> QED
        BY <1>3, <2>3, <2>4 DEF Filed, Shaped
<1>6. CASE ScanStats(v)
    <2>1. todo[v] # <<>>
        BY <1>6 DEF ScanStats, StatsInv
    <2>2. PICK d \in CellDatasets : d = Head(todo[v])
        BY <1>1, <2>1
    <2>3. PICK rest \in Seq(CellDatasets) : rest = Tail(todo[v])
        <3>1. PICK s \in Seq(CellDatasets) : s = todo[v]
            BY <1>1
        <3>2. Tail(s) \in Seq(CellDatasets)
            BY <2>1, <3>1
        <3> QED
            BY <3>1, <3>2
    <2>4. PICK stop : stop = (IF rest = <<>> THEN "commit" ELSE "register")
        OBVIOUS
    <2>5. Go(v, stop, seen[v], rest)
        BY <1>6, <2>3, <2>4 DEF ScanStats
    <2>6. b = [db EXCEPT !.stats[d] = seen[v][d]]
        BY <1>3, <1>6, <2>2 DEF ScanStats
    <2>7. Filed(b) /\ b.notes = db.notes
          /\ \A x \in Datasets : b.stats[x] = IF x = d THEN seen[v][d] ELSE db.stats[x]
        BY <2>6 DEF Filed, Shaped, StatsInv
    <2>8. Brings(v, stop, seen[v], rest)
        BY <1>1, <1>2, <1>3, <1>4, <2>4, <2>5, <2>7, AloneStays DEF Brings, Tallied
    <2> QED
        BY <1>3, <2>7, <2>8 DEF Filed, Shaped
<1>7. CASE ScanCommit(v)
    <2>1. Go(v, "ok", seen[v], {}) /\ UNCHANGED db
        BY <1>7 DEF ScanCommit, Done
    <2>2. Brings(v, "ok", seen[v], {})
        BY <1>1, <1>4, <2>1, AloneStays DEF Brings
    <2> QED
        BY <2>1, <2>2 DEF StatsInv, Filed, Shaped
<1> QED
    BY <1>5, <1>6, <1>7

(* Who fetches a dataset answers at once; and what he migrates he counts,   *)
(* unless a table is torn.                                                  *)
LEMMA FetchIsExact ==
    ASSUME Filed(db), NEW d \in Datasets
    PROVE  /\ Filed(Fetched(d))
           /\ \A x \in Datasets : x # d \/ ~Migrating(d) =>
                 Fetched(d).notes[x] = db.notes[x] /\ Fetched(d).stats[x] = db.stats[x]
           /\ Migrating(d) /\ Whole(d) => Exact(Fetched(d).notes[d], Fetched(d).stats[d])
<1>1. PICK legacy : legacy = [e \in DOMAIN Sidecar[d] |->
                        [grade |-> Sidecar[d][e].grade, tags |-> Sidecar[d][e].tags, reason |-> None]]
    OBVIOUS
<1>2. PICK counts : counts = CountsOf(legacy)
    OBVIOUS
<1>3. PICK b : b = Fetched(d)
    OBVIOUS
<1>4. PICK registered : registered = [db EXCEPT !.reg = @ \cup {d}]
    OBVIOUS
<1>5. Filed(registered) /\ registered.notes = db.notes /\ registered.stats = db.stats
    BY <1>4 DEF Filed, Shaped
<1>6. CASE ~Migrating(d)
    <2>1. b = registered
        BY <1>3, <1>4, <1>6 DEF Fetched
    <2> QED
        BY <1>3, <1>5, <1>6, <2>1
<1>7. CASE Migrating(d) /\ Whole(d)
    <2>1. b = [registered EXCEPT !.notes[d] = legacy, !.stats[d] = counts]
        BY <1>1, <1>2, <1>3, <1>4, <1>7 DEF Fetched
    <2>2. /\ Filed(b) /\ b.notes[d] = legacy /\ b.stats[d] = counts
          /\ \A x \in Datasets : x # d => b.notes[x] = db.notes[x] /\ b.stats[x] = db.stats[x]
        BY <1>5, <2>1 DEF Filed, Shaped
    <2> QED
        BY <1>2, <1>3, <1>7, <2>2 DEF Exact
<1>8. CASE Migrating(d) /\ ~Whole(d)
    <2>1. b = [registered EXCEPT !.notes[d] = legacy]
        BY <1>1, <1>3, <1>4, <1>8 DEF Fetched
    <2>2. /\ Filed(b)
          /\ \A x \in Datasets : x # d => b.notes[x] = db.notes[x] /\ b.stats[x] = db.stats[x]
        BY <1>5, <2>1 DEF Filed, Shaped
    <2> QED
        BY <1>3, <1>8, <2>2
<1> QED
    BY <1>6, <1>7, <1>8

LEMMA TornAlone ==
    ASSUME InFlight = {}, NEW d \in Datasets, ~Whole(d)
    PROVE  Frozen(d)
<1>1. PICK f \in Files(d) : file[f] = Torn
    BY DEF Whole
<1>2. (\A r \in Reqs : ~HasTable(r)) /\ \A v \in Visitors : at[v] # "write"
    BY DEF InFlight, HasTable, Ended
<1> QED
    BY <1>1, <1>2 DEF Frozen, FrozenTable

LEMMA StatsFetched ==
    ASSUME LocalInv, ColumnInv, StatsInv, NEW v \in Visitors, Chart(v) \/ Export(v)
    PROVE  Filed(db)' /\ \E stop, got, rest : Brings(v, stop, got, rest)
<1>1. UNCHANGED <<file, pc, my>> /\ Visit(v) /\ at[v] = "new" /\ DOMAIN file = AllFiles /\ Filed(db)
    BY DEF Chart, Export, Among, Asks, memory, StatsInv, Visit
<1>2. PICK stop \in {"ok", "error"} : \E answer : Go(v, stop, answer, {})
    BY DEF Chart, Export, Done
<1> PICK got : Go(v, stop, got, {})
    BY <1>2
<1>3. apart /\ ~Failed => Alone'
    BY <1>1, <1>2, AloneStays DEF StatsInv
<1>4. CASE UNCHANGED <<store, apart>>
    <2>1. Brings(v, stop, got, {})
        BY <1>1, <1>2, <1>3, <1>4 DEF Brings, store
    <2> QED
        BY <1>1, <1>4, <2>1 DEF store, Filed, Shaped
<1>5. CASE ~UNCHANGED <<store, apart>>
    <2>1. PICK d \in Datasets : Fetch(d)
        <3>1. Chart(v) => want[v].dataset \in Datasets
            BY LibraryAssumption DEF Chart, Asks, ColumnInv, VisitsFit, Visits
        <3>2. Export(v) => loaded = None \/ loaded \in Datasets
            BY DEF LocalInv
        <3> QED
            BY <1>5, <3>1, <3>2 DEF Chart, Export
    <2>2. PICK b : b = Fetched(d)
        OBVIOUS
    <2>3. db' = b /\ apart' = (apart /\ (Migrating(d) => InFlight = {}))
        BY <2>1, <2>2 DEF Fetch
    <2>4. /\ Filed(b)
          /\ \A x \in Datasets : x # d \/ ~Migrating(d) =>
                b.notes[x] = db.notes[x] /\ b.stats[x] = db.stats[x]
          /\ Migrating(d) /\ Whole(d) => Exact(b.notes[d], b.stats[d])
        BY <1>1, <2>2, FetchIsExact
    <2>5. InFlight = {} /\ ~Whole(d) => Frozen(d)'
        BY <1>1, TornAlone, FrozenVisited
    <2>6. ~Migrating(d) => b.notes = db.notes
        BY <1>1, <2>2, FetchKeeps DEF Filed
    <2>7. ASSUME apart', ~Failed
          PROVE  /\ Alone'
                 /\ db'.notes = db.notes \/ InFlight = {}
                 /\ \A x \in Datasets : \/ db'.notes[x] = db.notes[x] /\ db'.stats[x] = db.stats[x]
                                        \/ Exact(db'.notes[x], db'.stats[x]) \/ Frozen(x)'
        BY <1>3, <2>3, <2>4, <2>5, <2>6, <2>7
    <2>8. Brings(v, stop, got, {})
        BY <1>1, <1>2, <2>3, <2>7 DEF Brings
    <2> QED
        BY <2>3, <2>4, <2>8 DEF Filed, Shaped
<1> QED
    BY <1>4, <1>5

LEMMA StatsVisited ==
    ASSUME LocalInv, ColumnInv, StatsInv, NEW v \in Visitors, Visit(v)
    PROVE  StatsInv'
<1>1. UNCHANGED <<pc, my>> /\ DOMAIN file = AllFiles /\ Filed(db) /\ Filed(disk)
    BY VisitsLeave DEF StatsInv
<1>2. disk' = disk \/ disk' = db'
    BY <1>1, VisitorsGrow DEF Filed
<1>3. ASSUME Filed(db)' PROVE Filed(disk)'
    BY <1>1, <1>2, <1>3 DEF Filed, Shaped
<1>4. ASSUME NEW stop \in {"ok", "error", "read", "write"}, NEW got, NEW rest, Go(v, stop, got, rest),
             UNCHANGED <<store, apart>>, DOMAIN file' = AllFiles
      PROVE  StatsInv'
    <2>1. apart /\ ~Failed => Alone'
        BY <1>1, <1>4, AloneStays DEF StatsInv
    <2>2. Brings(v, stop, got, rest)
        BY <1>4, <2>1 DEF Brings, store
    <2>3. Filed(db)'
        BY <1>1, <1>4 DEF Filed, Shaped, store
    <2> QED
        BY <1>2, <1>3, <2>2, <2>3, StatsBrought
<1>5. CASE Scan(v)
    <2>1. Filed(db)'
        BY <1>1, <1>5 DEF Scan, store, Filed, Shaped
    <2> QED
        BY <1>2, <1>3, <1>5, <2>1, StatsScanned, StatsBrought
<1>6. CASE ScanRow(v) \/ ScanStats(v) \/ ScanCommit(v)
    BY <1>2, <1>3, <1>6, StatsGoOn, StatsBrought
<1>7. CASE Chart(v) \/ Export(v)
    BY <1>2, <1>3, <1>7, StatsFetched, StatsBrought
<1>8. CASE Column(v) \/ ColumnRead(v) \/ Task(v)
    <2>1. UNCHANGED <<file, store, apart>>
        BY <1>8 DEF Column, ColumnRead, Task, ColumnRest
    <2>2. \E stop \in {"ok", "error", "read", "write"} : \E got, rest : Go(v, stop, got, rest)
        BY <1>8 DEF Column, ColumnRead, Task, Done
    <2> QED
        BY <1>1, <1>4, <2>1, <2>2
<1>9. CASE ColumnWrite(v) \/ ColumnRaises(v)
    <2>1. UNCHANGED <<store, apart>> /\ DOMAIN file' = AllFiles
        BY <1>1, <1>9 DEF ColumnWrite, ColumnRaises, ColumnRest
    <2>2. \E stop \in {"ok", "error", "read", "write"} : \E got, rest : Go(v, stop, got, rest)
        BY <1>9 DEF ColumnWrite, ColumnRaises, Done
    <2> QED
        BY <1>4, <2>1, <2>2
<1> QED
    BY <1>5, <1>6, <1>7, <1>8, <1>9 DEF Visit

LEMMA StatsBooted == ASSUME StatsInv, Booting PROVE StatsInv'
<1>1. UNCHANGED <<pc, my, file, at, todo, seen, apart>> /\ (disk' = disk \/ disk' = db')
    BY BootingLeaves DEF Booting, Boot, visits
<1>2. PICK b : b = db'
    OBVIOUS
<1>3. b = db \/ b = [db EXCEPT !.stamp = @ \cup db.reg]
    BY <1>2 DEF Booting, Boot
<1>4. Filed(b) /\ b.notes = db.notes /\ b.stats = db.stats
    BY <1>3 DEF StatsInv, Filed, Shaped
<1>5. Filed(db)' /\ Filed(disk)'
    BY <1>1, <1>2, <1>4 DEF StatsInv, Filed, Shaped
<1>6. Failed' = Failed /\ Alone' = Alone /\ \A d : Frozen(d)' = Frozen(d)
    BY <1>1 DEF Failed, Alone, Busy, Scans, Frozen, FrozenTable, HasTable
<1>7. (Kept(db) => Kept(db)') /\ (Kept(db) /\ Kept(disk) => Kept(disk)')
    BY <1>1, <1>2, <1>4, <1>6 DEF Kept, Counting
<1>8. \A v \in Visitors : Tallied(v)' = Tallied(v)
    BY <1>1, <1>2, <1>4, <1>6 DEF Tallied
<1> QED
    BY <1>1, <1>2, <1>4, <1>5, <1>6, <1>7, <1>8 DEF StatsInv, Scans

(* A crash in the middle of a request fails it.                             *)
LEMMA StatsCrashed == ASSUME LocalInv, ColumnInv, StatsInv, ServerCrash, Crash PROVE StatsInv'
<1>1. /\ UNCHANGED <<file, disk, todo, seen, apart>> /\ db' = disk /\ DOMAIN at = Visitors
      /\ at' = [v \in Visitors |-> IF at[v] \in Ended \cup {"new"} THEN at[v] ELSE "lost"]
      /\ pc' = [r \in Reqs |-> IF pc[r] \in Ended \cup {"new"} THEN pc[r] ELSE "lost"]
    BY DEF ServerCrash, Crash, ColumnInv, VisitsFit
<1>2. Filed(db)' /\ Filed(disk)'
    BY <1>1 DEF StatsInv, Filed, Shaped
<1>3. \A v \in Visitors : at'[v] \in Ended \cup {"new"} /\ ~Scans(v)'
    BY <1>1 DEF Ended, Scans
<1>4. ASSUME apart', ~Failed'
      PROVE  /\ Alone' /\ Kept(db)' /\ Kept(disk)'
             /\ \A r \in Reqs : pc'[r] # "stats"
    <2>1. \A r \in Reqs : pc'[r] = pc[r] /\ pc[r] \in Ended \cup {"new"}
        BY <1>1, <1>4 DEF Failed
    <2>2. apart /\ ~Failed
        BY <1>1, <1>4, <2>1 DEF Failed
    <2>3. \A r \in Reqs : ~Counting(r) /\ ~Busy(r)' /\ ~HasTable(r)' /\ pc'[r] # "stats"
        BY <2>1 DEF Counting, Busy, HasTable, Ended
    <2>4. \A d : Frozen(d) => Frozen(d)'
        BY <1>1, <1>3, <2>3 DEF Frozen, FrozenTable, Ended
    <2>5. Kept(db)' /\ Kept(disk)'
        BY <1>1, <2>2, <2>3, <2>4 DEF Kept, StatsInv
    <2> QED
        BY <1>3, <2>3, <2>5 DEF Alone
<1> QED
    BY <1>1, <1>2, <1>3, <1>4 DEF StatsInv, Ended

LEMMA StatsServes == LocalInv /\ ColumnInv /\ StatsInv /\ [LibraryNext]_libraryVars => StatsInv'
<1> SUFFICES ASSUME LocalInv, ColumnInv, StatsInv, [LibraryNext]_libraryVars PROVE StatsInv'
    OBVIOUS
<1>1. CASE UNCHANGED libraryVars
    BY <1>1 DEF libraryVars, vars, store, memory, tables, visits, StatsInv, Filed, Shaped, Failed, Alone, Busy,
        Scans, Kept, Counting, Frozen, FrozenTable, HasTable, Tallied
<1> QED
    BY <1>1, StatsAnnotated, StatsVisited, StatsBooted, StatsCrashed, ServerKinds

(* An empty database has nothing to count.                                  *)
LEMMA EmptyIsExact == LibInit => StatsAreExact
<1> SUFFICES ASSUME LibInit, NEW d \in Datasets PROVE ~AnyGraded(CountsOf(db.notes[d]))
    BY DEF StatsAreExact
<1>1. PICK grade : grade = GradesIn(db.notes[d])
    OBVIOUS
<1>2. DOMAIN grade = {}
    BY <1>1 DEF LibInit, Init, EmptyNotes, GradesIn
<1>3. ASSUME NEW g \in Grades PROVE Counts(grade)[g] = 0
    <2>1. {e \in DOMAIN grade : grade[e] = g} = {}
        BY <1>2
    <2> QED
        BY <2>1, FS_EmptySet DEF Counts
<1> QED
    BY <1>1, <1>3 DEF AnyGraded, CountsOf

LEMMA StatsInit == (LibInit \/ UpgradeInit) /\ StatsAreExact => StatsInv
<1> SUFFICES ASSUME LibInit \/ UpgradeInit, StatsAreExact PROVE StatsInv
    OBVIOUS
<1>1. /\ pc = [r \in Reqs |-> "new"] /\ at = [v \in Visitors |-> "new"] /\ disk = db
      /\ DOMAIN file = AllFiles /\ DOMAIN seen = Visitors
    BY DEF LibInit, UpgradeInit, Idle, Init, LibraryInit
<1>2. Filed(db) /\ Filed(disk)
    BY <1>1 DEF LibInit, UpgradeInit, Init, Filed, Shaped
<1>3. InFlight = {} /\ ~Failed /\ Alone /\ \A v \in Visitors : ~Scans(v)
    BY <1>1 DEF InFlight, Failed, Alone, Busy, Scans
<1>4. apart => Kept(db)
    BY <1>3, TornAlone DEF StatsAreExact, Kept, Exact
<1> QED
    BY <1>1, <1>2, <1>3, <1>4 DEF StatsInv

(* If the statistics are exact when the server starts, then whoever writes  *)
(* notes is still to write what he counts, and scans bring what is exact.   *)
THEOREM StatsInvariance == LibrarySpec /\ StatsAreExact => []StatsInv
BY StatsInit, StatsServes, LocalServed, ColumnInvariance, PTL DEF LibrarySpec

LEMMA StatsShown == StatsInv => StatsAreExact
<1> SUFFICES ASSUME StatsInv, apart, InFlight = {}, ~Failed, NEW d \in Datasets, Whole(d)
             PROVE  Exact(db.notes[d], db.stats[d])
    BY DEF StatsAreExact, Exact
<1>1. \A r \in Reqs : ~Counting(r)
    BY DEF InFlight, Counting, Ended
<1>2. ~Frozen(d)
    BY DEF Whole, Frozen, FrozenTable
<1> QED
    BY <1>1, <1>2 DEF StatsInv, Kept

(* The statistics that the lists of datasets show stay those of the grades, *)
(* from a database where they are; an empty one is such a database.         *)
THEOREM StatsStayExact == LibrarySpec /\ StatsAreExact => []StatsAreExact
BY StatsInvariance, StatsShown, PTL

(* They are exact from an empty database on, whatever is asked for.         *)
THEOREM StatsExactFromEmpty == LibInit /\ [][LibraryNext]_libraryVars => []StatsAreExact
BY EmptyIsExact, StatsStayExact, PTL DEF LibrarySpec

----------------------------------------------------------------------------
(* Types.  What a visitor has in hand: a scan has counted the datasets it   *)
(* has left to write, and a column has the rows of the table it is at.      *)
VisitTyped(v) ==
    /\ at[v] \in {"read", "write"} <=> loop = v
    /\ at[v] = "write" => DOMAIN seen[v] = RowsOf(First(todo[v])) /\ TableTyped(seen[v])
    /\ Scans(v) => todo[v] \in Seq(CellDatasets) /\ seen[v] \in [CellDatasets -> [Grades -> Nat]]
    /\ at[v] \in {"register", "stats"} => todo[v] # <<>>

TextTyped ==
    /\ text \in [Datasets -> Visitors \cup {None}]
    /\ words \in Visitors \cup {None} /\ shown \in Visitors \cup {None}
    /\ worded \in [Reqs -> Visitors \cup {None}]

EarlyTyped == early # None => early \in [DOMAIN early -> Grades \cup {None}]

ColumnTyped == cols \subseteq AllFiles /\ spoiled \subseteq AllFiles /\ held \in [Reqs -> BOOLEAN]

HistoryTyped ==
    old \subseteq Datasets /\ late \in BOOLEAN /\ crossed \in BOOLEAN /\ apart \in BOOLEAN

VisitorsTyped ==
    /\ DOMAIN seen = Visitors /\ at \in [Visitors -> Stops] /\ loop \in Visitors \cup {None}
    /\ \A v \in Visitors : VisitTyped(v)

ServerTyped ==
    /\ RouteInv /\ TablesInv /\ TypedInv
    /\ VisitorsTyped /\ TextTyped /\ EarlyTyped /\ ColumnTyped /\ HistoryTyped

LEMMA NobodyIsNone == None \notin Visitors
BY LibraryAssumption

(* Rows that are counted: there are finitely many.                          *)
LEMMA CountsTyped ==
    ASSUME NEW grade, IsFiniteSet(DOMAIN grade)
    PROVE  Counts(grade) \in [Grades \cup {None} -> Nat]
<1>1. ASSUME NEW g PROVE Cardinality({e \in DOMAIN grade : grade[e] = g}) \in Nat
    <2>1. IsFiniteSet({e \in DOMAIN grade : grade[e] = g})
        BY FS_Subset
    <2> QED
        BY <2>1, FS_CardinalityType
<1> QED
    BY <1>1 DEF Counts

LEMMA RowsTyped ==
    ASSUME TablesInv, TypedInv, NEW d \in Datasets, Whole(d)
    PROVE  Rows(d) \in [Indices(d) -> Grades \cup {None}]
<1>1. ASSUME NEW e \in Indices(d) PROVE file[<<d, FileOf[d][e]>>][e].grade \in Grades \cup {None}
    <2>1. PICK f : f = <<d, FileOf[d][e]>>
        OBVIOUS
    <2>2. f \in Files(d) /\ f \in AllFiles /\ f[1] = d
        BY <2>1 DEF Files, AllFiles
    <2>3. e \in RowsOf(f)
        BY <2>1, <2>2 DEF RowsOf
    <2>4. e \in DOMAIN file[f] /\ TableTyped(file[f])
        BY <2>2, <2>3 DEF TablesInv, TypedInv, FilesTyped, Whole
    <2>5. file[f][e] \in Row
        BY <2>4 DEF TableTyped
    <2> QED
        BY <2>1, <2>5 DEF Row
<1> QED
    BY <1>1 DEF Rows

LEMMA ScannedTyped ==
    ASSUME TypedInv, NEW d \in Datasets
    PROVE  Scanned(d) \in [Grades -> Nat]
<1>1. CASE AnyGraded(db.stats[d])
    BY <1>1 DEF Scanned, TypedInv, DataTyped
<1>2. CASE ~AnyGraded(db.stats[d])
    <2>1. PICK grade : grade = [e \in DOMAIN Rows(d) |->
                            IF e \in DOMAIN Sidecar[d] /\ Sidecar[d][e].grade # None
                            THEN Sidecar[d][e].grade ELSE Rows(d)[e]]
        OBVIOUS
    <2>2. DOMAIN grade = Indices(d) /\ IsFiniteSet(DOMAIN grade)
        BY <2>1, LibraryAssumption DEF Rows
    <2>3. Counts(grade) \in [Grades \cup {None} -> Nat]
        BY <2>2, CountsTyped
    <2>4. Scanned(d) = [g \in Grades |-> Counts(grade)[g]]
        BY <1>2, <2>1 DEF Scanned
    <2> QED
        BY <2>3, <2>4
<1> QED
    BY <1>1, <1>2

LEMMA LegacyTyped ==
    ASSUME NEW d \in Datasets, NEW legacy,
           legacy = [e \in DOMAIN Sidecar[d] |->
               [grade |-> Sidecar[d][e].grade, tags |-> Sidecar[d][e].tags, reason |-> None]]
    PROVE  Notes(legacy) /\ CountsOf(legacy) \in [Grades -> Nat]
<1>1. IsFiniteSet(DOMAIN legacy)
    BY AnnotationsAssumption, LibraryAssumption, FS_Subset
<1>2. \A e \in DOMAIN legacy : legacy[e] \in Note
    BY AnnotationsAssumption DEF Row, Note
<1>3. PICK grade : grade = GradesIn(legacy)
    OBVIOUS
<1>4. IsFiniteSet(DOMAIN grade)
    BY <1>1, <1>3 DEF GradesIn
<1>5. Counts(grade) \in [Grades \cup {None} -> Nat]
    BY <1>4, CountsTyped
<1> QED
    BY <1>1, <1>2, <1>3, <1>5 DEF Notes, CountsOf

LEMMA FetchedTyped ==
    ASSUME DataTyped(db), NEW d \in Datasets
    PROVE  DataTyped(Fetched(d)) /\ db.reg \subseteq Fetched(d).reg
<1>1. PICK legacy : legacy = [e \in DOMAIN Sidecar[d] |->
               [grade |-> Sidecar[d][e].grade, tags |-> Sidecar[d][e].tags, reason |-> None]]
    OBVIOUS
<1>2. Notes(legacy) /\ CountsOf(legacy) \in [Grades -> Nat]
    BY <1>1, LegacyTyped
<1>3. PICK registered : registered = [db EXCEPT !.reg = @ \cup {d}]
    OBVIOUS
<1>4. DataTyped(registered) /\ db.reg \subseteq registered.reg
    BY <1>3 DEF DataTyped, Shaped
<1>5. PICK b : b = Fetched(d)
    OBVIOUS
<1>6. PICK counts : counts = CountsOf(legacy)
    OBVIOUS
<1>7. \/ b = registered \/ b = [registered EXCEPT !.notes[d] = legacy]
      \/ b = [registered EXCEPT !.notes[d] = legacy, !.stats[d] = counts]
    BY <1>1, <1>3, <1>5, <1>6 DEF Fetched
<1>8. b.reg = registered.reg /\ b.stamp = registered.stamp /\ Shaped(b)
    BY <1>4, <1>7 DEF DataTyped, Shaped
<1>9. ASSUME NEW x \in Datasets PROVE b.notes[x] = registered.notes[x] \/ b.notes[x] = legacy
    <2>1. CASE b = registered
        BY <2>1
    <2>2. CASE b.notes = [registered.notes EXCEPT ![d] = legacy]
        BY <1>4, <2>2 DEF DataTyped, Shaped
    <2>3. b = registered \/ b.notes = [registered.notes EXCEPT ![d] = legacy]
        BY <1>4, <1>7 DEF DataTyped, Shaped
    <2> QED
        BY <2>1, <2>2, <2>3
<1>10. b.stats \in [Datasets -> [Grades -> Nat]]
    <2>1. registered.stats \in [Datasets -> [Grades -> Nat]] /\ counts \in [Grades -> Nat]
        BY <1>2, <1>4, <1>6 DEF DataTyped
    <2>2. DOMAIN registered = {"reg", "stamp", "notes", "stats"}
        BY <1>4 DEF DataTyped, Shaped
    <2>3. b.stats = registered.stats \/ b.stats = [registered.stats EXCEPT ![d] = counts]
        BY <1>7, <2>2
    <2> QED
        BY <2>1, <2>3
<1>11. \A x \in Datasets : Notes(b.notes[x])
    BY <1>2, <1>4, <1>9 DEF DataTyped
<1>12. DataTyped(b) /\ db.reg \subseteq b.reg
    BY <1>4, <1>8, <1>10, <1>11 DEF DataTyped
<1> QED
    BY <1>5, <1>12

----------------------------------------------------------------------------
LEMMA RouteStays ==
    RouteInv /\ UNCHANGED <<loaded, map, gen, locks, pc, my, ask, calm>> => RouteInv'
BY DEF RouteInv, Route, HasLock, OneEach, Busy, Annotator

LEMMA HandsStay ==
    ASSUME TypedInv, UNCHANGED <<loaded, map, gen, cache, locks, pc, my, ask, aim, calm, unread>>,
           DataTyped(db)', DataTyped(disk)', db.reg \subseteq db'.reg, FilesTyped', ChartTyped'
    PROVE  TypedInv'
<1>1. \A r \in Reqs : HandTyped(r)'
    BY DEF TypedInv, HandTyped, Busy, StageFit, Target, StepFit, Standing
<1>2. GenTyped' /\ ShownTyped'
    BY DEF TypedInv, GenTyped, Begun, ShownTyped
<1>3. UnreadTyped'
    BY DEF TypedInv, UnreadTyped
<1> QED
    BY <1>1, <1>2, <1>3 DEF TypedInv

(* A visitor that goes on to a stop with what fits it; the others stay.     *)
LEMMA VisitorGoes ==
    ASSUME ColumnInv, VisitorsTyped, NEW v \in Visitors, NEW stop \in Stops, NEW got, NEW rest,
           Go(v, stop, got, rest),
           loop' = v \/ loop' = loop \/ (loop = v /\ loop' = None),
           loop' = v <=> stop \in {"read", "write"},
           loop' = v => loop \in {v, None},
           stop = "write" => DOMAIN got = RowsOf(First(rest)) /\ TableTyped(got),
           stop \in {"register", "stats", "commit"} =>
               rest \in Seq(CellDatasets) /\ got \in [CellDatasets -> [Grades -> Nat]],
           stop \in {"register", "stats"} => rest # <<>>
    PROVE  VisitorsTyped'
<1>1. /\ at'[v] = stop /\ seen'[v] = got /\ todo'[v] = rest /\ DOMAIN seen' = Visitors
      /\ \A u \in Visitors : u # v => at'[u] = at[u] /\ seen'[u] = seen[u] /\ todo'[u] = todo[u]
      /\ at' \in [Visitors -> Stops]
    BY DEF Go, ColumnInv, VisitsFit, VisitorsTyped
<1>2. VisitTyped(v)'
    BY <1>1 DEF VisitTyped, Scans
<1>3. ASSUME NEW u \in Visitors, u # v PROVE VisitTyped(u)'
    <2>1. loop' = u <=> loop = u
        BY <1>3, NobodyIsNone
    <2> QED
        BY <1>1, <1>3, <2>1 DEF VisitorsTyped, VisitTyped, Scans
<1>4. loop' \in Visitors \cup {None}
    BY DEF VisitorsTyped
<1> QED
    BY <1>1, <1>2, <1>3, <1>4 DEF VisitorsTyped

(* What a visitor writes into the database is typed.                        *)
LEMMA VisitsStoreTyped ==
    ASSUME LocalInv, ColumnInv, ServerTyped, NEW v \in Visitors, Visit(v)
    PROVE  DataTyped(db)' /\ DataTyped(disk)' /\ db.reg \subseteq db'.reg
<1>1. DataTyped(db) /\ DataTyped(disk) /\ VisitTyped(v)
    BY DEF ServerTyped, TypedInv, VisitorsTyped
<1>2. ASSUME NEW b, DataTyped(b), db.reg \subseteq b.reg, db' = b, disk' = disk \/ disk' = db'
      PROVE  DataTyped(db)' /\ DataTyped(disk)' /\ db.reg \subseteq db'.reg
    BY <1>1, <1>2 DEF DataTyped, Notes, Shaped
<1>3. CASE UNCHANGED store
    BY <1>1, <1>2, <1>3 DEF store
<1>4. CASE ScanRow(v) \/ ScanStats(v)
    <2>1. /\ at[v] \in {"register", "stats"} /\ disk' = disk
          /\ Scans(v) /\ todo[v] \in Seq(CellDatasets) \ {<<>>}
          /\ seen[v] \in [CellDatasets -> [Grades -> Nat]]
        BY <1>1, <1>4 DEF ScanRow, ScanStats, VisitTyped, Scans
    <2>2. PICK s \in Seq(CellDatasets) : s = todo[v] /\ s # <<>>
        BY <2>1
    <2>3. PICK d : d = Head(s)
        OBVIOUS
    <2>4. d \in CellDatasets /\ d \in Datasets
        BY <2>2, <2>3, CellsAreDatasets
    <2>5. PICK counts : counts = seen[v][d]
        OBVIOUS
    <2>6. counts \in [Grades -> Nat]
        BY <2>1, <2>4, <2>5
    <2>7. PICK b : b = db'
        OBVIOUS
    <2>8. CASE ScanRow(v)
        <3>1. b = [db EXCEPT !.reg = @ \cup {d}]
            BY <2>2, <2>3, <2>7, <2>8 DEF ScanRow
        <3>2. DataTyped(b) /\ db.reg \subseteq b.reg
            BY <1>1, <2>4, <3>1 DEF DataTyped, Shaped
        <3> QED
            BY <1>2, <2>1, <2>7, <3>2
    <2>9. CASE ScanStats(v)
        <3>1. b = [db EXCEPT !.stats[d] = counts]
            BY <2>2, <2>3, <2>5, <2>7, <2>9 DEF ScanStats
        <3>2. Shaped(b) /\ b.reg = db.reg /\ b.stamp = db.stamp /\ b.notes = db.notes
              /\ b.stats = [db.stats EXCEPT ![d] = counts]
            BY <1>1, <3>1 DEF DataTyped, Shaped
        <3>3. b.stats \in [Datasets -> [Grades -> Nat]]
            BY <1>1, <2>6, <3>2 DEF DataTyped
        <3>4. DataTyped(b) /\ db.reg \subseteq b.reg
            BY <1>1, <3>2, <3>3 DEF DataTyped
        <3> QED
            BY <1>2, <2>1, <2>7, <3>4
    <2> QED
        BY <1>4, <2>8, <2>9
<1>5. CASE ScanCommit(v)
    BY <1>1, <1>2, <1>5 DEF ScanCommit
<1>6. CASE \E d \in Datasets : Fetch(d)
    BY <1>1, <1>2, <1>6, FetchedTyped DEF Fetch
<1>7. Chart(v) => UNCHANGED store \/ \E d \in Datasets : Fetch(d)
    BY DEF Chart, Asks, ColumnInv, VisitsFit, Visits
<1>8. Export(v) => UNCHANGED store \/ \E d \in Datasets : Fetch(d)
    BY DEF Export, LocalInv
<1>9. Scan(v) \/ Column(v) \/ ColumnRead(v) \/ ColumnWrite(v) \/ ColumnRaises(v) \/ Task(v) => UNCHANGED store
    BY DEF Scan, Column, ColumnRead, ColumnWrite, ColumnRaises, Task, ColumnRest
<1> QED
    BY <1>3, <1>4, <1>5, <1>6, <1>7, <1>8, <1>9 DEF Visit

(* A column is written into one of its tables, with the rows that it has    *)
(* read from it.                                                            *)
LEMMA VisitsTablesTyped ==
    ASSUME LocalInv, ColumnInv, ServerTyped, NEW v \in Visitors, Visit(v)
    PROVE  TablesInv' /\ FilesTyped'
<1>1. UNCHANGED <<pc, my>> /\ TablesInv /\ FilesTyped /\ VisitTyped(v)
    BY VisitsLeave DEF ServerTyped, TypedInv, VisitorsTyped
<1>2. CASE UNCHANGED file
    BY <1>1, <1>2 DEF TablesInv, FilesTyped, Holds
<1>3. CASE ColumnWrite(v) \/ ColumnRaises(v)
    <2>1. at[v] = "write"
        BY <1>3 DEF ColumnWrite, ColumnRaises
    <2>2. PICK f, t : f = First(todo[v]) /\ file' = [file EXCEPT ![f] = t] /\ (t = Torn \/ t = seen[v])
        BY <1>3 DEF ColumnWrite, ColumnRaises
    <2>3. /\ want[v].dataset \in Datasets
          /\ todo[v] # {} /\ todo[v] \subseteq Files(want[v].dataset)
        BY <2>1 DEF ColumnInv, VisitsFit, Visits, Adding
    <2>4. f \in AllFiles
        BY <2>2, <2>3, FirstIsOne DEF AllFiles
    <2>5. t = Torn \/ (DOMAIN t = RowsOf(f) /\ TableTyped(t))
        BY <1>1, <2>1, <2>2 DEF VisitTyped
    <2>6. DOMAIN file' = AllFiles /\ \A g \in AllFiles : file'[g] = IF g = f THEN t ELSE file[g]
        BY <1>1, <2>2, <2>4 DEF TablesInv
    <2> QED
        BY <1>1, <2>5, <2>6 DEF TablesInv, FilesTyped, Holds
<1>4. UNCHANGED file \/ ColumnWrite(v) \/ ColumnRaises(v)
    BY DEF Visit, Scan, ScanRow, ScanStats, ScanCommit, Chart, Export, Column, ColumnRead, Task
<1> QED
    BY <1>2, <1>3, <1>4

LEMMA VisitsChartTyped ==
    ASSUME LocalInv, ColumnInv, ServerTyped, NEW v \in Visitors, Visit(v)
    PROVE  ChartTyped'
<1>1. CASE UNCHANGED chart
    BY <1>1 DEF ServerTyped, TypedInv, ChartTyped
<1>2. CASE Chart(v) /\ ~UNCHANGED chart
    <2>1. PICK d \in Datasets : d = want[v].dataset
        BY <1>2 DEF Chart, Asks, ColumnInv, VisitsFit, Visits
    <2>2. PICK notes : notes = db'.notes[d]
        OBVIOUS
    <2>3. PICK rows : rows = Rows(d)
        OBVIOUS
    <2>4. PICK grade : grade = Overlaid(rows, notes)
        OBVIOUS
    <2>5. chart' = Counts(grade)
        BY <1>2, <2>1, <2>2, <2>3, <2>4 DEF Chart
    <2>6. IsFiniteSet(DOMAIN notes)
        BY <2>2, VisitsStoreTyped DEF DataTyped, Notes
    <2>7. IsFiniteSet(DOMAIN rows)
        BY <2>3, LibraryAssumption DEF Rows
    <2>8. IsFiniteSet(DOMAIN grade)
        BY <2>4, <2>6, <2>7, FS_Union DEF Overlaid
    <2> QED
        BY <2>5, <2>8, CountsTyped DEF ChartTyped
<1>3. UNCHANGED chart \/ Chart(v)
    BY DEF Visit, Scan, ScanRow, ScanStats, ScanCommit, Export, Column, ColumnRead, ColumnWrite, ColumnRaises,
           Task, ColumnRest, memory, caches
<1> QED
    BY <1>1, <1>2, <1>3

LEMMA VisitsGoTyped ==
    ASSUME LocalInv, ColumnInv, ServerTyped, NEW v \in Visitors, Visit(v)
    PROVE  VisitorsTyped'
<1>1. VisitorsTyped /\ VisitTyped(v) /\ loop \in Visitors \cup {None} /\ v # None
    BY NobodyIsNone DEF ServerTyped, VisitorsTyped
<1> DEFINE Calls(stop, got, rest) ==
        /\ Go(v, stop, got, rest)
        /\ stop \in {"register", "stats", "commit"} =>
               rest \in Seq(CellDatasets) /\ got \in [CellDatasets -> [Grades -> Nat]]
        /\ stop \in {"register", "stats"} => rest # <<>>
<1>2. ASSUME NEW stop \in Stops \ {"read", "write"}, NEW got, NEW rest, Calls(stop, got, rest),
             at[v] \notin {"read", "write"}, loop' = loop
      PROVE  VisitorsTyped'
    <2>1. loop' # v
        BY <1>1, <1>2 DEF VisitTyped
    <2> QED
        BY <1>1, <1>2, <2>1, VisitorGoes
<1>3. CASE Scan(v)
    <2>1. at[v] = "new" /\ loop' = loop
        BY <1>3 DEF Scan, Asks, Elsewhere, column
    <2>2. CASE Done(v, "error", None)
        <3>1. Calls("error", None, {})
            BY <2>2 DEF Done
        <3> QED
            BY <1>2, <2>1, <3>1 DEF Stops, Ended
    <2>3. CASE ~Done(v, "error", None)
        <3>1. PICK got : got = [d \in CellDatasets |-> Scanned(d)]
            OBVIOUS
        <3>2. got \in [CellDatasets -> [Grades -> Nat]]
            BY <3>1, ScannedTyped, CellsAreDatasets DEF ServerTyped
        <3>3. PICK stop : stop = IF Cell = <<>> THEN "commit" ELSE "register"
            OBVIOUS
        <3>4. Go(v, stop, got, Cell)
            BY <1>3, <2>3, <3>1, <3>3 DEF Scan, CellDatasets
        <3>5. Calls(stop, got, Cell) /\ stop \in {"commit", "register"}
            BY <3>2, <3>3, <3>4, CellsAreDatasets
        <3> QED
            BY <1>2, <2>1, <3>5 DEF Stops
    <2> QED
        BY <2>2, <2>3
<1>4. CASE ScanRow(v) \/ ScanStats(v)
    <2>1. /\ at[v] \in {"register", "stats"} /\ loop' = loop
          /\ Scans(v) /\ seen[v] \in [CellDatasets -> [Grades -> Nat]]
        BY <1>1, <1>4 DEF ScanRow, ScanStats, VisitTyped, Scans, Elsewhere, column
    <2>2. PICK s \in Seq(CellDatasets) : s = todo[v] /\ s # <<>>
        BY <1>1, <2>1 DEF VisitTyped
    <2>3. CASE ScanRow(v)
        <3>1. Calls("stats", seen[v], s)
            BY <2>1, <2>2, <2>3 DEF ScanRow
        <3> QED
            BY <1>2, <2>1, <3>1 DEF Stops
    <2>4. CASE ScanStats(v)
        <3>0. Tail(s) \in Seq(CellDatasets)
            BY <2>2
        <3>1. PICK rest \in Seq(CellDatasets) : rest = Tail(s)
            BY <3>0
        <3>2. PICK stop : stop = IF rest = <<>> THEN "commit" ELSE "register"
            OBVIOUS
        <3>3. Go(v, stop, seen[v], rest)
            BY <2>2, <2>4, <3>1, <3>2 DEF ScanStats
        <3>4. Calls(stop, seen[v], rest) /\ stop \in {"commit", "register"}
            BY <2>1, <3>2, <3>3
        <3> QED
            BY <1>2, <2>1, <3>4 DEF Stops
    <2> QED
        BY <1>4, <2>3, <2>4
<1>5. CASE ScanCommit(v) \/ Chart(v) \/ Export(v) \/ Task(v)
    <2>1. at[v] \in {"commit", "new"} /\ loop' = loop
        BY <1>5 DEF ScanCommit, Chart, Export, Task, Asks, Elsewhere, column
    <2>2. PICK stop \in {"ok", "error"} : \E answer : Go(v, stop, answer, {})
        BY <1>5 DEF ScanCommit, Chart, Export, Task, Done
    <2>3. PICK answer : Calls(stop, answer, {})
        BY <2>2
    <2> QED
        BY <1>2, <2>1, <2>3 DEF Stops, Ended
<1>6. CASE Column(v)
    <2>1. loop = None /\ at[v] = "new"
        BY <1>6 DEF Column, Asks, Serves
    <2>2. CASE Done(v, "error", None) /\ loop' = loop
        <3>1. Calls("error", None, {})
            BY <2>2 DEF Done
        <3> QED
            BY <1>2, <2>1, <2>2, <3>1 DEF Stops, Ended
    <2>3. CASE Go(v, "read", None, Files(want[v].dataset)) /\ loop' = v
        <3>1. PICK fs : fs = Files(want[v].dataset)
            OBVIOUS
        <3>2. Go(v, "read", None, fs) /\ "read" \in Stops
            BY <2>3, <3>1 DEF Stops
        <3> QED
            BY <1>1, <2>1, <2>3, <3>2, VisitorGoes
    <2> QED
        BY <1>6, <2>2, <2>3 DEF Column
<1>7. CASE ColumnRead(v) \/ ColumnWrite(v) \/ ColumnRaises(v)
    <2>1. at[v] \in {"read", "write"} /\ loop = v
        BY <1>1, <1>7 DEF ColumnRead, ColumnWrite, ColumnRaises, VisitTyped
    <2>2. ASSUME NEW stop \in {"ok", "error"}, Go(v, stop, None, {}), loop' = None PROVE VisitorsTyped'
        <3>1. stop \in Stops /\ stop \notin {"read", "write", "register", "stats", "commit"}
            BY DEF Stops, Ended
        <3>2. loop' # v
            BY <1>1, <2>2
        <3> QED
            BY <1>1, <2>1, <2>2, <3>1, <3>2, VisitorGoes
    <2>3. CASE ColumnRead(v) /\ loop' # None
        <3>1. PICK f : f = First(todo[v])
            OBVIOUS
        <3>2. Go(v, "write", file[f], todo[v]) /\ loop' = v /\ file[f] # Torn
            BY <2>1, <2>3, <3>1 DEF ColumnRead
        <3>3. /\ want[v].dataset \in Datasets
              /\ todo[v] # {} /\ todo[v] \subseteq Files(want[v].dataset)
            BY <2>1 DEF ColumnInv, VisitsFit, Visits, Adding
        <3>4. f \in AllFiles
            BY <3>1, <3>3, FirstIsOne DEF AllFiles
        <3>5. DOMAIN file[f] = RowsOf(f) /\ TableTyped(file[f])
            BY <3>2, <3>4 DEF ServerTyped, TablesInv, TypedInv, FilesTyped
        <3> QED
            BY <1>1, <2>1, <3>1, <3>2, <3>5, VisitorGoes DEF Stops
    <2>4. CASE ColumnWrite(v) /\ loop' # None
        <3>1. PICK rest : Go(v, "read", None, rest) /\ loop' = v
            BY <2>1, <2>4 DEF ColumnWrite
        <3> QED
            BY <1>1, <2>1, <3>1, VisitorGoes DEF Stops
    <2>5. CASE loop' = None
        <3>1. \E stop \in {"ok", "error"} : Go(v, stop, None, {})
            BY <1>1, <1>7, <2>1, <2>5 DEF ColumnRead, ColumnWrite, ColumnRaises, Done
        <3> QED
            BY <2>2, <2>5, <3>1
    <2> QED
        BY <1>7, <2>3, <2>4, <2>5 DEF ColumnRaises
<1> QED
    BY <1>3, <1>4, <1>5, <1>6, <1>7 DEF Visit

LEMMA VisitsTyped ==
    ASSUME LocalInv, ColumnInv, ServerTyped, NEW v \in Visitors, Visit(v)
    PROVE  ServerTyped'
<1>1. UNCHANGED <<loaded, map, gen, cache, locks, pc, my, ask, aim, calm, unread>>
    BY VisitsLeave
<1>2. RouteInv' /\ TablesInv' /\ TypedInv' /\ VisitorsTyped'
    BY <1>1, RouteStays, HandsStay, VisitsStoreTyped, VisitsTablesTyped, VisitsChartTyped, VisitsGoTyped
       DEF ServerTyped
<1>3. EarlyTyped'
    <2>1. UNCHANGED early
        BY DEF Visit, Scan, ScanRow, ScanStats, ScanCommit, Chart, Export, Column, ColumnRead, ColumnWrite,
               ColumnRaises, Task, ColumnRest, Elsewhere
    <2> QED
        BY <2>1 DEF ServerTyped, EarlyTyped
<1>4. TextTyped'
    <2>1. CASE Task(v)
        BY <2>1 DEF Task, ServerTyped, TextTyped
    <2>2. Task(v) \/ UNCHANGED tasks
        BY DEF Visit, Scan, ScanRow, ScanStats, ScanCommit, Chart, Export, Column, ColumnRead, ColumnWrite,
               ColumnRaises, ColumnRest, Elsewhere
    <2> QED
        BY <2>1, <2>2 DEF tasks, ServerTyped, TextTyped
<1>5. ColumnTyped'
    <2>1. CASE Column(v)
        <3>1. Files(want[v].dataset) \subseteq AllFiles
            BY <2>1 DEF Column, Asks, ColumnInv, VisitsFit, Visits, AllFiles
        <3> QED
            BY <2>1, <3>1 DEF Column, ServerTyped, ColumnTyped
    <2>2. CASE ColumnWrite(v)
        <3>1. at[v] = "write" /\ UNCHANGED <<held, spoiled>> /\ cols' = cols \cup {First(todo[v])}
            BY <2>2 DEF ColumnWrite
        <3>2. /\ want[v].dataset \in Datasets
              /\ todo[v] # {} /\ todo[v] \subseteq Files(want[v].dataset)
            BY <3>1 DEF ColumnInv, VisitsFit, Visits, Adding
        <3>3. First(todo[v]) \in AllFiles
            BY <3>2, FirstIsOne DEF AllFiles
        <3> QED
            BY <3>1, <3>3 DEF ServerTyped, ColumnTyped
    <2>3. Column(v) \/ ColumnWrite(v) \/ UNCHANGED <<cols, held, spoiled>>
        BY DEF Visit, Scan, ScanRow, ScanStats, ScanCommit, Chart, Export, ColumnRead, ColumnRaises, Task,
               Elsewhere, column
    <2> QED
        BY <2>1, <2>2, <2>3 DEF ServerTyped, ColumnTyped
<1>6. HistoryTyped'
    <2>1. UNCHANGED old
        BY DEF Visit, Scan, ScanRow, ScanStats, ScanCommit, Chart, Export, Column, ColumnRead, ColumnWrite,
               ColumnRaises, Task, ColumnRest, Elsewhere
    <2>2. late' \in BOOLEAN
        <3>1. CASE Task(v)
            BY <3>1 DEF Task, ServerTyped, HistoryTyped
        <3>2. Task(v) \/ UNCHANGED late
            BY DEF Visit, Scan, ScanRow, ScanStats, ScanCommit, Chart, Export, Column, ColumnRead, ColumnWrite,
                   ColumnRaises, ColumnRest, Elsewhere, tasks
        <3> QED
            BY <3>1, <3>2 DEF ServerTyped, HistoryTyped
    <2>3. crossed' \in BOOLEAN
        <3>1. UNCHANGED crossed \/ crossed' = (crossed \/ want[v].dataset # loaded \/ \E r \in Reqs : pc[r] = "sidecar")
            BY DEF Visit, Scan, ScanRow, ScanStats, ScanCommit, Chart, Export, Column, ColumnRead, ColumnWrite,
                   ColumnRaises, Task, ColumnRest
        <3> QED
            BY <3>1 DEF ServerTyped, HistoryTyped
    <2>4. apart' \in BOOLEAN
        <3>1. \/ UNCHANGED apart \/ apart' = (apart /\ Cardinality(InFlight') <= 1)
              \/ \E d : apart' = (apart /\ (Migrating(d) => InFlight = {}))
            BY DEF Visit, Scan, ScanRow, ScanStats, ScanCommit, Chart, Export, Column, ColumnRead, ColumnWrite,
                   ColumnRaises, Task, ColumnRest, Fetch
        <3> QED
            BY <3>1 DEF ServerTyped, HistoryTyped
    <2> QED
        BY <2>1, <2>2, <2>3, <2>4 DEF ServerTyped, HistoryTyped
<1> QED
    BY <1>2, <1>3, <1>4, <1>5, <1>6 DEF ServerTyped

LEMMA AnnotatorsTyped ==
    ASSUME LocalInv, ServerTyped, NEW r \in Reqs, Annotate(r)
    PROVE  ServerTyped'
<1>1. [Next]_vars /\ (Start(r) \/ Handler(r)) /\ UNCHANGED <<visits, loop, spoiled, text, old>>
    BY AnnotatorsStep DEF Annotate, Handler
<1>2. RouteInv' /\ TablesInv' /\ TypedInv' /\ LocalInv'
    BY <1>1, RouteStep, TablesStep, TypedStep, LocalStep DEF ServerTyped
<1>3. VisitorsTyped'
    BY <1>1 DEF visits, ServerTyped, VisitorsTyped, VisitTyped, Scans
<1>4. loaded' \in Datasets \cup {None}
    BY <1>2 DEF LocalInv
<1>5. EarlyTyped'
    <2>1. early' = early \/ early' = None \/ (gen' # gen /\ loaded' # None /\ early' = Rows(loaded'))
        BY DEF Annotate
    <2>2. ASSUME gen' # gen, loaded' # None
          PROVE  Rows(loaded') \in [Indices(loaded') -> Grades \cup {None}]
        <3>1. Load(r)
            BY <1>1, <2>2, HandlersLeave, StartsLeave DEF Start
        <3>2. PICK d : d = loaded'
            OBVIOUS
        <3>3. d \in Datasets /\ Whole(d)
            BY <1>4, <2>2, <3>1, <3>2 DEF Load, Whole
        <3> QED
            BY <3>2, <3>3, RowsTyped DEF ServerTyped
    <2> QED
        BY <2>1, <2>2 DEF ServerTyped, EarlyTyped
<1>6. TextTyped'
    <2>1. /\ words' = words \/ words' = None \/ (loaded' # None /\ words' = text[loaded'])
          /\ worded' = worded \/ worded' = [worded EXCEPT ![r] = words]
          /\ shown' \in {None, worded[r], shown}
        BY DEF Annotate
    <2> QED
        BY <1>1, <1>4, <2>1 DEF ServerTyped, TextTyped
<1>7. ColumnTyped'
    <2>0. held' = held \/ \E had \in BOOLEAN : held' = [held EXCEPT ![r] = had]
        <3>1. held' = held \/ held' = [held EXCEPT ![r] = (my[r].file \in cols)]
            BY Zenon DEF Annotate
        <3>2. (my[r].file \in cols) \in BOOLEAN
            OBVIOUS
        <3> QED
            BY <3>1, <3>2, Zenon
    <2>1. cols' = cols \/ (pc[r] = "write" /\ cols' \in {cols \cup {my[r].file}, cols \ {my[r].file}})
        BY DEF Annotate, Rewritten
    <2>2. pc[r] = "write" => my[r].file \in AllFiles
        BY DEF ServerTyped, TypedInv, HandTyped, StepFit, Busy, Ended, Writing
    <2>3. held' \in [Reqs -> BOOLEAN]
        BY <2>0 DEF ServerTyped, ColumnTyped
    <2>4. cols' \subseteq AllFiles
        BY <2>1, <2>2 DEF ServerTyped, ColumnTyped
    <2> QED
        BY <1>1, <2>3, <2>4 DEF ServerTyped, ColumnTyped
<1>8. HistoryTyped'
    <2>1. /\ late' = late \/ late' = (\E q \in InFlight \cap Reqs : ask[q].op = "list")
          /\ crossed' = (crossed \/ (pc[r] = "sidecar" /\ my[r].path # my[r].ds))
          /\ apart' = (apart /\ Cardinality(InFlight') <= 1)
        BY DEF Annotate
    <2> QED
        BY <1>1, <2>1 DEF ServerTyped, HistoryTyped
<1> QED
    BY <1>2, <1>3, <1>5, <1>6, <1>7, <1>8 DEF ServerTyped

LEMMA BootingTyped == ASSUME ServerTyped, Booting PROVE ServerTyped'
<1>1. UNCHANGED <<loaded, map, gen, cache, chart, file, locks, pc, my, ask, aim, calm, unread>>
    BY BootingLeaves
<1>2. UNCHANGED <<visits, early, column, tasks, old, crossed, apart>>
    BY DEF Booting
<1>3. DataTyped(db)' /\ DataTyped(disk)' /\ db.reg \subseteq db'.reg
    <2>1. PICK b : b = db'
        OBVIOUS
    <2>2. (b = db \/ b = [db EXCEPT !.stamp = @ \cup db.reg]) /\ (disk' = disk \/ disk' = b)
        BY <2>1 DEF Booting, Boot
    <2>3. DataTyped(b) /\ b.reg = db.reg
        BY <2>2 DEF ServerTyped, TypedInv, DataTyped, Shaped
    <2> QED
        BY <2>1, <2>2, <2>3 DEF ServerTyped, TypedInv, DataTyped, Notes, Shaped
<1>4. RouteInv' /\ TypedInv' /\ TablesInv'
    BY <1>1, <1>3, RouteStays, HandsStay DEF ServerTyped, TypedInv, FilesTyped, ChartTyped, TablesInv, Holds
<1> QED
    BY <1>2, <1>4 DEF visits, column, tasks, ServerTyped, VisitorsTyped, VisitTyped, Scans, TextTyped,
                      EarlyTyped, ColumnTyped, HistoryTyped

LEMMA CrashTyped == ASSUME LocalInv, ColumnInv, ServerTyped, ServerCrash, Crash PROVE ServerTyped'
<1>1. RouteInv' /\ TablesInv' /\ TypedInv'
    BY RouteStep, TablesStep, TypedStep DEF ServerTyped, Next
<1>2. /\ UNCHANGED <<seen, todo, cols, held, spoiled, text, worded, old, crossed, apart>>
      /\ at' = [v \in Visitors |-> IF at[v] \in Ended \cup {"new"} THEN at[v] ELSE "lost"]
      /\ loop' = None /\ early' = None /\ words' = None /\ shown' = None /\ late' = FALSE
    BY DEF ServerCrash
<1>3. \A v \in Visitors : at'[v] \in Ended \cup {"new"}
    BY <1>2 DEF Ended
<1>4. VisitorsTyped'
    BY <1>2, <1>3, NobodyIsNone DEF ServerTyped, VisitorsTyped, VisitTyped, Scans, Stops, Ended
<1> QED
    BY <1>1, <1>2, <1>4 DEF ServerTyped, TextTyped, EarlyTyped, ColumnTyped, HistoryTyped

LEMMA TypedServes == LocalInv /\ ColumnInv /\ ServerTyped /\ [LibraryNext]_libraryVars => ServerTyped'
<1> SUFFICES ASSUME LocalInv, ColumnInv, ServerTyped, [LibraryNext]_libraryVars PROVE ServerTyped'
    OBVIOUS
<1>1. CASE UNCHANGED libraryVars
    <2>1. UNCHANGED vars
        BY <1>1 DEF libraryVars
    <2>2. RouteInv' /\ TablesInv' /\ TypedInv'
        BY <2>1, RouteStep, TablesStep, TypedStep DEF ServerTyped
    <2> QED
        BY <1>1, <2>2 DEF libraryVars, visits, column, tasks, ServerTyped, VisitorsTyped, VisitTyped, Scans,
                          TextTyped, EarlyTyped, ColumnTyped, HistoryTyped
<1> QED
    BY <1>1, VisitsTyped, AnnotatorsTyped, BootingTyped, CrashTyped, ServerKinds

LEMMA UpgradeTyped == UpgradeInit => RouteInv /\ TablesInv /\ TypedInv
<1> SUFFICES ASSUME UpgradeInit PROVE RouteInv /\ TablesInv /\ TypedInv
    OBVIOUS
<1>1. /\ pc = [r \in Reqs |-> "new"] /\ my = [r \in Reqs |-> Blank] /\ calm = TRUE /\ loaded = None /\ map = None
      /\ gen = 0 /\ locks = {} /\ cache = None /\ chart = None /\ disk = db
      /\ file = [f \in AllFiles |-> Ungraded(f[1], f)] /\ aim = [r \in Reqs |-> None]
      /\ unread = {}
    BY DEF UpgradeInit, Idle
<1>2. RouteInv
    BY <1>1 DEF RouteInv, Route, HasLock, OneEach, Busy, Writing
<1>3. TablesInv
    BY <1>1 DEF TablesInv, Holds, Ungraded, RowsOf
<1>4. FilesTyped
    <2>1. \A f \in AllFiles : TableTyped(Ungraded(f[1], f))
        BY DEF TableTyped, Ungraded, Row
    <2> QED
        BY <1>1, <2>1 DEF FilesTyped
<1>5. Begun = {} /\ Cardinality(Begun) = 0
    BY <1>1, FS_EmptySet DEF Begun
<1>6. \A d \in Datasets : Notes(db.notes[d])
    <2> SUFFICES ASSUME NEW d \in Datasets PROVE Notes(db.notes[d])
        OBVIOUS
    <2>1. /\ DOMAIN db.notes[d] \subseteq Indices(d)
          /\ \A e \in DOMAIN db.notes[d] : db.notes[d][e] \in OldNote
        BY DEF UpgradeInit
    <2>2. IsFiniteSet(DOMAIN db.notes[d])
        BY <2>1, LibraryAssumption, FS_Subset
    <2>3. OldNote \subseteq Note
        BY DEF OldNote, Note
    <2> QED
        BY <2>1, <2>2, <2>3 DEF Notes
<1>7. DataTyped(db)
    BY <1>6 DEF UpgradeInit, DataTyped, Shaped
<1>8. \A r \in Reqs : HandTyped(r)
    BY <1>1 DEF HandTyped, Busy
<1> QED
    BY <1>1, <1>2, <1>3, <1>4, <1>5, <1>7, <1>8 DEF TypedInv, UnreadTyped, GenTyped, ShownTyped, ChartTyped

LEMMA ServerTypedInit == LibInit \/ UpgradeInit => ServerTyped
<1> SUFFICES ASSUME LibInit \/ UpgradeInit PROVE ServerTyped
    OBVIOUS
<1>1. RouteInv /\ TablesInv /\ TypedInv
    BY UpgradeTyped, RouteInit, TablesInit, TypedInit DEF LibInit
<1>2. LibraryInit /\ loaded = None /\ db.reg \subseteq Datasets /\ db.stamp \subseteq Datasets
    BY DEF LibInit, UpgradeInit, Init
<1>3. VisitorsTyped
    BY <1>2, NobodyIsNone DEF LibraryInit, VisitorsTyped, VisitTyped, Scans, Stops
<1> QED
    BY <1>1, <1>2, <1>3 DEF LibraryInit, ServerTyped, TextTyped, EarlyTyped, ColumnTyped, HistoryTyped

(* From an empty or an earlier database on, whatever is kept has its type. *)
THEOREM TypedServed == LibrarySpec => []ServerTyped
BY ServerTypedInit, TypedServes, LocalServed, ColumnInvariance, PTL DEF LibrarySpec

(* The types of the whole server: every number it shows is a count, every   *)
(* note it writes is one; and the event loop belongs to the visitor that    *)
(* is adding a column, and to nobody else.                                  *)
THEOREM ServerTypes == LibrarySpec => []LibTypeOK
<1>1. LocalInv /\ ColumnInv /\ ServerTyped /\ SchemaInv => LibTypeOK
    <2> SUFFICES ASSUME LocalInv, ColumnInv, ServerTyped, SchemaInv PROVE LibTypeOK
        OBVIOUS
    <2>1. TypeOK
        BY TypesFit DEF ServerTyped
    <2>2. M!TypeOK
        BY DEF SchemaInv
    <2>3. /\ want \in [Visitors -> Visits] /\ at \in [Visitors -> Stops] /\ loop \in Visitors \cup {None}
          /\ \A v \in Visitors : at[v] \in {"read", "write"} <=> loop = v
        BY DEF ColumnInv, VisitsFit, ServerTyped, VisitorsTyped, VisitTyped
    <2> QED
        BY <2>1, <2>2, <2>3 DEF ServerTyped, TextTyped, EarlyTyped, ColumnTyped, HistoryTyped, LibTypeOK
<1> QED
    BY <1>1, TypedServed, LocalServed, ColumnInvariance, ServerMigrates, SchemaInvariance, PTL

------------------------------------------------------------------------------
(* The export.  A grade that one request alone asks for is in the database, *)
(* committed, once that request is past its save: nothing but a request    *)
(* that may name the episode takes it away, and no visitor does.            *)
Grants(b, r, e) == e \in DOMAIN b.notes[aim[r]] /\ b.notes[aim[r]][e].grade = ask[r].grade

Grader(r, e) == Sole(r, e) /\ aim[r] \in Datasets /\ ask[r].grade # None

GrantedInv ==
    calm => \A r \in Reqs : \A e \in Episodes :
        Grader(r, e) /\ (Past(r, e) \/ Over(r)) => Grants(db, r, e) /\ Grants(disk, r, e)

LEMMA GrantStays ==
    ASSUME LocalInv, Shaped(db), NEW q \in Reqs, Start(q) \/ Handler(q), NEW r \in Reqs, NEW e, Grader(r, e),
           ~(pc[r] = "save" /\ e \in my[r].todo), Grants(db, r, e)
    PROVE  SameNote(aim[r], e)
<1>1. aim[r] \in Datasets /\ e \in DOMAIN db.notes[aim[r]] /\ db.notes[aim[r]][e].grade # None
    BY DEF Grader, Grants
<1>2. GradeKept(aim[r], e)
    BY <1>1, GradesWritten
<1>3. ASSUME NEW p \in Reqs, pc[p] = "save", e \in my[p].todo PROVE FALSE
    <2>1. Annotates(p, e)
        BY <1>3, SavesAreAskedFor
    <2> QED
        BY <1>3, <2>1 DEF Grader, Sole
<1> QED
    BY <1>1, <1>2, <1>3 DEF GradeKept

(* A handler gets past its save by saving, and no other way.                *)
LEMMA SavesFirst ==
    ASSUME LocalInv, RouteInv, NEW r \in Reqs, Handler(r), NEW e, e \in ask[r].eps, Annotator(r),
           ~Save(r), Past(r, e)' \/ Over(r)'
    PROVE  (Past(r, e) \/ Over(r)) /\ ~(pc[r] = "save" /\ e \in my[r].todo)
<1>1. Busy(r) /\ Route(r)
    BY HandlersWork DEF RouteInv
<1>2. pc[r] # "save" => Past(r, e) \/ Over(r)
    <2>1. CASE Plain(r)
        <3>1. Turn(r)
            BY <2>1, PlainTurns
        <3>2. ~Past(r, e)'
            BY <3>1, HandlersLeave DEF Turn, Past, Writing
        <3>3. pc'[r] = "ok" \/ my'[r].stage = "get"
            BY <3>2 DEF Over
        <3>4. my[r].stage = "get"
            <4>1. my[r].stage # "list"
                BY <1>1 DEF Route
            <4>2. pc'[r] # "error"
                BY <3>2 DEF Over, Busy, Ended
            <4> QED
                BY <3>1, <3>3, <4>1, <4>2 DEF Turn, Same, Awaits
        <3> QED
            BY <1>1, <3>4 DEF Over
    <2>2. CASE Count(r)
        <3>1. pc[r] = "count" /\ pc'[r] = "stats" /\ my'[r].back = my[r].back /\ Same(r)
            BY <2>2, CountTurns DEF Carries
        <3> QED
            BY <1>1, <3>1 DEF Past, Over, Same, Writing, Ended, Busy
    <2>3. CASE \/ Stats(r) /\ my[r].back = "saved"
               \/ ReadTable(r) \/ WriteBegin(r) \/ WriteEnd(r) \/ WriteRaises(r)
        BY <2>3 DEF Stats, ReadTable, WriteBegin, WriteEnd, WriteRaises, Past, Writing
    <2> QED
        BY <2>1, <2>2, <2>3, HandlerKinds
<1>3. pc[r] # "save"
    BY DEF Handler, Save, Register, Insert, Migrate, SidecarRow, Stamped, Graded, Sweep, Upsert, Stamp,
           ReadNotes, ReadFile, Count, Stats, ReadTable, WriteBegin, WriteEnd, WriteRaises
<1> QED
    BY <1>2, <1>3

(* From save to save: the last grade that is left is written then.          *)
LEMMA GrantSaved ==
    ASSUME LocalInv, Shaped(db), calm, NEW r \in Reqs, Save(r), Handler(r), NEW e,
           Grader(r, e), Past(r, e) => Grants(db, r, e), Past(r, e)' \/ Over(r)'
    PROVE  Grants(db, r, e)' /\ Grants(disk, r, e)'
<1>1. UNCHANGED <<ask, aim>> /\ aim[r] \in Datasets
    BY HandlersLeave DEF Grader
<1>2. pc[r] = "save" /\ Busy(r) /\ my[r].ds = aim[r] /\ my[r].stage \in {"update", "bulk"}
    BY WritersWork DEF Save, Place, Purpose
<1>3. PICK i \in my[r].todo :
         /\ db' = SetNote(my[r].ds, i, Asked(r, i)) /\ disk' = db'
         /\ \/ pc'[r] = "save" /\ my'[r].todo = my[r].todo \ {i}
            \/ pc'[r] = "count" /\ my'[r].back = "saved" /\ my[r].todo = {i}
    BY SaveTurns
<1>4. CASE e = i
    <2>1. ASSUME NEW b, b = db' PROVE e \in DOMAIN b.notes[aim[r]] /\ b.notes[aim[r]][e] = Asked(r, e)
        BY <1>1, <1>2, <1>3, <1>4, <2>1, NoteIsSet
    <2>2. Asked(r, e).grade = ask[r].grade
        BY DEF Asked
    <2> QED
        BY <1>1, <1>3, <2>1, <2>2 DEF Grants
<1>5. CASE e # i
    <2>1. my'[r].stage = my[r].stage
        BY SaveTurns DEF Carries, Same
    <2>2. e \notin my[r].todo
        BY <1>2, <1>3, <1>5, <2>1 DEF Past, Over, Writing
    <2>3. Grants(db, r, e)
        BY <1>2, <2>2 DEF Past
    <2>4. SameNote(aim[r], e)
        BY <1>1, <2>2, <2>3, GrantStays
    <2> QED
        BY <1>1, <1>3, <2>3, <2>4 DEF Grants, SameNote
<1> QED
    BY <1>4, <1>5

(* A step of an annotator: his own, or somebody else's.                     *)
LEMMA GrantGoesOn ==
    ASSUME LocalInv, RouteInv, Shaped(db), calm, NEW q \in Reqs, Start(q) \/ Handler(q),
           UNCHANGED ask, NEW r \in Reqs, aim'[r] = aim[r], NEW e, Grader(r, e),
           Past(r, e) \/ Over(r) => Grants(db, r, e) /\ Grants(disk, r, e),
           Past(r, e)' \/ Over(r)'
    PROVE  Grants(db, r, e)' /\ Grants(disk, r, e)'
<1>1. Annotator(r) /\ e \in ask[r].eps
    BY DEF Grader, Sole, Annotates, Annotator
<1>2. ASSUME Past(r, e) \/ Over(r), ~(pc[r] = "save" /\ e \in my[r].todo)
      PROVE  Grants(db, r, e)' /\ Grants(disk, r, e)'
    <2>1. SameNote(aim[r], e)
        BY <1>2, GrantStays
    <2> QED
        BY <1>2, <2>1, DiskFollows DEF Grants, SameNote
<1>3. CASE q # r
    <2>1. pc'[r] = pc[r] /\ my'[r] = my[r]
        BY <1>3, OthersWait
    <2>2. Past(r, e) \/ Over(r)
        BY <2>1 DEF Past, Over, Busy
    <2>3. ~(pc[r] = "save" /\ e \in my[r].todo)
        BY <2>2, WritersWork DEF Past, Over, Writing, Purpose
    <2> QED
        BY <1>2, <2>2, <2>3
<1>4. CASE q = r /\ Start(r)
    <2>1. pc'[r] \in {"error", "register"} /\ (pc'[r] = "register" => my'[r].stage # "get")
        BY <1>1, <1>4, StartTurns
    <2> QED
        BY <2>1 DEF Past, Over, Busy, Ended, Writing
<1>5. CASE q = r /\ Handler(r) /\ Save(r)
    BY <1>5, GrantSaved
<1>6. CASE q = r /\ Handler(r) /\ ~Save(r)
    BY <1>1, <1>2, <1>6, SavesFirst
<1> QED
    BY <1>3, <1>4, <1>5, <1>6

(* A visitor brings legacy annotations only where there are no notes, and a *)
(* start of the server brings none.                                         *)
LEMMA NotesVisited ==
    ASSUME Shaped(db), NEW v \in Visitors, Visit(v), NEW d \in Datasets, NEW e \in DOMAIN db.notes[d]
    PROVE  SameNote(d, e) /\ (disk' = disk \/ disk' = db \/ disk' = db')
<1>1. CASE db' = db
    BY <1>1 DEF SameNote, Visit, Scan, ScanRow, ScanStats, ScanCommit, Chart, Export, Column, ColumnRead,
                ColumnWrite, ColumnRaises, Task, ColumnRest, store, Fetch
<1>2. ASSUME NEW b, b = db', b.notes[d] = db.notes[d] PROVE SameNote(d, e)
    BY <1>2 DEF SameNote
<1>3. CASE ScanRow(v) \/ ScanStats(v)
    <2>1. PICK x, y : (db' = [db EXCEPT !.reg = x] \/ db' = [db EXCEPT !.stats[y] = x])
        BY <1>3 DEF ScanRow, ScanStats
    <2>2. disk' = disk
        BY <1>3 DEF ScanRow, ScanStats
    <2> QED
        BY <1>2, <2>1, <2>2, NotesAreApart
<1>4. ASSUME NEW x, Fetch(x) PROVE SameNote(d, e) /\ (disk' = disk \/ disk' = db')
    <2>1. PICK legacy : legacy = [i \in DOMAIN Sidecar[x] |->
                   [grade |-> Sidecar[x][i].grade, tags |-> Sidecar[x][i].tags, reason |-> None]]
        OBVIOUS
    <2>2. PICK registered : registered = [db EXCEPT !.reg = @ \cup {x}]
        OBVIOUS
    <2>3. PICK b : b = db'
        OBVIOUS
    <2>4. \/ b = registered
          \/ /\ DOMAIN db.notes[x] = {}
             /\ \/ b = [registered EXCEPT !.notes[x] = legacy]
                \/ b = [registered EXCEPT !.notes[x] = legacy, !.stats[x] = CountsOf(legacy)]
        BY <1>4, <2>1, <2>2, <2>3 DEF Fetch, Fetched, Migrating
    <2>5. Shaped(registered) /\ registered.notes = db.notes
        BY <2>2 DEF Shaped
    <2>6. b.notes[d] = db.notes[d]
        <3>1. CASE b = registered
            BY <2>5, <3>1
        <3>2. CASE b # registered
            <4>1. DOMAIN db.notes[x] = {}
                BY <2>4, <3>2
            <4>2. d # x
                BY <4>1
            <4>3. b.notes = [registered.notes EXCEPT ![x] = legacy]
                BY <2>4, <2>5, <3>2 DEF Shaped
            <4> QED
                BY <2>5, <4>2, <4>3 DEF Shaped
        <3> QED
            BY <3>1, <3>2
    <2> QED
        BY <1>2, <1>4, <2>3, <2>6 DEF Fetch
<1>5. Chart(v) \/ Export(v) => db' = db \/ \E x : Fetch(x)
    BY DEF Chart, Export, store
<1>6. ScanCommit(v) => db' = db
    BY DEF ScanCommit
<1>7. Scan(v) \/ Column(v) \/ ColumnRead(v) \/ ColumnWrite(v) \/ ColumnRaises(v) \/ Task(v) => db' = db
    BY DEF Scan, Column, ColumnRead, ColumnWrite, ColumnRaises, Task, ColumnRest, store
<1> QED
    BY <1>1, <1>3, <1>4, <1>5, <1>6, <1>7 DEF Visit

LEMMA GrantedVisited ==
    ASSUME Shaped(db), GrantedInv, NEW v \in Visitors, Visit(v)
    PROVE  GrantedInv'
<1> SUFFICES ASSUME calm', NEW r \in Reqs, NEW e \in Episodes, Grader(r, e)', Past(r, e)' \/ Over(r)'
             PROVE  Grants(db, r, e)' /\ Grants(disk, r, e)'
    BY DEF GrantedInv
<1>1. UNCHANGED <<pc, my, ask, aim, calm>>
    BY VisitsLeave
<1>2. Grader(r, e) /\ Grants(db, r, e) /\ Grants(disk, r, e)
    BY <1>1 DEF GrantedInv, Grader, Sole, Annotates, Past, Over, Busy
<1>3. SameNote(aim[r], e) /\ (disk' = disk \/ disk' = db \/ disk' = db')
    BY <1>2, NotesVisited DEF Grader, Grants
<1> QED
    BY <1>1, <1>2, <1>3 DEF Grants, SameNote

LEMMA GrantedBooted ==
    ASSUME Shaped(db), GrantedInv, Booting
    PROVE  GrantedInv'
<1>1. UNCHANGED <<pc, my, ask, aim, calm>>
    BY BootingLeaves
<1>2. db' = db \/ db' = [db EXCEPT !.stamp = @ \cup db.reg]
    BY DEF Booting, Boot
<1>3. PICK b : b = db'
    OBVIOUS
<1>4. b.notes = db.notes
    BY <1>2, <1>3 DEF Shaped
<1>5. disk' = disk \/ disk' = db'
    BY DEF Booting, Boot
<1> QED
    BY <1>1, <1>3, <1>4, <1>5 DEF GrantedInv, Grader, Sole, Annotates, Past, Over, Busy, Grants

(* What was committed is what comes back.                                   *)
LEMMA GrantedCrashed ==
    ASSUME LocalInv, GrantedInv, Crash
    PROVE  GrantedInv'
<1> SUFFICES ASSUME calm', NEW r \in Reqs, NEW e \in Episodes, Grader(r, e)', Past(r, e)' \/ Over(r)'
             PROVE  Grants(db, r, e)' /\ Grants(disk, r, e)'
    BY DEF GrantedInv
<1>1. /\ UNCHANGED <<ask, aim, calm, disk>> /\ db' = disk
      /\ pc'[r] \in Ended \cup {"new"} /\ (pc'[r] = "ok" => pc[r] = "ok")
    BY DEF Crash, given, Ended
<1>2. Over(r)
    BY <1>1 DEF Past, Over, Busy, Ended, Writing
<1>3. Grants(disk, r, e)
    BY <1>1, <1>2 DEF GrantedInv, Grader, Sole, Annotates
<1> QED
    BY <1>1, <1>3 DEF Grants

LEMMA GrantedAnnotated ==
    ASSUME LocalInv, RouteInv, Shaped(db), GrantedInv, NEW q \in Reqs, Annotate(q)
    PROVE  GrantedInv'
<1> SUFFICES ASSUME calm', NEW r \in Reqs, NEW e \in Episodes, Grader(r, e)', Past(r, e)' \/ Over(r)'
             PROVE  Grants(db, r, e)' /\ Grants(disk, r, e)'
    BY DEF GrantedInv
<1>1. Start(q) \/ Handler(q)
    BY DEF Annotate, Handler
<1>2. UNCHANGED ask /\ (calm' => calm) /\ (pc[r] # "new" => aim'[r] = aim[r])
    BY AskersStay, AnnotatorsStep
<1>3. pc'[r] # "new"
    BY DEF Past, Over, Busy, Writing
<1>4. CASE aim'[r] = aim[r]
    <2>1. Grader(r, e)
        BY <1>2, <1>4 DEF Grader, Sole, Annotates
    <2> QED
        BY <1>1, <1>2, <1>4, <2>1, GrantGoesOn DEF GrantedInv
<1>5. CASE aim'[r] # aim[r]
    <2>1. pc[r] = "new" /\ Start(q) /\ r = q
        BY <1>1, <1>2, <1>3, <1>5, OthersWait, HandlersLeave
    <2>2. pc'[r] \in {"error", "register"} /\ (pc'[r] = "register" => my'[r].stage # "get")
        BY <1>2, <2>1, StartTurns DEF Grader, Sole, Annotates, Annotator
    <2> QED
        BY <2>2 DEF Past, Over, Busy, Ended, Writing
<1> QED
    BY <1>4, <1>5

LEMMA GrantedServes ==
    LocalInv /\ ServerTyped /\ GrantedInv /\ [LibraryNext]_libraryVars => GrantedInv'
<1> SUFFICES ASSUME LocalInv, ServerTyped, GrantedInv, [LibraryNext]_libraryVars PROVE GrantedInv'
    OBVIOUS
<1>1. Shaped(db) /\ RouteInv
    BY DEF ServerTyped, TypedInv, DataTyped
<1>2. CASE UNCHANGED libraryVars
    <2>1. UNCHANGED <<db, disk, pc, my, ask, aim, calm>>
        BY <1>2 DEF libraryVars, vars
    <2> QED
        BY <2>1 DEF GrantedInv, Grader, Sole, Annotates, Past, Over, Busy, Grants
<1> QED
    BY <1>1, <1>2, GrantedAnnotated, GrantedVisited, GrantedBooted, GrantedCrashed, ServerKinds

LEMMA GrantedInit == LibInit \/ UpgradeInit => GrantedInv
BY DEF LibInit, UpgradeInit, Idle, Init, GrantedInv, Past, Over, Busy, Writing

(* Whose grade it is, and that it is committed, whatever else the server    *)
(* does beside it.                                                          *)
THEOREM GrantedInvariance == LibrarySpec => []GrantedInv
BY GrantedInit, GrantedServes, LocalServed, TypedServed, PTL DEF LibrarySpec

(* Only an export ends one.                                                 *)
LEMMA ExportEnds ==
    ASSUME LocalInv, ServerTyped, [LibraryNext]_libraryVars, NEW v \in Visitors,
           want[v].op = "export", at[v] = "new", at'[v] = "ok"
    PROVE  Export(v)
<1>1. ASSUME NEW u \in Visitors, Visit(u), u # v PROVE at'[v] = at[v]
    <2>1. \E stop, got, rest : Go(u, stop, got, rest)
        BY <1>1 DEF Visit, Scan, ScanRow, ScanStats, ScanCommit, Chart, Export, Column, ColumnRead, ColumnWrite,
                    ColumnRaises, Task, Done
    <2>2. DOMAIN at = Visitors
        BY DEF ServerTyped, VisitorsTyped
    <2> QED
        BY <1>1, <2>1, <2>2 DEF Go
<1>2. Visit(v) => Export(v)
    BY DEF Visit, Scan, ScanRow, ScanStats, ScanCommit, Chart, Column, ColumnRead, ColumnWrite,
           ColumnRaises, Task, Asks
<1>3. ASSUME NEW r \in Reqs, Annotate(r) PROVE at' = at
    BY <1>3 DEF Annotate, visits
<1>4. Booting => at' = at
    BY DEF Booting, visits
<1>5. ServerCrash => at'[v] # "ok"
    BY DEF ServerCrash
<1>6. UNCHANGED libraryVars => at' = at
    BY DEF libraryVars, visits
<1> QED
    BY <1>1, <1>2, <1>3, <1>4, <1>5, <1>6, ServerKinds

(* The grades that an export obeys are those of the database as it finds    *)
(* it, over those of the tables as they were loaded.                        *)
THEOREM ExportsObey == LibrarySpec => ExportObeys
<1>1. LocalInv /\ ServerTyped /\ GrantedInv /\ [LibraryNext]_libraryVars =>
        [\A v \in Visitors :
            calm /\ want[v].op = "export" /\ at[v] = "new" /\ at'[v] = "ok" =>
               \A r \in Reqs : OkFor(r, loaded) =>
                   \A e \in DOMAIN early : Sole(r, e) /\ ask[r].grade # None =>
                       (e \in seen'[v] <=> ask[r].grade \notin want[v].exclude)]_libraryVars
    <2> SUFFICES ASSUME LocalInv, ServerTyped, GrantedInv, [LibraryNext]_libraryVars, NEW v \in Visitors,
                        calm, want[v].op = "export", at[v] = "new", at'[v] = "ok",
                        NEW r \in Reqs, OkFor(r, loaded), NEW e \in DOMAIN early,
                        Sole(r, e), ask[r].grade # None
                 PROVE  e \in seen'[v] <=> ask[r].grade \notin want[v].exclude
        OBVIOUS
    <2>1. Export(v)
        BY ExportEnds
    <2>2. Done(v, "ok", {i \in DOMAIN early : Overlaid(early, db'.notes[loaded])[i] \notin want[v].exclude})
          /\ loaded # None
        BY <2>1 DEF Export, Done, Go, ServerTyped, VisitorsTyped
    <2>3. seen'[v] = {i \in DOMAIN early : Overlaid(early, db'.notes[loaded])[i] \notin want[v].exclude}
        BY <2>2 DEF Done, Go, ServerTyped, VisitorsTyped
    <2>4. aim[r] = loaded /\ loaded \in Datasets /\ e \in Episodes
        BY <2>2 DEF OkFor, LocalInv, Shapes, Sole, Annotates, Requests
    <2>5. Grants(db, r, e)
        BY <2>4 DEF GrantedInv, Grader, Over, OkFor
    <2>6. SameNote(loaded, e)
        BY <2>1, <2>4, <2>5, NotesVisited DEF Visit, Grants, ServerTyped, TypedInv, DataTyped
    <2>7. Overlaid(early, db'.notes[loaded])[e] = ask[r].grade
        BY <2>4, <2>5, <2>6 DEF Overlaid, Grants, SameNote
    <2> QED
        BY <2>3, <2>7
<1> QED
    BY <1>1, GrantedInvariance, LocalServed, TypedServed, PTL DEF LibrarySpec, ExportObeys
=============================================================================
