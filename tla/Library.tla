------------------------------- MODULE Library -------------------------------
(***************************************************************************)
(* The rest of the dataset server beside its annotators.  Annotations has  *)
(* the handlers of episodes.py; this module adds, on the same memory,      *)
(* database and episode tables,                                            *)
(*   - the scan of a cell (services/cell_service.py, routers/cells.py),    *)
(*   - the distribution of grades (services/distribution_service.py),      *)
(*   - the export (services/export_service.py),                            *)
(*   - the field editor's new column (services/fields_service.py),         *)
(*   - the edit of a task's text (services/task_service.py), and           *)
(*   - the start of the server (core/db.py, see Migrations).               *)
(*                                                                         *)
(* A scan awaits the database.  The others are synchronous: they stop the  *)
(* event loop, and only the threads that write a table go on beside them.  *)
(* The distribution of grades stands for all of them; of what an export    *)
(* copies only the episodes are kept; of a column only which tables have   *)
(* it; of a task's text only whose edit it is.                             *)
(***************************************************************************)
EXTENDS Annotations, Sequences

CONSTANTS
    Visitors,   \* requests of the kinds above
    Cell        \* the datasets of the cell that is scanned, in order

Visits ==
    [op : {"scan", "task", "nothing"}]
    \cup [op : {"chart", "column"}, dataset : Datasets]
    \cup [op : {"export"}, exclude : SUBSET Grades]

ASSUME LibraryAssumption ==
    /\ Cell \in Seq(Datasets)
    /\ IsFiniteSet(Visitors) /\ Visitors \cap (Reqs \cup {None}) = {}
    \* The tables of a dataset are numbered.
    /\ \A d \in Datasets : IsFiniteSet(Indices(d)) /\ \A e \in Indices(d) : FileOf[d][e] \in Nat

VARIABLES
    version, has, boot, cut,    \* the database's schema, see Migrations
    want,       \* want[v]: what v asks for
    at,         \* at[v]: the await or the step v is in, or how it ended
    seen,       \* seen[v]: what v has read, or its answer
    todo,       \* todo[v]: the datasets or the tables v has left
    loop,       \* the visitor that stops the event loop
    early,      \* dataset_service._episodes: the grades of the rows when loaded
    cols,       \* the episode tables that have the new column
    held,       \* held[r]: had it the table that r has read?
    text,       \* text[d]: the text of a task in d's tasks.parquet
    words,      \* dataset_service._tasks: the text in memory
    worded,     \* worded[r]: the text a list has read
    shown,      \* the text in episodes_cache
    old,        \* history: datasets registered before version 3
    spoiled,    \* history: tables somebody had in hand when the column came
    late,       \* history: was the text edited since the cached list began?
    crossed,    \* history: was a distribution asked for of another dataset, or
                \* between two rows of a migration; or were legacy annotations
                \* migrated to another dataset?
    apart       \* history: has nothing that writes statistics overlapped?

schema == <<version, has, boot, cut>>
column == <<loop, cols, held, spoiled>>
tasks == <<text, words, worded, shown, late>>
visits == <<at, seen, todo>>
libraryVars == <<vars, schema, want, visits, early, column, tasks, old, crossed, apart>>

M == INSTANCE Migrations

Stops == {"new", "register", "stats", "commit", "read", "write"} \cup Ended
InFlight ==
    {r \in Reqs : pc[r] \notin Ended \cup {"new"}}
    \cup {v \in Visitors : at[v] \notin Ended \cup {"new"}}

Rows(d) == [e \in Indices(d) |-> file[<<d, FileOf[d][e]>>][e].grade]
Whole(d) == \A f \in Files(d) : file[f] # Torn
Counts(grade) == [g \in Grades \cup {None} |-> Cardinality({e \in DOMAIN grade : grade[e] = g})]
GradesIn(notes) == [e \in DOMAIN notes |-> notes[e].grade]
AnyGraded(stats) == \E g \in Grades : stats[g] > 0
CountsOf(notes) == [g \in Grades |-> Counts(GradesIn(notes))[g]]

LibTypeOK ==
    /\ TypeOK /\ M!TypeOK
    /\ want \in [Visitors -> Visits] /\ at \in [Visitors -> Stops]
    /\ loop \in Visitors \cup {None}
    /\ early # None => early \in [DOMAIN early -> Grades \cup {None}]
    /\ cols \subseteq AllFiles /\ spoiled \subseteq AllFiles /\ held \in [Reqs -> BOOLEAN]
    /\ text \in [Datasets -> Visitors \cup {None}]
    /\ \A t \in {words, shown} \cup {worded[r] : r \in Reqs} : t \in Visitors \cup {None}
    /\ old \subseteq Datasets /\ {late, crossed, apart} \subseteq BOOLEAN
    \* A synchronous visitor holds the event loop, and nobody else does.
    /\ \A v \in Visitors : at[v] \in {"read", "write"} <=> loop = v

(* The state beside that of Annotations and of the schema, before anything  *)
(* is asked.                                                                *)
LibraryInit ==
    /\ want \in [Visitors -> Visits] /\ at = [v \in Visitors |-> "new"]
    /\ seen = [v \in Visitors |-> None] /\ todo = [v \in Visitors |-> {}]
    /\ loop = None /\ cols = {} /\ held = [r \in Reqs |-> FALSE] /\ spoiled = {}
    /\ early = IF loaded = None THEN None ELSE Rows(loaded)
    /\ text = [d \in Datasets |-> None] /\ words = None /\ shown = None /\ late = FALSE
    /\ worded = [r \in Reqs |-> None]
    /\ old = IF version < 3 THEN db.reg ELSE db.stamp
    /\ crossed = FALSE /\ apart = TRUE

LibInit == Init /\ M!Init /\ LibraryInit

(* Nobody has asked for anything yet, and what is in the database is        *)
(* committed.                                                               *)
Idle ==
    /\ gen = 0 /\ cache = None /\ chart = None /\ locks = {} /\ disk = db
    /\ file = [f \in AllFiles |-> Ungraded(f[1], f)]
    /\ pc = [r \in Reqs |-> "new"] /\ my = [r \in Reqs |-> Blank]
    /\ aim = [r \in Reqs |-> None] /\ calm = TRUE /\ unread = {}

(* A note that an earlier version has left: reasons came with version 2.    *)
OldNote ==
    [grade : Grades \cup {None}, tags : SUBSET Tags,
     reason : IF version = 2 THEN {None, "user"} ELSE {None}]

(* The server starts for the first time on the database of that version.    *)
UpgradeInit ==
    /\ M!Init /\ version < M!Latest /\ loaded = None /\ map = None
    /\ DOMAIN db = {"reg", "stamp", "notes", "stats"} /\ DOMAIN db.notes = Datasets
    /\ db.reg \subseteq Datasets /\ db.stamp = {} /\ db.stats \in [Datasets -> [Grades -> Nat]]
    /\ \A d \in Datasets : /\ DOMAIN db.notes[d] \subseteq Indices(d)
                            /\ \A e \in DOMAIN db.notes[d] : db.notes[d][e] \in OldNote
    /\ version = 0 => db.reg = {} /\ \A d \in Datasets : db.notes[d] = EmptyNotes
    /\ ask \in [Reqs -> Requests] /\ Idle /\ LibraryInit

----------------------------------------------------------------------------
Serves == boot = "up" /\ loop = None
Go(v, stop, got, rest) ==
    /\ at' = [at EXCEPT ![v] = stop]
    /\ seen' = [seen EXCEPT ![v] = got]
    /\ todo' = [todo EXCEPT ![v] = rest]
Done(v, outcome, answer) == Go(v, outcome, answer, {})
Asks(v, op) == at[v] = "new" /\ want[v].op = op /\ Serves
Among == UNCHANGED <<pc, my, given, locks>>

(* Mutant: a rewrite of a table keeps the columns that annotators know.     *)
RewrittenKnown(r) == cols \ {my[r].file}

(* The tables with the column once r has written the one it has in hand.    *)
Rewritten(r) == IF held[r] THEN cols \cup {my[r].file} ELSE cols \ {my[r].file}

(* A request of Annotations, and what it does to the rest.  Beside a        *)
(* visitor that stops the event loop only a thread writes on.               *)
Annotate(r) ==
    /\ boot = "up"
    /\ IF loop = None THEN Start(r) \/ Handler(r)
       ELSE WriteBegin(r) \/ WriteEnd(r) \/ WriteRaises(r)
    /\ LET loads == gen' # gen
           lists == pc[r] = "new" /\ ask[r].op = "list"
           written == pc[r] = "write" /\ file'[my[r].file] # Torn
           listed == pc[r] = "read" /\ my[r].stage = "list" /\ cache' # cache IN
       /\ early' = IF ~loads THEN early ELSE IF loaded' = None THEN None ELSE Rows(loaded')
       /\ words' = IF ~loads THEN words ELSE IF loaded' = None THEN None ELSE text[loaded']
       /\ worded' = IF lists THEN [worded EXCEPT ![r] = words] ELSE worded
       /\ shown' = IF cache' = None THEN None ELSE IF listed THEN worded[r] ELSE shown
       /\ late' = IF loads THEN (\E q \in InFlight \cap Reqs : ask[q].op = "list") ELSE late
       /\ held' = IF pc[r] = "lock" THEN [held EXCEPT ![r] = my[r].file \in cols] ELSE held
       /\ cols' = IF written THEN Rewritten(r) ELSE cols
    /\ UNCHANGED <<schema, want, visits, loop, spoiled, text, old>>
    /\ crossed' = (crossed \/ (pc[r] = "sidecar" /\ my[r].path # my[r].ds))
    /\ apart' = (apart /\ Cardinality(InFlight') <= 1)

Elsewhere == UNCHANGED <<schema, want, early, column, tasks, old>>

----------------------------------------------------------------------------
(* Mutant: the scan does not ask the database first.                        *)
ScannedTables(d) ==
    LET rows == Rows(d)  legacy == Sidecar[d]
        grade == [e \in DOMAIN rows |->
                   IF e \in DOMAIN legacy /\ legacy[e].grade # None THEN legacy[e].grade
                   ELSE rows[e]]
    IN [g \in Grades |-> Counts(grade)[g]]

(* The scan of a cell.  _count_grades asks the database first, and counts   *)
(* in the tables, under the legacy annotations, when it knows of no grade.  *)
Scanned(d) ==
    IF AnyGraded(db.stats[d]) THEN db.stats[d]
    ELSE LET rows == Rows(d)  legacy == Sidecar[d]
             grade == [e \in DOMAIN rows |->
                        IF e \in DOMAIN legacy /\ legacy[e].grade # None THEN legacy[e].grade
                        ELSE rows[e]]
         IN [g \in Grades |-> Counts(grade)[g]]

(* The walk over the cell counts everything before it awaits anything.      *)
Scan(v) ==
    /\ Asks(v, "scan")
    /\ LET ds == {Cell[i] : i \in DOMAIN Cell} IN
       IF \E d \in ds : ~AnyGraded(db.stats[d]) /\ ~Whole(d)
       THEN Done(v, "error", None)
       ELSE Go(v, IF Cell = <<>> THEN "commit" ELSE "register", [d \in ds |-> Scanned(d)], Cell)
    /\ UNCHANGED <<memory, store, file, crossed>> /\ Among /\ Elsewhere
    /\ apart' = (apart /\ Cardinality(InFlight') <= 1)

(* One dataset of _upsert_datasets_to_db: its row, then its statistics.     *)
ScanRow(v) ==
    /\ at[v] = "register" /\ Serves
    /\ db' = [db EXCEPT !.reg = @ \cup {Head(todo[v])}]
    /\ Go(v, "stats", seen[v], todo[v])
    /\ UNCHANGED <<memory, disk, file, crossed, apart>> /\ Among /\ Elsewhere

ScanStats(v) ==
    /\ at[v] = "stats" /\ Serves
    /\ LET d == Head(todo[v])  rest == Tail(todo[v]) IN
       /\ db' = [db EXCEPT !.stats[d] = seen[v][d]]
       /\ Go(v, IF rest = <<>> THEN "commit" ELSE "register", seen[v], rest)
    /\ UNCHANGED <<memory, disk, file, crossed, apart>> /\ Among /\ Elsewhere

ScanCommit(v) ==
    /\ at[v] = "commit" /\ Serves
    /\ disk' = db
    /\ Done(v, "ok", seen[v])
    /\ UNCHANGED <<memory, db, file, crossed, apart>> /\ Among /\ Elsewhere

----------------------------------------------------------------------------
(* What a distribution or an export makes of the database first, in one     *)
(* stretch: the dataset is registered, its legacy annotations are migrated, *)
(* and the statistics are counted if they were, unless a table is torn.     *)
Migrating(d) == DOMAIN db.notes[d] = {} /\ DOMAIN Sidecar[d] # {}
(* Mutant: the grade is inserted for the reason, too.                       *)
FetchedTwice(d) ==
    IF ~Migrating(d) THEN [db EXCEPT !.reg = @ \cup {d}]
    ELSE [db EXCEPT !.reg = @ \cup {d},
            !.notes[d] = [e \in DOMAIN Sidecar[d] |->
                [grade |-> Sidecar[d][e].grade, tags |-> Sidecar[d][e].tags,
                 reason |-> Sidecar[d][e].grade]]]

Fetched(d) ==
    LET legacy == [e \in DOMAIN Sidecar[d] |->
                    [grade |-> Sidecar[d][e].grade, tags |-> Sidecar[d][e].tags, reason |-> None]]
        registered == [db EXCEPT !.reg = @ \cup {d}]
    IN IF ~Migrating(d) THEN registered
       ELSE IF Whole(d) THEN [registered EXCEPT !.notes[d] = legacy, !.stats[d] = CountsOf(legacy)]
       ELSE [registered EXCEPT !.notes[d] = legacy]

(* A new row, or a migration, commits; and that commits for everybody.      *)
Fetch(d) ==
    /\ db' = Fetched(d)
    /\ disk' = IF db' # db THEN db' ELSE disk
    /\ apart' = (apart /\ (Migrating(d) => InFlight = {}))

(* Mutant: the grades that were there when the dataset was loaded.          *)
OverlaidNever(rows, notes) == rows

(* The grade of an episode: that of the database, or else that of its row.  *)
(* A grade cleared in the database is none, and so the row's shows again.   *)
Overlaid(rows, notes) ==
    [e \in DOMAIN rows \cup DOMAIN notes |->
        IF e \in DOMAIN notes /\ notes[e].grade # None THEN notes[e].grade
        ELSE IF e \in DOMAIN rows THEN rows[e] ELSE None]

(* compute_distribution: its cache does not know the dataset.               *)
Chart(v) ==
    LET d == want[v].dataset IN
    /\ Asks(v, "chart")
    /\ crossed' = (crossed \/ d # loaded \/ \E r \in Reqs : pc[r] = "sidecar")
    /\ \/ /\ chart # None /\ Done(v, "ok", chart) /\ UNCHANGED <<chart, store, apart>>
       \/ /\ chart = None /\ Fetch(d)
          /\ IF Whole(d)
             THEN /\ chart' = Counts(Overlaid(Rows(d), db'.notes[d]))
                  /\ Done(v, "ok", chart')
             ELSE Done(v, "error", None) /\ UNCHANGED chart
    /\ UNCHANGED <<loaded, map, gen, cache, file>> /\ Among /\ Elsewhere

(* export_dataset takes the episodes as they were when they were loaded.    *)
Export(v) ==
    /\ Asks(v, "export")
    /\ \/ /\ loaded = None /\ Done(v, "error", None) /\ UNCHANGED <<store, apart>>
       \/ /\ loaded # None /\ Fetch(loaded)
          /\ IF Whole(loaded)
             THEN LET grade == Overlaid(early, db'.notes[loaded]) IN
                  Done(v, "ok", {e \in DOMAIN early : grade[e] \notin want[v].exclude})
             ELSE Done(v, "error", None)
    /\ UNCHANGED <<memory, file, crossed>> /\ Among /\ Elsewhere

----------------------------------------------------------------------------
First(fs) == CHOOSE f \in fs : \A g \in fs : f[2] <= g[2]
ColumnRest == UNCHANGED <<schema, want, early, tasks, old, memory, store, crossed, apart>> /\ Among

(* add_episode_column: the first table says whether the column is there.    *)
Column(v) ==
    LET fs == Files(want[v].dataset) IN
    /\ Asks(v, "column")
    /\ \/ /\ fs = {} \/ file[First(fs)] = Torn \/ First(fs) \in cols
          /\ Done(v, "error", None) /\ UNCHANGED <<loop, spoiled>>
       \/ /\ fs # {} /\ file[First(fs)] # Torn /\ First(fs) \notin cols
          /\ Go(v, "read", None, fs) /\ loop' = v
          /\ spoiled' = spoiled \cup {f \in fs : \E r \in Reqs :
                            my[r].file = f /\ pc[r] \in {"edit", "write"}}
    /\ UNCHANGED <<file, cols, held>> /\ ColumnRest

ColumnRead(v) ==
    LET f == First(todo[v]) IN
    /\ at[v] = "read"
    /\ IF file[f] = Torn THEN Done(v, "error", None) /\ loop' = None
       ELSE Go(v, "write", file[f], todo[v]) /\ UNCHANGED loop
    /\ UNCHANGED <<file, cols, held, spoiled>> /\ ColumnRest

(* The table is written without its lock, over whatever is there by now.    *)
ColumnWrite(v) ==
    LET f == First(todo[v])  rest == todo[v] \ {f} IN
    /\ at[v] = "write"
    /\ file' = [file EXCEPT ![f] = seen[v]]
    /\ cols' = cols \cup {f}
    /\ IF rest = {} THEN Done(v, "ok", None) /\ loop' = None
       ELSE Go(v, "read", None, rest) /\ UNCHANGED loop
    /\ UNCHANGED <<held, spoiled>> /\ ColumnRest

(* A full disk: the table is torn, and the tables after it are not begun.   *)
ColumnRaises(v) ==
    /\ at[v] = "write"
    /\ file' = [file EXCEPT ![First(todo[v])] = Torn]
    /\ Done(v, "error", None) /\ loop' = None
    /\ UNCHANGED <<cols, held, spoiled>> /\ ColumnRest

----------------------------------------------------------------------------
(* Mutant: the tasks in memory are not read again.                          *)
TaskUnread(v) ==
    /\ Asks(v, "task") /\ loaded # None
    /\ text' = [text EXCEPT ![loaded] = v]
    /\ late' = (cache # None \/ \E q \in InFlight \cap Reqs : ask[q].op = "list")
    /\ Done(v, "ok", None)
    /\ UNCHANGED <<words, worded, shown, memory, store, file, crossed, apart, schema, want,
                   early, column, old>> /\ Among

(* update_task never waits for its lock: nobody awaits anything under it.   *)
(* The new table replaces the old one whole, or an exception leaves the     *)
(* old; episodes that are cached, or about to be, keep their text.          *)
Task(v) ==
    /\ Asks(v, "task")
    /\ \/ /\ loaded # None
          /\ text' = [text EXCEPT ![loaded] = v] /\ words' = v
          /\ late' = (late \/ cache # None \/ \E q \in InFlight \cap Reqs : ask[q].op = "list")
          /\ Done(v, "ok", None)
       \/ Done(v, "error", None) /\ UNCHANGED <<text, words, late>>
    /\ UNCHANGED <<worded, shown, memory, store, file, crossed, apart, schema, want, early,
                   column, old>> /\ Among

----------------------------------------------------------------------------
Visit(v) ==
    \/ Scan(v) \/ ScanRow(v) \/ ScanStats(v) \/ ScanCommit(v) \/ Chart(v) \/ Export(v)
    \/ Column(v) \/ ColumnRead(v) \/ ColumnWrite(v) \/ ColumnRaises(v) \/ Task(v)

(* init_db; its UPDATE stamps every dataset there is.                       *)
Boot ==
    /\ M!Boot
    /\ db' = IF M!Stamp THEN [db EXCEPT !.stamp = @ \cup db.reg] ELSE db
    /\ disk' = IF M!Stamp THEN db' ELSE disk

Booting ==
    /\ Boot
    /\ UNCHANGED <<memory, tables, pc, my, given, want, visits, early, column, tasks, old,
                   crossed, apart>>

(* The process dies, with all but the files and what is committed.          *)
ServerCrash ==
    /\ Crash /\ M!Crash
    /\ at' = [v \in Visitors |-> IF at[v] \in Ended \cup {"new"} THEN at[v] ELSE "lost"]
    /\ loop' = None /\ early' = None /\ words' = None /\ shown' = None /\ late' = FALSE
    /\ UNCHANGED <<want, seen, todo, cols, held, spoiled, text, worded, old, crossed, apart>>

LibraryNext ==
    \/ \E r \in Reqs : Annotate(r)
    \/ \E v \in Visitors : Visit(v)
    \/ Booting \/ ServerCrash

(* The server starts on an empty database, or on that of an earlier version. *)
LibrarySpec == (LibInit \/ UpgradeInit) /\ [][LibraryNext]_libraryVars

----------------------------------------------------------------------------
(* Properties *)

Failed == \E r \in Reqs : pc[r] \in {"error", "lost"}

(* When nothing is in flight, the cached distribution is that of the loaded *)
(* dataset as it is now, whoever was grading or auto-grading when it was    *)
(* computed: unless another dataset was asked for, whose numbers the cache  *)
(* takes for this one's; or legacy annotations were half migrated, or those *)
(* of a dataset loaded meanwhile migrated to this one, which forgets no     *)
(* distribution; or a request failed after it had saved.                    *)
ChartIsCurrent ==
    InFlight = {} /\ ~crossed /\ ~Failed /\ loaded # None /\ chart # None /\ Whole(loaded) =>
        chart = Counts(Overlaid(Rows(loaded), db.notes[loaded]))

(* The statistics that the lists and the search of datasets show are those  *)
(* of the grades in the database, when everything that writes them came one *)
(* after the other: a scan writes back only what is so.  A torn table hides *)
(* them, for the auto-grade pass goes on when they cannot be counted.       *)
StatsAreExact ==
    apart /\ InFlight = {} /\ ~Failed => \A d \in Datasets :
        Whole(d) /\ AnyGraded(CountsOf(db.notes[d])) => db.stats[d] = CountsOf(db.notes[d])

(* A column that was added is in every table of its dataset, and stays      *)
(* there whatever is annotated; but in a table that an annotator had in     *)
(* hand when it came.                                                       *)
ColumnStays ==
    \A v \in Visitors : want[v].op = "column" /\ at[v] = "ok" =>
        Files(want[v].dataset) \subseteq cols \cup spoiled

(* The episodes of the loaded dataset show the text of the last edit, but   *)
(* those cached, or about to be, when it was made.                          *)
TextIsShown == cache # None /\ loaded # None /\ ~late => shown = text[loaded]

(* An export holds an episode that one request has graded if and only if    *)
(* it was not to leave out that grade, although the episodes were loaded    *)
(* before; a crash or the auto-grade pass does not come between them.       *)
ExportObeys ==
    [][\A v \in Visitors :
         calm /\ want[v].op = "export" /\ at[v] = "new" /\ at'[v] = "ok" =>
            \A r \in Reqs : OkFor(r, loaded) =>
                \A e \in DOMAIN early : Sole(r, e) /\ ask[r].grade # None =>
                    (e \in seen'[v] <=> ask[r].grade \notin want[v].exclude)]_libraryVars

(* Datasets from before the auto-grade pass are never graded by it, however *)
(* often the server died on its way to version 3.                           *)
OldAreNotGraded ==
    \A d \in old : \A e \in DOMAIN db.notes[d] : db.notes[d][e].reason # "auto"

VersionIsHonest == M!VersionIsHonest
OnlyCutMigrationsFail == M!OnlyCutMigrationsFail
=============================================================================
