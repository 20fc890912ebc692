----------------------------- MODULE Annotations -----------------------------
(***************************************************************************)
(* Grades and tags of episodes: backend/datasets/services/                 *)
(* episode_service.py, auto_grade_service.py and dataset_service.py, and   *)
(* the endpoints of routers/episodes.py.  The server is one process with   *)
(* one event loop: a handler runs alone from one await to the next, and    *)
(* every action below is such a stretch.  The handlers share one loaded    *)
(* dataset with its caches, one database connection, and the episode       *)
(* tables (parquet files), which other threads read and write for them.    *)
(*                                                                         *)
(* An annotation is a grade, a set of tags and where its reason comes      *)
(* from.  Durations and log lines are left out.                            *)
(***************************************************************************)
EXTENDS Naturals, FiniteSets

CONSTANTS
    Datasets,
    FileOf,     \* FileOf[d][e]: the episode table that lists episode e of d
    Severe,     \* Severe[d]: episodes whose data has a severe band
    Sidecar,    \* Sidecar[d]: legacy annotations, a function on some episodes
    Reqs,       \* requests to the server
    Tags,
    None,       \* no value; also a PATCH that names no tags
    Torn        \* an episode table that is being, or was half, written

Grades == {"good", "normal", "bad"}
Indices(d) == DOMAIN FileOf[d]
Files(d) == {<<d, FileOf[d][e]>> : e \in Indices(d)}
AllFiles == UNION {Files(d) : d \in Datasets}
Row == [grade : Grades \cup {None}, tags : SUBSET Tags]
Note == [grade : Grades \cup {None}, tags : SUBSET Tags, reason : {None, "user", "auto"}]

Episodes == UNION {Indices(d) : d \in Datasets}
Requests ==
    [op : {"load"}, dataset : Datasets] \cup [op : {"list"}]
    \cup [op : {"get"}, eps : {{e} : e \in Episodes}]
    \cup [op : {"patch"}, eps : {{e} : e \in Episodes}, grade : Grades \cup {None},
          tags : {None} \cup SUBSET Tags]
    \cup [op : {"bulk"}, eps : SUBSET Episodes \ {{}}, grade : Grades]
    \cup [op : {"none"}]      \* never sent

ASSUME AnnotationsAssumption ==
    /\ None \notin Grades \cup Datasets \cup {"user", "auto"}
    /\ \A d \in Datasets : Severe[d] \subseteq Indices(d) /\ DOMAIN Sidecar[d] \subseteq Indices(d)
    /\ \A d \in Datasets : \A e \in DOMAIN Sidecar[d] : Sidecar[d][e] \in Row
    /\ IsFiniteSet(Reqs)

VARIABLES
    loaded,     \* dataset_service._dataset_path
    map,        \* the dataset _episode_to_file_map was made from
    gen,        \* how often _file_locks was replaced: locks belong to a gen
    cache,      \* episodes_cache: None or a function to notes
    chart,      \* distribution_cache: None or the counts of grades it has
    db,         \* what the one connection sees: reg, stamp, notes, stats
    disk,       \* what of it is committed
    file,       \* file[f]: the rows of an episode table, or Torn
    locks,      \* the locks held, each a table and the gen of its lock
    pc,         \* pc[r]: the await a handler is in, or how it ended
    my,         \* my[r]: its local variables
    ask,        \* ask[r]: what r asks for, see Requests
    aim,        \* history: the dataset that was loaded when r began
    calm,       \* history: has no dataset been loaded while a request waited?
    unread      \* history: severe episodes an auto-grade pass passed over,
                \* for it could not read their data

vars == <<loaded, map, gen, cache, chart, db, disk, file, locks, pc, my, ask, aim, calm, unread>>
caches == <<cache, chart>>
memory == <<loaded, map, gen, caches>>
store == <<db, disk>>
tables == <<file, locks>>
given == <<ask, aim, calm, unread>>

(* stage: the service method; ds: dataset_id; path: the dataset_path given  *)
(* to it; notes: annotations read; tags: tags to save; got: episodes read;  *)
(* graded, severe: what the auto-grade pass has found; todo, files: the     *)
(* episodes and tables a loop has left; counts: grades counted; file,       *)
(* lockGen: the table in hand and its lock; table: rows read from it; back: *)
(* what _refresh_dataset_stats returns to.                                  *)
EmptyNotes == [e \in {} |-> None]

Blank == [stage |-> None, ds |-> None, path |-> None, notes |-> None, tags |-> None,
          got |-> EmptyNotes, graded |-> {}, severe |-> {},
          todo |-> {}, files |-> {}, counts |-> None, file |-> None,
          lockGen |-> 0, table |-> None, back |-> None]

Ended == {"ok", "error", "lost"}
Awaits == {"new", "register", "insert", "migrate", "sidecar", "stamped", "graded",
           "sweep", "upsert", "annotations", "read", "save", "count", "stats",
           "lock", "edit", "write"}

(* Nothing is in flight.                                                    *)
Quiet == \A r \in Reqs : pc[r] \in Ended \cup {"new"}

TypeOK ==
    /\ loaded \in Datasets \cup {None} /\ map \in Datasets \cup {None}
    /\ gen \in 0 .. Cardinality(Reqs)
    /\ locks \subseteq AllFiles \X (0 .. gen)
    /\ cache # None => DOMAIN cache \subseteq Episodes /\ \A e \in DOMAIN cache : cache[e] \in Note
    /\ chart # None => chart \in [Grades \cup {None} -> Nat]
    /\ \A b \in {db, disk} :
         /\ b.reg \subseteq Datasets /\ b.stamp \subseteq b.reg
         /\ \A d \in Datasets : \A e \in DOMAIN b.notes[d] : b.notes[d][e] \in Note
         /\ b.stats \in [Datasets -> [Grades -> Nat]]
    /\ \A f \in AllFiles : file[f] = Torn \/ \A e \in DOMAIN file[f] : file[f][e] \in Row
    /\ pc \in [Reqs -> Awaits \cup Ended]
    /\ aim \in [Reqs -> Datasets \cup {None}] /\ calm \in BOOLEAN
    /\ unread \subseteq Datasets \X Episodes

Ungraded(d, f) == [e \in {i \in Indices(d) : <<d, FileOf[d][i]>> = f} |->
                     [grade |-> None, tags |-> {}]]

Init ==
    /\ loaded = None /\ map = None /\ gen = 0 /\ cache = None /\ chart = None
    /\ db = [reg |-> {}, stamp |-> {}, notes |-> [d \in Datasets |-> EmptyNotes],
             stats |-> [d \in Datasets |-> [g \in Grades |-> 0]]]
    /\ disk = db
    /\ file = [f \in AllFiles |-> Ungraded(f[1], f)]
    /\ locks = {}
    /\ pc = [r \in Reqs |-> "new"]
    /\ my = [r \in Reqs |-> Blank]
    /\ ask \in [Reqs -> Requests]
    /\ aim = [r \in Reqs |-> None]
    /\ calm = TRUE
    /\ unread = {}

----------------------------------------------------------------------------
(* How a handler goes on: to its next await, or to its answer.              *)
Move(r, step, l) == pc' = [pc EXCEPT ![r] = step] /\ my' = [my EXCEPT ![r] = l]
Answer(r, outcome) == Move(r, outcome, Blank)

(* _require_loaded, then the await on a call that was given dataset_path.   *)
CallWithPath(r, step, l) ==
    IF loaded = None THEN Answer(r, "error") ELSE Move(r, step, [l EXCEPT !.path = loaded])

CallRegister(r, l) == CallWithPath(r, "register", l)

Target(r) == CHOOSE e \in ask[r].eps : TRUE

(* An episode update_episode accepts.                                       *)
Found(e) == IF cache # None THEN e \in DOMAIN cache ELSE map # None /\ e \in Indices(map)

StartUpdate(r, tags) ==
    IF Found(Target(r))
    THEN CallRegister(r, [Blank EXCEPT !.stage = "update", !.tags = tags])
    ELSE Answer(r, "error")

(* get_episode when there is no cache: the table is chosen at once.         *)
StartGet(r, stage) ==
    IF Found(Target(r))
    THEN CallRegister(r, [Blank EXCEPT !.stage = stage, !.file = <<map, FileOf[map][Target(r)]>>])
    ELSE Answer(r, "error")

(* load_dataset runs without an await.  It clears the service first, and    *)
(* an unreadable table leaves it cleared, with the old episode map.         *)
Load(r) ==
    LET d == ask[r].dataset IN
    /\ pc[r] = "new" /\ ask[r].op = "load"
    /\ gen' = gen + 1 /\ cache' = None /\ chart' = None
    /\ \/ /\ \A f \in Files(d) : file[f] # Torn
          /\ loaded' = d /\ map' = d
          /\ Answer(r, "ok")
       \/ /\ \E f \in Files(d) : file[f] = Torn
          /\ loaded' = None /\ UNCHANGED map
          /\ Answer(r, "error")
    /\ calm' = (calm /\ Quiet)
    /\ UNCHANGED <<store, tables, ask, aim, unread>>

List(r) ==
    /\ pc[r] = "new" /\ ask[r].op = "list"
    /\ IF cache # None THEN Answer(r, "ok")
       ELSE CallRegister(r, [Blank EXCEPT !.stage = "list"])
    /\ aim' = [aim EXCEPT ![r] = loaded]
    /\ UNCHANGED <<memory, store, tables, ask, calm, unread>>

Get(r) ==
    /\ pc[r] = "new" /\ ask[r].op = "get"
    /\ IF cache # None
       THEN Answer(r, IF Target(r) \in DOMAIN cache THEN "ok" ELSE "error")
       ELSE StartGet(r, "get")
    /\ aim' = [aim EXCEPT ![r] = loaded]
    /\ UNCHANGED <<memory, store, tables, ask, calm, unread>>

(* A PATCH without tags asks get_episode for the current ones first.        *)
Patch(r) ==
    /\ pc[r] = "new" /\ ask[r].op = "patch"
    /\ IF ask[r].tags # None THEN StartUpdate(r, ask[r].tags)
       ELSE IF cache = None THEN StartGet(r, "tags")
       ELSE IF Target(r) \in DOMAIN cache THEN StartUpdate(r, cache[Target(r)].tags)
       ELSE Answer(r, "error")
    /\ aim' = [aim EXCEPT ![r] = loaded]
    /\ UNCHANGED <<memory, store, tables, ask, calm, unread>>

Bulk(r) ==
    /\ pc[r] = "new" /\ ask[r].op = "bulk"
    /\ CallRegister(r, [Blank EXCEPT !.stage = "bulk"])
    /\ aim' = [aim EXCEPT ![r] = loaded]
    /\ UNCHANGED <<memory, store, tables, ask, calm, unread>>

----------------------------------------------------------------------------
(* _ensure_dataset_registered.  Its caller names dataset_path again for     *)
(* _ensure_migrated when it has the id.  (Mutant: and the id is of that.)   *)
RegisteredNow(r, d) == CallWithPath(r, "migrate", [my[r] EXCEPT !.ds = loaded])

Registered(r, d) == CallWithPath(r, "migrate", [my[r] EXCEPT !.ds = d])

Register(r) ==
    LET d == my[r].path IN
    /\ pc[r] = "register"
    /\ IF d \in db.reg THEN Registered(r, d) ELSE Move(r, "insert", my[r])
    /\ UNCHANGED <<memory, store, tables, given>>

(* INSERT and commit; the path is UNIQUE.                                   *)
Insert(r) ==
    LET d == my[r].path IN
    /\ pc[r] = "insert"
    /\ \/ /\ d \in db.reg
          /\ Answer(r, "error")
          /\ UNCHANGED store
       \/ /\ d \notin db.reg
          /\ db' = [db EXCEPT !.reg = @ \cup {d}]
          /\ disk' = db'
          /\ Registered(r, d)
    /\ UNCHANGED <<memory, tables, given>>

(* What follows _ensure_migrated in each method.                            *)
Migrated(r) ==
    CASE my[r].stage \in {"list", "get", "tags"} -> CallWithPath(r, "stamped", my[r])
      [] my[r].stage = "update" -> Move(r, "save", [my[r] EXCEPT !.todo = ask[r].eps])
      [] my[r].stage = "bulk" -> Move(r, "annotations", my[r])

Migrate(r) ==
    /\ pc[r] = "migrate"
    /\ IF DOMAIN db.notes[my[r].ds] # {} \/ DOMAIN Sidecar[my[r].path] = {}
       THEN Migrated(r)
       ELSE Move(r, "sidecar", [my[r] EXCEPT !.todo = DOMAIN Sidecar[my[r].path]])
    /\ UNCHANGED <<memory, store, tables, given>>

SetNote(d, e, note) ==
    [db EXCEPT !.notes[d] = [i \in DOMAIN @ \cup {e} |-> IF i = e THEN note ELSE @[i]]]

(* Mutant: the loop ends at a row that is there already.                    *)
SidecarRowStops(r) ==
    LET d == my[r].ds  old == Sidecar[my[r].path] IN
    /\ pc[r] = "sidecar"
    /\ \E e \in my[r].todo :
         LET rest == IF e \in DOMAIN db.notes[d] THEN {} ELSE my[r].todo \ {e} IN
         /\ db' = IF e \in DOMAIN db.notes[d] THEN db
                  ELSE SetNote(d, e, [grade |-> old[e].grade, tags |-> old[e].tags, reason |-> None])
         /\ IF rest # {} THEN Move(r, "sidecar", [my[r] EXCEPT !.todo = rest]) /\ UNCHANGED disk
            ELSE /\ Move(r, "count", [my[r] EXCEPT !.todo = {}, !.back = "migrated"])
                 /\ disk' = db'
    /\ UNCHANGED <<memory, tables, given>>

(* INSERT OR IGNORE of one legacy row, the commit after the last one.       *)
SidecarRow(r) ==
    LET d == my[r].ds  old == Sidecar[my[r].path] IN
    /\ pc[r] = "sidecar"
    /\ \E e \in my[r].todo :
         /\ db' = IF e \in DOMAIN db.notes[d] THEN db
                  ELSE SetNote(d, e, [grade |-> old[e].grade, tags |-> old[e].tags, reason |-> None])
         /\ LET rest == my[r].todo \ {e} IN
            IF rest # {} THEN Move(r, "sidecar", [my[r] EXCEPT !.todo = rest]) /\ UNCHANGED disk
            ELSE /\ Move(r, "count", [my[r] EXCEPT !.todo = {}, !.back = "migrated"])
                 /\ disk' = db'
    /\ UNCHANGED <<memory, tables, given>>

----------------------------------------------------------------------------
(* ensure_auto_graded: nothing if the dataset is stamped or none is loaded. *)
Stamped(r) ==
    /\ pc[r] = "stamped"
    /\ Move(r, IF my[r].ds \in db.stamp \/ loaded = None THEN "annotations" ELSE "graded", my[r])
    /\ UNCHANGED <<memory, store, tables, given>>

(* The episodes that have a grade by now; then the tables of the dataset    *)
(* that is loaded by now.                                                   *)
Graded(r) ==
    LET notes == db.notes[my[r].ds] IN
    /\ pc[r] = "graded"
    /\ IF loaded = None THEN Answer(r, "error")
       ELSE Move(r, "sweep", [my[r] EXCEPT
              !.files = Files(loaded),
              !.graded = {e \in DOMAIN notes : notes[e].grade # None}])
    /\ UNCHANGED <<memory, store, tables, given>>

(* Mutant: every episode there is data for.                                 *)
SevereInAll(f, path, ungraded) == {ungraded}

(* The ungraded episodes of a table that the pass may find severe: of its   *)
(* severe ones those whose data it can read, for an absent or unreadable    *)
(* data file is passed over.  Which episodes look severe when the rows of   *)
(* one dataset cut into the data of another is left open.                   *)
SevereIn(f, path, ungraded) ==
    SUBSET (IF f[1] = path THEN ungraded \cap Severe[path] ELSE ungraded)

(* One table and the data of its ungraded episodes.  A table that cannot be *)
(* read ends the pass without a stamp; data that cannot be read does not.   *)
Sweep(r) ==
    /\ pc[r] = "sweep"
    /\ \E f \in my[r].files :
         \/ /\ file[f] = Torn /\ UNCHANGED unread
            /\ Move(r, "annotations", [my[r] EXCEPT !.files = {}])
         \/ /\ file[f] # Torn
            /\ \E found \in SevereIn(f, my[r].path, DOMAIN file[f] \ my[r].graded) :
                 LET rest == my[r].files \ {f}
                     severe == my[r].severe \cup found
                     passed == ((DOMAIN file[f] \ my[r].graded) \cap Severe[f[1]]) \ found IN
                 /\ IF rest # {} THEN Move(r, "sweep", [my[r] EXCEPT !.files = rest, !.severe = severe])
                    ELSE Move(r, "upsert", [my[r] EXCEPT !.files = {}, !.todo = severe])
                 /\ unread' = unread \cup ({my[r].ds} \X passed)
    /\ UNCHANGED <<memory, store, tables, ask, aim, calm>>

(* Mutant: the upsert of a grade that does not look at the one there is.    *)
AutoNoteOver(d, e) ==
    [grade |-> "normal", tags |-> IF e \in DOMAIN db.notes[d] THEN db.notes[d][e].tags ELSE {},
     reason |-> "auto"]

(* ON CONFLICT ... CASE WHEN grade IS NULL.                                 *)
AutoNote(d, e) ==
    IF e \notin DOMAIN db.notes[d] THEN [grade |-> "normal", tags |-> {}, reason |-> "auto"]
    ELSE IF db.notes[d][e].grade # None THEN db.notes[d][e]
    ELSE [db.notes[d][e] EXCEPT !.grade = "normal", !.reason = "auto"]

Upsert(r) ==
    /\ pc[r] = "upsert"
    /\ \E e \in my[r].todo :
         /\ db' = SetNote(my[r].ds, e, AutoNote(my[r].ds, e))
         /\ Move(r, "upsert", [my[r] EXCEPT !.todo = @ \ {e}])
    /\ UNCHANGED <<memory, disk, tables, given>>

(* Mutant: the stamp comes before the grades.                               *)
StampFirst(r) ==
    /\ pc[r] = "upsert"
    /\ my[r].ds \notin db.stamp \/ my[r].todo = {}
    /\ db' = [db EXCEPT !.stamp = @ \cup {my[r].ds}]
    /\ disk' = db'
    /\ Move(r, IF my[r].todo = {} THEN "count" ELSE "upsert", [my[r] EXCEPT !.back = "graded"])
    /\ UNCHANGED <<memory, tables, given>>

(* UPDATE datasets SET auto_graded_at, and the commit of the whole pass.    *)
Stamp(r) ==
    /\ pc[r] = "upsert" /\ my[r].todo = {}
    /\ db' = [db EXCEPT !.stamp = @ \cup {my[r].ds}]
    /\ disk' = db'
    /\ Move(r, "count", [my[r] EXCEPT !.back = "graded", !.graded = {}, !.severe = {}])
    /\ UNCHANGED <<memory, tables, given>>

----------------------------------------------------------------------------
(* _load_annotations_from_db.                                               *)
ReadNotes(r) ==
    LET l == [my[r] EXCEPT !.notes = db.notes[my[r].ds]] IN
    /\ pc[r] = "annotations"
    /\ CASE l.stage = "bulk" -> Move(r, "save", [l EXCEPT !.todo = ask[r].eps])
         [] l.stage \in {"get", "tags"} -> Move(r, "read", [l EXCEPT !.files = {l.file}])
         [] l.stage = "list" ->
              IF loaded = None THEN Answer(r, "error")
              ELSE Move(r, "read", [l EXCEPT !.files = Files(loaded)])
    /\ UNCHANGED <<memory, store, tables, given>>

(* An episode as it is answered and cached: the database's annotation       *)
(* replaces the row's.                                                      *)
Merge(rows, notes, e) ==
    IF e \in DOMAIN notes THEN notes[e]
    ELSE [grade |-> rows[e].grade, tags |-> rows[e].tags, reason |-> None]

(* One table of get_episodes' loop, or the table of get_episode.            *)
ReadFile(r) ==
    /\ pc[r] = "read"
    /\ \E f \in my[r].files :
         \/ file[f] = Torn /\ Answer(r, "error") /\ UNCHANGED caches
         \/ /\ file[f] # Torn
            /\ LET rest == my[r].files \ {f}
                   old == my[r].got
                   got == [e \in DOMAIN old \cup DOMAIN file[f] |->
                             IF e \in DOMAIN file[f] THEN Merge(file[f], my[r].notes, e) ELSE old[e]]
               IN \/ rest # {} /\ Move(r, "read", [my[r] EXCEPT !.files = rest, !.got = got])
                     /\ UNCHANGED caches
                  \/ rest = {} /\ my[r].stage = "list" /\ Answer(r, "ok")
                     /\ cache' = got /\ UNCHANGED chart
                  \/ rest = {} /\ my[r].stage = "get" /\ Answer(r, "ok") /\ UNCHANGED caches
                  \/ rest = {} /\ my[r].stage = "tags" /\ StartUpdate(r, got[Target(r)].tags)
                     /\ UNCHANGED caches
    /\ UNCHANGED <<loaded, map, gen, store, tables, given>>

----------------------------------------------------------------------------
(* Mutant: the grade is given in the place of the reason.                   *)
AskedAsReason(r, e) ==
    [grade |-> ask[r].grade,
     tags |-> IF ask[r].op = "patch" THEN my[r].tags
              ELSE IF e \in DOMAIN my[r].notes THEN my[r].notes[e].tags ELSE {},
     reason |-> ask[r].grade]

(* The annotation a request asks for: a bulk grade keeps the tags of the    *)
(* annotations it has read, a reason needs a grade that is bad or normal.   *)
Asked(r, e) ==
    LET l == my[r]  g == ask[r].grade IN
    [grade |-> g,
     tags |-> IF ask[r].op = "patch" THEN l.tags
              ELSE IF e \in DOMAIN l.notes THEN l.notes[e].tags ELSE {},
     reason |-> IF g \in {"bad", "normal"} THEN "user" ELSE None]

(* _save_annotation_to_db with its commit, which commits for everybody.     *)
Save(r) ==
    /\ pc[r] = "save"
    /\ \E e \in my[r].todo :
         /\ db' = SetNote(my[r].ds, e, Asked(r, e))
         /\ disk' = db'
         /\ LET rest == my[r].todo \ {e} IN
            IF rest # {} THEN Move(r, "save", [my[r] EXCEPT !.todo = rest])
            ELSE Move(r, "count", [my[r] EXCEPT !.todo = {}, !.back = "saved"])
    /\ UNCHANGED <<memory, tables, given>>

(* Mutant: the cache is left as it is.                                      *)
FinishUncached(r) == UNCHANGED caches /\ Answer(r, "ok")

(* Mutant: the cached distribution is left as it is.                        *)
FinishCharted(r) ==
    LET hit == IF cache = None THEN {} ELSE ask[r].eps \cap DOMAIN cache IN
    /\ cache' = IF hit = {} THEN cache ELSE [e \in DOMAIN cache |->
                  IF e \in hit THEN Asked(r, e) ELSE cache[e]]
    /\ Answer(r, "ok") /\ UNCHANGED chart

(* The end of update_episode and bulk_grade, without an await: forget the   *)
(* distributions, patch the cache.  An update without a cache asks          *)
(* get_episode for its answer.                                              *)
Finish(r) ==
    LET hit == IF cache = None THEN {} ELSE ask[r].eps \cap DOMAIN cache
        patched(e) == IF ask[r].op = "patch" THEN Asked(r, e)
                      ELSE [Asked(r, e) EXCEPT !.tags = cache[e].tags] IN
    /\ chart' = None
    /\ \/ /\ hit # {}
          /\ cache' = [e \in DOMAIN cache |-> IF e \in hit THEN patched(e) ELSE cache[e]]
          /\ Answer(r, "ok")
       \/ /\ hit = {} /\ UNCHANGED cache
          /\ IF ask[r].op = "bulk" THEN Answer(r, "ok")
             ELSE IF cache = None THEN StartGet(r, "get") ELSE Answer(r, "error")

(* get_file_lock is asked for a table's lock when its turn comes.           *)
NextTable(r, files) ==
    \/ /\ files = {}
       /\ Finish(r)
    \/ /\ \E f \in files :
            Move(r, "lock", [my[r] EXCEPT !.files = files \ {f}, !.file = f, !.lockGen = gen,
                                          !.table = None])
       /\ UNCHANGED caches

(* _write_annotations_to_parquet groups by the map there is now.            *)
WriteBack(r) ==
    NextTable(r, IF map = None THEN {}
                 ELSE {<<map, FileOf[map][e]>> : e \in ask[r].eps \cap Indices(map)})

(* _refresh_dataset_stats: the grades are counted, the tables read for the  *)
(* lengths, the row is written.                                             *)
Count(r) ==
    LET notes == db.notes[my[r].ds] IN
    /\ pc[r] = "count"
    /\ Move(r, "stats", [my[r] EXCEPT !.counts =
         [g \in Grades |-> Cardinality({e \in DOMAIN notes : notes[e].grade = g})]])
    /\ UNCHANGED <<memory, store, tables, given>>

(* After the refresh.  An auto-grade pass ignores that it failed, and        *)
(* forgets the distributions of grades.                                     *)
Refreshed(r) ==
    CASE my[r].back = "migrated" -> Migrated(r) /\ UNCHANGED caches
      [] my[r].back = "graded" ->
           Move(r, "annotations", my[r]) /\ chart' = None /\ UNCHANGED cache
      [] my[r].back = "saved" -> WriteBack(r)

(* The tables are read only when the dataset has a frame rate and notes.    *)
Stats(r) ==
    /\ pc[r] = "stats"
    /\ \/ /\ DOMAIN db.notes[my[r].ds] # {} /\ \E f \in Files(my[r].ds) : file[f] = Torn
          /\ IF my[r].back = "graded" THEN Refreshed(r) ELSE Answer(r, "error") /\ UNCHANGED caches
          /\ UNCHANGED store
       \/ /\ db' = [db EXCEPT !.stats[my[r].ds] = my[r].counts]
          /\ disk' = db'
          /\ Refreshed(r)
    /\ UNCHANGED <<loaded, map, gen, tables, given>>

----------------------------------------------------------------------------
(* Mutant: nothing is locked.                                               *)
ReadTableUnlocked(r) ==
    LET f == my[r].file IN
    /\ pc[r] = "lock"
    /\ IF file[f] = Torn THEN Answer(r, "error")
       ELSE Move(r, "edit", [my[r] EXCEPT !.table = file[f]])
    /\ UNCHANGED <<memory, store, tables, given>>

(* Take the lock and read the table; a lock goes with the gen it is of.     *)
ReadTable(r) ==
    LET f == my[r].file  lock == <<f, my[r].lockGen>> IN
    /\ pc[r] = "lock" /\ lock \notin locks
    /\ \/ /\ file[f] = Torn
          /\ Answer(r, "error")
          /\ UNCHANGED locks
       \/ /\ file[f] # Torn
          /\ Move(r, "edit", [my[r] EXCEPT !.table = file[f]])
          /\ locks' = locks \cup {lock}
    /\ UNCHANGED <<memory, store, file, given>>

(* write_table truncates the file and writes it anew, in place.             *)
WriteBegin(r) ==
    /\ pc[r] = "edit"
    /\ file' = [file EXCEPT ![my[r].file] = Torn]
    /\ Move(r, "write", my[r])
    /\ UNCHANGED <<memory, store, locks, given>>

WriteEnd(r) ==
    LET f == my[r].file  old == my[r].table
        mine == {e \in DOMAIN old : e \in ask[r].eps} IN
    /\ pc[r] = "write"
    /\ file' = [file EXCEPT ![f] = [e \in DOMAIN old |->
                  IF e \in mine THEN [grade |-> Asked(r, e).grade, tags |-> Asked(r, e).tags]
                  ELSE old[e]]]
    /\ locks' = locks \ {<<f, my[r].lockGen>>}
    /\ NextTable(r, my[r].files)
    /\ UNCHANGED <<loaded, map, gen, store, given>>

(* Mutant: the lock is released after the write only.                       *)
WriteRaisesLocked(r) ==
    /\ pc[r] = "write"
    /\ Answer(r, "error")
    /\ UNCHANGED <<memory, store, tables, given>>

(* A full disk: the request fails, and the table stays as it is.            *)
WriteRaises(r) ==
    /\ pc[r] = "write"
    /\ locks' = locks \ {<<my[r].file, my[r].lockGen>>}
    /\ Answer(r, "error")
    /\ UNCHANGED <<memory, store, file, given>>

(* The process dies: the answers never come, the tables stay as they are.   *)
Crash ==
    /\ loaded' = None /\ map' = None /\ gen' = 0 /\ cache' = None /\ chart' = None
    /\ db' = disk
    /\ locks' = {}
    /\ pc' = [r \in Reqs |-> IF pc[r] \in Ended \cup {"new"} THEN pc[r] ELSE "lost"]
    /\ my' = [r \in Reqs |-> Blank]
    /\ UNCHANGED <<disk, file, given>>

Start(r) == Load(r) \/ List(r) \/ Get(r) \/ Patch(r) \/ Bulk(r)

Handler(r) ==
    \/ Register(r) \/ Insert(r) \/ Migrate(r) \/ SidecarRow(r)
    \/ Stamped(r) \/ Graded(r) \/ Sweep(r) \/ Upsert(r) \/ Stamp(r)
    \/ ReadNotes(r) \/ ReadFile(r) \/ Save(r) \/ Count(r) \/ Stats(r)
    \/ ReadTable(r) \/ WriteBegin(r) \/ WriteEnd(r) \/ WriteRaises(r)

Next == (\E r \in Reqs : Start(r) \/ Handler(r)) \/ Crash

Spec == Init /\ [][Next]_vars

(* The event loop resumes every handler whose await is over.                *)
FairSpec == Spec /\ \A r \in Reqs : WF_vars(Handler(r))

----------------------------------------------------------------------------
(* Properties *)

Annotates(r, e) == ask[r].op \in {"patch", "bulk"} /\ e \in ask[r].eps
Sole(r, e) == Annotates(r, e) /\ \A q \in Reqs \ {r} : ~Annotates(q, e)
OkFor(r, d) == pc[r] = "ok" /\ aim[r] = d

(* An annotation answered with success is in the database and in the        *)
(* episode table for good, if nobody else annotates that episode: whatever  *)
(* other requests do to its neighbours in the same table, and wherever the  *)
(* server dies.  (A table that a failure left torn has lost it; a grade     *)
(* that is cleared may be graded anew when the episode is severe.)          *)
OkIsStored ==
    \A d \in Datasets, r \in Reqs : OkFor(r, d) =>
        \A e \in Indices(d) : Sole(r, e) /\ (ask[r].grade # None \/ e \notin Severe[d]) =>
            LET f == <<d, FileOf[d][e]>>  g == ask[r].grade IN
            /\ e \in DOMAIN disk.notes[d] /\ disk.notes[d][e].grade = g
            /\ file[f] # Torn => file[f][e].grade = g /\ file[f][e].tags = disk.notes[d][e].tags

(* It holds as long as no dataset is loaded while a request waits.          *)
CalmOkIsStored == calm => OkIsStored

(* A grade in the database gives way only to the grade of a request that    *)
(* names its episode, never to the auto-grade pass or to the migration of   *)
(* legacy annotations, however late they write what they have computed; or  *)
(* it was not committed and is rolled back.                                 *)
GradesAreKept ==
    [][\A d \in Datasets : \A e \in DOMAIN db.notes[d] :
          LET old == db.notes[d][e] IN
          \/ old.grade = None
          \/ e \in DOMAIN db'.notes[d] /\ db'.notes[d][e] = old
          \/ \E r \in Reqs : pc[r] = "save" /\ my[r].ds = d /\ e \in my[r].todo
          \/ e \notin DOMAIN disk.notes[d] \/ disk.notes[d][e] # old]_vars

(* A committed stamp means that the pass is over: every episode with a      *)
(* severe band has a committed grade, or somebody annotates it himself, or  *)
(* a pass could not read its data, which is then never looked at again.     *)
(* Other handlers commit the pass piece by piece with their own writes, and *)
(* the server may die between any two of them.                              *)
StampMeansGraded ==
    calm => \A d \in disk.stamp : \A e \in Severe[d] :
        \/ e \in DOMAIN disk.notes[d] /\ disk.notes[d][e].grade # None
        \/ \E r \in Reqs : Annotates(r, e)
        \/ <<d, e>> \in unread

(* A machine-written reason stands only on episodes that are severe.        *)
AutoGradeIsDeserved ==
    \A d \in Datasets : \A e \in DOMAIN db.notes[d] :
        db.notes[d][e].reason = "auto" => e \in Severe[d]

(* It holds as long as no dataset is loaded while a request waits.          *)
CalmAutoGradeIsDeserved == calm => AutoGradeIsDeserved

(* Whatever dataset is loaded while a request waits, its annotation goes to *)
(* the database rows of the dataset that was loaded when it was sent: but   *)
(* for a PATCH without tags, which asks for them first and then begins anew *)
(* with the dataset that is loaded by then.                                 *)
RowsOfTheRightDataset ==
    \A d \in Datasets : \A e \in DOMAIN db.notes[d] :
        db.notes[d][e].reason = "user" => \E r \in Reqs :
            /\ Annotates(r, e) /\ ask[r].grade = db.notes[d][e].grade
            /\ aim[r] = d \/ (~calm /\ ask[r].op = "patch" /\ ask[r].tags = None)

(* An annotation answered with success is what the cache shows from then    *)
(* on, to everybody, if nobody else annotates that episode.                 *)
AnsweredIsCached ==
    \A r \in Reqs : loaded # None /\ cache # None /\ OkFor(r, loaded) =>
        \A e \in DOMAIN cache : Sole(r, e) => cache[e].grade = ask[r].grade

(* When nothing is in flight and the server has not died with a request,    *)
(* every legacy annotation of a dataset has been migrated or replaced, once *)
(* any annotation of the dataset is in the database: after that nobody      *)
(* looks at the legacy file again.  Requests that migrate it at the same    *)
(* time share its rows between them.                                        *)
LegacyIsMigrated ==
    calm /\ Quiet /\ (\A r \in Reqs : pc[r] # "lost") => \A d \in Datasets :
        DOMAIN db.notes[d] # {} => DOMAIN Sidecar[d] \subseteq DOMAIN db.notes[d]

(* Again and again nothing is in flight: every request that has begun is    *)
(* answered, whatever fails, unless the server dies with it.  Nobody waits  *)
(* for ever for the lock of a table.                                        *)
RequestsEnd == []<>Quiet
=============================================================================
