# A TLA+ model of the LeRobot curation tools

The program is a FastAPI server (one process, one asyncio event loop, a thread
pool) with a React page.  A user picks a LeRobot v3 dataset, looks at its
episodes, grades and tags them, trims, splits and merges datasets, and watches a
container that converts recordings.  This directory holds TLA+ modules that
model the server's core logic, TLC configurations that check them on small
instances, and proofs that TLAPS checks for every instance.

    tlc -workers 2 -config InPlaceJobs.cfg MCInPlaceJobs
    tlapm InPlaceJobsProofs.tla

Each part that keeps state is a module of its own; `Library` composes the
dataset server: its annotators, the visitors that read and rewrite the same
tables, and the start of its database.

## 1. The system

| component | state it keeps | operations | how it meets the others |
|---|---|---|---|
| Dataset jobs (`dataset_ops_service.py`) | `_jobs` in memory; datasets and `.bak` directories on disk | delete, split, merge, sync, stamp, status | workers in the thread pool; the router creates jobs, the page polls them |
| Engine (`dataset_ops_engine.py`) | none | read, select, reindex, write a dataset | called by the workers, works on directories other code has open |
| Dataset service (`dataset_service.py`) | the one loaded dataset, its episode map, file locks, episode and distribution caches | `load_dataset`, getters | a singleton every handler reads between its awaits |
| Annotations (`episode_service.py`) | rows of `episode_annotations`, `dataset_stats`; grade and tags in the episode tables | list, get, PATCH, bulk grade | one SQLite connection shared by all handlers |
| Auto-grade (`auto_grade_service.py`) | `datasets.auto_graded_at` | one pass per dataset, begun by the first reader | inside list and get |
| Cells, search, distributions, export (`cell_service.py`, `distribution_service.py`, `export_service.py`) | rows of `datasets`, caches | scans and aggregates | write back statistics, read the caches above |
| Tasks and fields (`task_service.py`, `fields_service.py`) | tasks table, `info.json`, episode tables | edit a task text, add or drop a column | rewrite the same files as annotations |
| Cycle stamps (`cycle_stamp_service.py`) | two columns of the data files | stamp | runs inside an in-place job |
| Database (`core/db.py`) | schema version | migrations at startup | |
| Converter (`converter/service.py`, `router.py`) | the Docker container, build flag, log sockets | build, start, stop, status, logs | separate processes |
| Validation (`validation_service.py`) | state file, run locks | quick and full validation | threads and handlers |
| Page (`frontend/src`) | what it shows, pollers | | stale answers, repeated requests |

What is hard in it: handlers interleave at every await while they share a
singleton that another request can point to another dataset; one handler's
commit commits everybody's rows; threads move directories other threads read;
nothing is undone when the process dies; and a number is the only name of an
episode.  `PROJECT.json` lists these hazards at their lines, with the
properties that are about them.

What makes each part correct:

* dataset jobs: a dataset is never lost, a job's result is all or nothing, and
  a job that is reported complete has done what it was asked;
* the engine: over any sequence of edits every episode keeps its frames, its
  video and its instruction, and what the edits leave can be edited again;
* annotations: what was answered with success is stored and stays, in the rows
  of the right dataset; machines never overwrite users; the pass is complete
  when it says so; every request is answered;
* cells, distributions, export: numbers and selections are those of the grades
  as they are when nothing is in flight;
* tasks and fields: an edit that was answered stays, beside every annotator;
* database: the version promises no more than there is, and a start that was cut
  is taken up again;
* converter: one build at a time, each accepted build has a result, a stop
  leaves no container of before it, a start takes no running one away, and every
  request is answered even when docker hangs;
* validation, bands, cycle stamps: the code's cursors and automata compute what
  their definitions say.

## 2. The plan

Done:

1. `AtomicReplace`, `InPlaceJobs` and `DatasetOps`, with proofs.
2. `Annotations`, with proofs of every safety property its run checks.
3. `Converter` with proofs.
4. `Migrations` with proofs; `Library`, which composes it with `Annotations` and
   the other readers and writers of the dataset server; the proof that the
   composed server implements `Migrations`, and of its other invariants.
5. `Engine`, `CycleStamps`, `AutoGradeBands`, `Validation` as operators, and
   `Edits`, which runs them over sequences of jobs, with proofs of every property
   its passing run checks.

Left, in this order:

1. the web page: pollers, repeated requests and answers out of order;
2. small algorithms: the bins of a histogram, the counting of recordings, the
   parsing of log lines.

## 3. The modules

### Dataset jobs

**`AtomicReplace`** is what an in-place job promises: a dataset holds one value,
a job replaces it in one step or fails without one, a restart forgets jobs and
touches nothing.

**`InPlaceJobs`** is `_run_with_backup` with the two jobs that use it (delete
without an output directory, stamp), and the job table.

| state | code |
|---|---|
| `dir[d]`, `bak[d]` | what is at the dataset's path and at its `.bak` path: a whole value, `Partial`, `Emptied` (only the directory is left) or `Absent` |
| `status[j]`, `pc[j]` | `_jobs[id]["status"]`; the line the worker thread is at |
| `read[j]` | what `fn` has read from the backup |
| `target[j]` | the dataset the job is for: fixed, any choice of targets is an initial state |
| `overtaken` | history: the datasets that a job renamed to their backup's path while another was between the last `unlink` and the `rmdir` of that backup |

An action is a system call or a stretch of code that touches no shared file:
`RenameToBackup`, `FnBegin` (make the output) and `FnEnd`, the three parts of
`rmtree` (`DiscardBegin`, `DiscardEmpty`, `DiscardEnd`), the except block
(`Undo`, `UnbuildEnd`, `Restore`), and a failure of each.  `Crash` ends every
worker and forgets `_jobs`.  What `fn` computes is the constant `Effect`;
`Rejected` stands for a function that raises on that value.  `rename(2)` is
modelled as it is: it replaces an empty directory and refuses any other.  So a
second job's rename can overtake the last `rmdir` of a first one's `rmtree`,
which then fails; section 6 says what comes of that.

**`DatasetOps`** opens `fn`: delete, split and merge read the metadata of their
sources, copy one data file per episode, skipping one that is not there, and
write the metadata last.  A directory is its episode table (`meta`) and its data
files (`data`); the k-th episode is in the k-th file, as in every dataset the
engine writes.  A directory is `there` or not apart from what is in it: a job
makes its output directory before it copies, and fails if its source is not
there.  `Planned(j)` is the list of rows the engine computes from the metadata
of its sources before it copies anything.  `ReadSources` is one step although the
code opens one file after another: a job in between could leave a merge with one
source as it was before and another as it is after that job.  `Submit` is the router with `_create_job`; `Rename`,
`DiscardBackup` and `Undo` are `_run_with_backup` in coarse steps, since
`InPlaceJobs` has the fine ones.  Two predicates on the requests, `Separate` (a
job with an output directory names one that nobody has or reads) and
`OneDelete` (one in-place delete per dataset), are hypotheses of theorems; the
MC module assumes both of the requests of its runs, and TLC evaluates them.
`disturbed` is a history variable: another
job wrote to a directory this job was using.

### What the jobs compute

**`Engine`** is `dataset_ops_engine.py` as operators: a disk maps names to
datasets, and `DeleteEpisodes`, `SplitDataset` and `MergeDatasets` yield the
disk after the call.

| in the model | code |
|---|---|
| `info`, `tasks`, `tables` | `meta/info.json`, `meta/tasks.parquet`, the files of `meta/episodes` |
| `data`, `video` | the files under `data/` and `videos/` of one camera, named by chunk and file index; `of` in a row is what no function rewrites: which frame of which recording it is |
| `torn` | parts that cannot be read |
| `Reindexed`, `SourceMap`, `Copied`, `Written` | `reindex_episodes`, the `source_map` of each function, the copy loop and the whole of `write_dataset` |

The disk is passed from copy to copy, so a job whose output is one of its
sources reads what it has just written, as the code does.  Names sort as numbers
because the code pads them.

**`CycleStamps`** (`cycle_stamp_service.py`) is the two-threshold automaton of a
gripper and the columns it leaves; **`AutoGradeBands`** is `compute_bands`:
classify, merge, downgrade short runs, merge again; **`Validation`** is the quick
and the full check with their cursors, and the version test of the smoke test.

**`Edits`** is a state machine over these: users delete, split, merge, stamp and
validate in any order, with any output.

| state | code |
|---|---|
| `disk` | the directories, and the `.bak` of an in-place job |
| `badge[n]` | `convert_validation_state.json`: the last verdict of each check |
| `loader` | the server's lerobot package: its version and what its loader does |
| `past[n]` | history: `fresh`, `over` (written over another dataset's files), `spoilt` (the output was one of the sources, or a source was not fresh) |
| `trace` | the values of one joint, or of two grippers, as frames arrive |
| `steps` | bound by `MaxSteps` |

### The dataset server

**`Annotations`** has one action per stretch between two awaits of `load_dataset`,
the four handlers of `routers/episodes.py`, `_ensure_dataset_registered`,
`_ensure_migrated`, `ensure_auto_graded`, `_refresh_dataset_stats` and
`_write_annotations_to_parquet`.

| state | code |
|---|---|
| `loaded`, `map`, `gen`, `cache`, `chart` | `_dataset_path`, `_episode_to_file_map`, how often `_file_locks` was replaced, `episodes_cache`, `distribution_cache` |
| `db`, `disk` | what the one connection sees, and what of it is committed: a commit of any handler commits everything |
| `file`, `locks` | the rows of each episode table (`Torn` while `write_table` is at it), the locks held; a lock belongs to the `gen` it was made in |
| `pc[r]`, `my[r]` | the await a handler is in, its local variables |
| `ask[r]` | the request; `aim`, `calm` are history: the dataset loaded when it began, and whether no dataset was ever loaded while a request waited |
| `unread` | history: the severe episodes whose data an auto-grade pass could not read |

An `execute` and the `commit` right after it are one step: nothing between them
depends on the commit, and a crash there is a crash before the step.  A lock is
taken together with the reading of the table it protects: whoever may not write
the table in between leaves the reading the same.  `_refresh_dataset_stats`
reads the episode tables only when the dataset has a frame rate, which
`Annotations` leaves open.  A bulk request names at least one episode.  An
auto-grade pass may find the data of any episode absent or unreadable
(`SevereIn`): the code then goes on to the next and stamps the dataset all the
same.

**`Migrations`** is `init_db`: three scripts, statement by statement, each
followed by its `PRAGMA user_version`.

| state | code |
|---|---|
| `version`, `has` | `PRAGMA user_version`; what the scripts have added so far |
| `boot` | the statement `init_db` is at, or that it has ended (`up`) or raised (`failed`) |
| `cut` | history: the versions whose migration a crash has cut |

**`Library`** EXTENDS `Annotations`, INSTANCEs `Migrations` (whose `Stamp` is the
UPDATE of the third script over the rows of `db`), and adds the visitors: the
scan of a cell, the distribution of grades, the export, a new column, the edit
of a task.

| state | code |
|---|---|
| `want[v]`, `at[v]`, `seen[v]`, `todo[v]` | what a visitor asks for, where it is, what it has read, what it has left |
| `loop` | the synchronous visitor that holds the event loop: beside it only threads that write a table go on |
| `early` | `dataset_service._episodes`, the rows as they were when loaded |
| `cols`, `held[r]` | the tables with the new column; had it the table that handler `r` has in hand? |
| `text[d]`, `words`, `worded[r]`, `shown` | the text in `tasks.parquet`, in `dataset_service._tasks`, as a list has read it, and in `episodes_cache` |
| `old`, `spoiled`, `late`, `crossed`, `apart` | history: the exceptions that the properties name |

A scan awaits the database between its rows and is three actions; the others are
synchronous and are one action, except the column, which rewrites table after
table while a writing thread may be at one of them.  A dataset without tables
makes it fail, as the code's empty glob does.  The tables of a dataset are
numbered, as their names are.  A server starts on an empty database (`LibInit`)
or on one of an earlier version with any rows in it (`UpgradeInit`); both are
initial states of `LibrarySpec`.

### The converter

**`Converter`** has the handlers of `converter/router.py` with the docker commands
of `converter/service.py`, the background task of a build, and docker itself.

| state | code |
|---|---|
| `box` | the one container of that name: its state and the request that created it |
| `cli[r]` | the docker command a handler awaits, and what came of it so far |
| `pc[r]` | the await a handler is in, or how it was answered |
| `bad` | `_run(... "rm" ...)` went wrong in `stop_converter` |
| `attached[r]`, `gone` | the container a log stream follows; streams whose client has left |
| `task[r]`, `lock`, `last` | the task of an accepted build, `_build_lock`, `_last_build_result` |
| `before`, `blind`, `owed`, `hurt` | history: what was over when a request began, starts that could not see the container, builds without a result, builds lost or raised |
| `crashes` | bound by `MaxCrashes` |

A command does its work at some moment while its handler waits; the handler may
give up before or after it (`Heard` always has `"failed"`).  `compose run` is two
steps, create and start.  What a killed command has asked the daemon for has
been done by then or never is; the commands of a server that died run on.
`docker`, `compose` and the container are not under the repository: they are
marked external and modelled from how the code calls them.

An operator whose comment begins "Mutant" is a plausible bug of the definition
that follows it; no specification uses it.

## 4. The runs

| run | expects | what it shows |
|---|---|---|
| `in_place` | pass | three jobs (two deletes, one stamp) on one or two datasets, every failure, crashes: `ACopySurvives`, `OneOwner`, `OrphanIsKept`, `JobsAreAtomic` (the refinement of `AtomicReplace`), and under fairness `JobsFinish` |
| `in_place_tears` | violation of `ACopySurvives` | without the assumption on `rmtree` below |
| `ops` | pass | a delete in place, a split and a merge that read the same dataset, the last two into the same output |
| `ops_race` | violation of `CompleteIsWhole` | a delete in place beside a split of the same dataset |
| `annotations` | pass | five scenarios of two or three requests, with crashes, failed writes and unreadable data at any moment (500 thousand states) |
| `annotations_reload` | violation of `OkIsStored` | a dataset is loaded again while two annotators wait |
| `annotations_wrong_data` | violation of `AutoGradeIsDeserved` | another dataset is loaded during a list |
| `annotations_stale` | violation of `AnsweredIsCached` | a list beside a PATCH |
| `library` | pass | four kinds of scenario, each with two visitors beside one or two annotators, lists or loads: scanning, editing, texting, and a start on a database of any version (590 thousand states) |
| `converter` | pass | two starts, a start and a stop, a start and a log stream, two builds and a status, each beside a container that was there or not and ends by itself (71 thousand states) |
| `edits` | pass | two edits or checks in any order over tidy and packed datasets, 32 drafts with one fault or two that even out, six lerobot packages, every trace of six frames (170 thousand states) |
| `edits_texts` | violation of `TextsAreKept` | a merge of two datasets that number different tasks alike |

**Bounds.** Three in-place jobs: two contend for a rename while a third meets
what they leave, and with crashes that is every situation a job can find (whole,
partial, emptied or no backup; whole, partial or no dataset).  Two episodes are
enough for deletes to differ, two datasets for jobs that do not contend.  In
`DatasetOps` the dataset that is taken away has three episodes, so that a copy
can be overtaken before, between and after the files it needs.  In `Annotations`
one dataset has two episodes in one table (annotators share a lock) and one has
three in two tables with legacy rows, one of them without a grade (two
migrations can overlap with something left over); three requests let a load, a
pass and an annotator overlap.  Crashes are not bounded: they lose what is in
flight, and requests and jobs are not sent again.

In `Library` one dataset has two tables (a column can be in one and not in the
other) and one has legacy annotations; a start finds any of the four versions.
In `Converter` two requests contend for the one container, and one crash is
enough for a command to outlive the server that launched it.  In `Edits` a chunk
holds two files where the code has 1000, so that episodes cross chunks; a severe
run is three frames where the code has five, so that a trace of six holds a run
that is long enough, one that is too short, and what lies between; recordings
have one to three frames, so that episodes of equal and of different length meet;
and two edits reach an edit of an edited dataset and a check of what it leaves.

**Fairness.** `FairSpec` of `InPlaceJobs` is weak fairness of each worker: the
thread pool runs a thread it has started until it returns, and three jobs are
fewer than its threads.  `FairSpec` of `Annotations` is weak fairness of each
handler that has begun: the loop resumes a handler whose await is over, and an
`asyncio.Lock` hands itself to its waiters in turn.  `FairSpec` of `Converter` is
weak fairness of each handler, which is resumed when its command or its timeout
is over and so needs nothing of docker; of the task of a build, which has no
timeout and is assumed to end; and of the log process, which notices that its
container has ended.  Docker itself is not fair.  No step is fair that needs a
user: requests need not be sent, clients need not leave, and a crash need not
come.

**`CHECK_DEADLOCK FALSE`** everywhere: jobs and requests are finitely many, and a
server with nothing left to do is no deadlock.  That nothing waits for ever is
what `JobsFinish`, the two `RequestsEnd` and `LockIsReleased` say.

## 5. The proofs

### In-place jobs

`InPlaceJobsProofs` proves, for all sets of datasets, jobs and values and every
`Effect`:

* `TypeCorrect`: the types, with no assumption on `rmtree`;
* `BackupHasOneOwner`, `CopySurvives`: two of the safety properties of run
  `in_place`;
* `OrphanKept`, the third, with nothing assumed of `rmtree`;
* `ImplementsAtomicReplace`: the refinement of `AtomicReplace`.

All but `TypeCorrect` and `OrphanKept` assume `~RmtreeTears`: an `rmtree` of the
backup that has begun does not fail half way.  That is a real restriction:
without it run `in_place_tears` finds the loss of a dataset.  Nothing is assumed
of the schedule.  The one moment at which a second job gets past its rename, the
gap before the `rmdir`, is in the model, and the properties say what holds then:
only in that gap do two workers come to own one backup (`OneOwner`), and a
dataset that was never overtaken in it has a complete copy.

The argument.  `OneOwner` is not inductive: that a second worker is kept out
rests on what is on disk.  `IInv` adds, per worker, what the line it is at says
of the two directories (`StepInv`: from the rename to the first removal the
backup is whole; while the backup goes, the dataset is whole) and, per dataset,
that one of the two is whole (`DiskInv`), both until the dataset is overtaken.  A
rename needs `bak` to be absent or emptied; an owner that is not at its `rmdir`
keeps it otherwise, so a rename finds no owner, or overtakes one.  The lemma
`OneJobStep` says that a step of a job that owns its dataset, or finds it
without owner, or touches no directory, disturbs nobody else's part of the
invariant; each action then has only its own part to show.  For the refinement
a dataset's content is the backup's while that is whole and its own after that,
so the first removal from the backup, `DiscardBegin`, is the step that applies a
job.  `InPlaceAssumption` (the marks for directories are not values, `Effect`
yields values or `Rejected`) is the only assumption on the other constants.

### Annotations

`AnnotationsProofs` proves, for all datasets, episodes, tables, requests and tags,
from `AnnotationsAssumption` alone (the marks are not grades or datasets, rows
and legacy annotations are well formed):

* `RightRows` (`RowsOfTheRightDataset`), `GradesKept` (`GradesAreKept`),
  `DeservedGrades` (`CalmAutoGradeIsDeserved`), `StampPromises`
  (`StampMeansGraded`).

The argument.  A handler acts, many awaits later, on what it has read before, so
each property needs an account of what its local variables mean.  `LocalInv`
gives it: the shapes of `my[r]`, and per await what `r` is there for (`Purpose`),
which dataset it works on (`Place`: that of its request for an annotator, the
loaded one for the pass while it is calm) and what the pass has in hand
(`Sweeps`).  `StoreInv` says of every note in the database, and of every note
that is committed, that a request asked for it or that it was deserved
(`Asker`, `Deserved`); it must hold of both because any handler's commit
publishes everybody's rows, and a crash brings the committed ones back.
`StampInv`, on top of `TablesInv` (a table that can be read, or that an annotator
has in hand, has its rows), follows the pass while no dataset is loaded meanwhile:
at every await a severe episode is settled (it has a grade, or a request names
it, or its data could not be read), or the pass has found it, or still has its
table to read (`Swept`, `Noted`).  So every stamp, in the database and among what
is committed, has settled episodes behind it (`Done`), whoever commits first.

The second half of the module goes on from there, under the same assumption:

* `OkStored` (`CalmOkIsStored`), `LegacyMigrated` (`LegacyIsMigrated`), `Types`
  (`TypeOK`).

The argument.  An annotation passes through the database, the statistics and
every table that holds one of its episodes, and may be lost on the way to
another's copy of the same table.  `RouteInv` keeps the way to the tables: who is
about which dataset, that the holder of a lock is the one handler at that table
(`OneEach`), and that while no dataset is loaded meanwhile all locks are of one
generation, so at most one handler has a table in hand.  This is where the proof
needs `calm`: a load replaces the locks, and `annotations_reload` shows what two
handlers with locks of two generations do.  `StoredInv` says where the annotation
of an episode's owner (the one request that may name it) is at each await: past
its save it is in the database, committed; past its table it is in the table, and
in every copy of it that a handler has in hand and will write back, unless the
table is torn.  `LegacyInv` says of each legacy annotation that the database has
it, or that every handler which will mark the migration as done still has it in
hand; two handlers that migrate the same dataset share what is left.  `TypedInv`
gives the types of what a handler has in hand at each await, from which `TypeOK`
follows, with the count of generations: there is no more than one per request.

### Dataset operations

`DatasetOpsProofs` proves for all trees of directories, jobs and requests, from
`DatasetOpsAssumption` (what a request of the API can be; an original dataset
lists no episode twice):

* `Types` (`TypeOK`), without further hypotheses;
* `InPlaceIsExact` (`InPlaceBuildIsExact`), `UndisturbedWhole`
  (`UndisturbedIsWhole`), if the requests are `Separate`;
* `OnlyChosen` (`OnlyChosenGo`), if they are `Separate` and `OneDelete`.

The hypotheses are real.  A job whose output is another's source writes over what
that one reads without renaming anything, and is not refused (section 6); the
second of two deletes of one dataset counts places in what the first has left.
Neither keeps jobs from reading a dataset while a delete takes it away, which is
what `ops_race` is about.

The argument.  `WorkInv` has four parts beside the types.  `HeldInv`: a job
between its rename and its end has the backup, and no other job has it, because a
rename needs that name to be free.  `SoundInv`: a directory no job names as its
`output_dir` has the data of every episode its metadata lists, at any time, since
the metadata comes last.  Per job, `Builds`: unless somebody else wrote there,
what it plans to copy is still there, under the file and with the episode it
read, what it has copied is as planned, and the plan of an in-place job selects
from its backup (`Taken`).  `ChosenInv` then follows the one delete of a dataset:
before its rename the original is in place, until the backup goes it is in the
backup, and when that goes what was built is whole.  The lemmas about
`Planned` (`PlanIsTheRows`) are the only ones that count.

### Converter

`ConverterProofs` proves for all requests, asks and numbers of crashes: `TypeCorrect`,
`BuildsAreSerial` (`OneBuild`), `AcceptedAreReported`, `StopsEmpty`
(`StoppedIsGone`), `StartsSpare` (`StartSparesTheRunning`) and `StartedStands`
(`StartedIsThere`).

The argument.  `BuildInv`: nobody holds the lock but the one task that builds
(`OneBuild`), a request without an accepted build has no task (`NoTaskYet`), as
long as builds are owed, some task waits or builds (`SomebodyPays`), and a
finished build has left a result (`DoneIsSeen`).  `BoxInv`: what was over when a
request began is still over (`BeforeIsOver`), so from the moment a stop has seen
its removal succeed, and a start has been told that there is no container, only
requests that were not over can have created one (`EmptiedIsFresh`,
`ToldIsFresh`).  `StartInv` follows a start's own container from its creation
(`StartsStand`), and which command a request may have launched (`CommandsFit`).

### Migrations, and the server that has them

`LibraryProofs` begins with the starts by themselves, an instance of `Migrations`:
the version is honest and only a cut migration fails (`MigrationsHonest`,
`MigrationsFailCut`), with an invariant that says what the
database has beyond its version (`InOrder`), that only a crash leaves more
(`MoreIsExplained`), and that the statement `init_db` is at fits both
(`PlaceFits`).  It then proves that the composed server implements
`Migrations` (`ServerMigrates`): no request and no visitor touches the schema,
and a crash of the server is a crash of `init_db`.  So both hold of the server
(`HonestVersion`, `FailsOnlyCut`).

### The composed server

`LibraryProofs` proves of `LibrarySpec`, for all datasets, requests and visitors,
from an empty database or any database of an earlier version, and with
`AnnotationsAssumption` and `LibraryAssumption`:

* `ColumnsStay` (`ColumnStays`), `TextsShown` (`TextIsShown`), `OldAreSpared`
  (`OldAreNotGraded`), `ChartsAreCurrent` (`ChartIsCurrent`), `ServerTypes`
  (`LibTypeOK`);
* `StatsStayExact`: `StatsAreExact` always holds if it holds at the start;
  `StatsExactFromEmpty` the same of an empty database, which satisfies that.  An
  earlier version may have left statistics that are off, so that nothing can be
  said of them from such a database alone;
* `ExportsObey` (`ExportObeys`), an action property: what the step that ends an
  export leaves out.

The argument.  `LocalServed` carries `LocalInv` over to the server: a visitor
changes nothing that a handler has in hand.  Each property then has its own
invariant, of what is still owed:

| invariant | says |
|---|---|
| `ColumnInv` | who adds a column holds the event loop, so only threads that write a table go on beside it; a table has the column, or is still to get it, or was in somebody's hands when the column came |
| `TextInv` | the service has the text of the loaded dataset's file, and so have lists and the cache, unless the edit came late |
| `OldInv` | a dataset from before version 3 is stamped, in the database and in what is committed, before the server serves; a crash brings back only what was committed |
| `ChartInv` | while there is a distribution of the loaded dataset, either it is that of the database, or a request that has changed grades is still to forget it (`Dirty`) |
| `StatsInv` | the statistics are those of the grades, or the tables of the dataset can no longer be read (`Frozen`), or the one request in flight is still to count and write them; a scan has counted what is there (`Tallied`) |
| `GrantedInv` | a grade that one request alone asks for is in the database, and committed, once that request is past its save: handlers of other episodes keep it, a visitor migrates legacy annotations only where there are no notes, and a crash brings back what was committed |
| `ServerTyped` | the types, of handlers and visitors |

`ChartInv` and `StatsInv` need no more of the handlers than how each await ends
for the grades (`DirtyGoesOn`, `ChartForgotten`): this is where a handler that
forgot to clear the cache, or to count, would fail the proof.  Counting itself
is a function of the notes, and nothing is proved about the numbers but that
equal notes have equal counts and that counts are naturals.

### Edits

`FoldProofs`, `EditsProofs` and `EditsExactProofs` prove all that run `edits`
checks, for any datasets on the shelves, any number of jobs, episodes and frames,
any chunk size and traces of any length:

* `BandsAreThoseMeant` (`BandsAreMaximal`), `VerdictsMeanWhatTheySay`
  (`VerdictsAreExact`);
* `QuickIsExactAlways` (`QuickIsExact`), `TidyStays` (`TidyStaysTidy`),
  `StampsStayRight` (`StampsAreRight`).

They assume `EditsAssumption`, that the constants fit each other, and
`ShelvesAssumption`: what users begin with is a dataset in types, and one that is
not a draft is `Faithful`, as a converter leaves it (its episodes are the frames
of their recordings, each in its file).  TLC evaluates both for every shelf and
draft of the run.  Drafts are any datasets in types, with any faults.

The loops of the code are folds, and a claim about a fold is a claim about every
length of its sequence.  No induction scheme is used for that: `FoldProofs` shows
that a fold is the last value of its *trace*, the sequence of its partial results,
and that the trace begins at the base and takes one step for each element
(`FoldIsTraced`); each loop is an instance of it with its own step.  A claim about
a trace is then a claim about a set, the set of steps at which it holds: it
contains 0 and with each step the next, so it is all of them (`Upward`, `UpTo`).
On that rest, each for any input:

| lemmas | say |
|---|---|
| `OrderedLists`, `SortedBySorts`, `KeptPicks` | sorting and filtering list the elements of a set, each once, in order |
| `ConcatCells`, `ConcatTogether`, `PartsJoined` | reading all tables, or all data files, is reading each row of each file once, in the order of the names |
| `CursorTiles`, `RangesTileExact` | the cursor reaches the number of rows just when the ranges are disjoint, not empty and cover the rows |
| `AllReferredExact`, `ReferencesMatchExact` | the walk over segments and rows in step succeeds just when every row lies in the range of its own episode and task |
| `ArmEndsExact` | the two-threshold automaton ends a cycle just where its definition does |
| `RunsBanded`, `DowngradedBanded`, `JoinedBanded`, `BandsExact` | each pass of `compute_bands` leaves maximal runs, the last one of the levels as they are meant |

Of the jobs, `EditsTyped` is the invariant of the types.  `EditsSound` is that of
the content, by how it came about (`past`): a directory only ever written as it
should be has the rows of each of its episodes (`Fresh`), is sound and has a file
for each when no recording is packed; and in any directory where no job wrote
over its own source, what is `Sound` is `Exact`: every file is some episode's,
with all frames of its recording once, its video, and right marks if it is
stamped.  The step that matters is the copy loop: by a count of rows, if files
held more than their episode the totals of the result do not even out, so a
dataset that passes the quick check was copied file by file.

### Only model-checked

Liveness (`JobsFinish`, the two `RequestsEnd`, `LockIsReleased`) is out of the
prover's reach: it needs fairness and `ENABLED`.  The properties that runs expect
to be violated are no theorems.  Every other property of every run is proved.

## 6. What the runs found

Six disagreements of the code with its documentation or tests are runs that
expect a violation (`findings` in `PROJECT.json`).  The others were seen with
the same modules; where a property has an exception, this is what it excepts.

Jobs:

* a second in-place job can rename the dataset onto the emptied backup between
  the last `unlink` and the `rmdir` of a first job's `rmtree`.  The `rmdir` fails,
  the first job's except block removes what the second has built and takes the
  second's backup for its own; when the second fails in turn, it removes that,
  and the dataset is lost (`overtaken` in `OneOwner`, `ACopySurvives` and
  `JobsAreAtomic`);
* two in-place deletes sent with the same indices remove an episode nobody
  chose: the numbers are of the dataset before the first one;
* a split whose output is an existing dataset writes over it; a split or merge
  whose output is one of its sources is not refused and mixes the two
  (`spoilt` in `Edits`);
* a delete of every episode leaves no data directory, so the result fails the
  quick check, and a further delete or split of it raises;
* a data file with several episodes is copied whole under one `episode_index`
  for each of them; the totals of the quick check are what notices
  (`QuickIsExact`);
* the `index` column of the data rows is not rewritten, so an edited dataset
  usually fails the full check; the verdict of before the edit stays on display;
* merge compares frame rates and robot types and no other feature (`Mergeable`
  leaves out the robot type, so it allows merges the code refuses);
* a joint that never moves has no bands, however far off it is commanded.

Annotations:

* an episode table is rewritten in place, so a crash leaves it torn although
  README.md:208 says that all parquet writes are atomic;
* of two annotators the first to count can be the last to write `dataset_stats`;
* a crash after another handler's commit leaves a migration of legacy
  annotations half done for ever;
* two first readers both run the auto-grade pass, and the later one grades again
  what a user has cleared in between (the exception of `OkIsStored`: a grade
  cleared of a severe episode);
* the auto-grade pass passes over an episode whose data file is absent or
  unreadable and stamps the dataset, so the episode is never looked at again,
  although the docstring (`auto_grade_service.py:243`) has the stamp follow a
  grade on every ungraded severe episode (`unread` in `StampMeansGraded`);
* a PATCH without tags restores tags that another PATCH has just changed; and
  when a dataset is loaded in between, it annotates an episode of that one
  (the exception of `RowsOfTheRightDataset`).

Library:

* the cache of distributions does not have the dataset in its key: a
  distribution of another dataset, asked for before the next load, is shown for
  the loaded one (`crossed` in `ChartIsCurrent`); a distribution between two rows
  of a migration stays too, and so does one from before a request that failed
  after it had saved;
* a scan writes back statistics it has read before a grade was saved (`apart` in
  `StatsAreExact`); when every grade was cleared and a legacy file exists, it
  brings the legacy counts back;
* statistics stay old when a torn table makes their refresh fail after an
  auto-grade pass;
* a grade cleared in the database shows again in distributions and exports, as
  the grade of the row it was loaded with;
* a column added while an annotator has a table in hand is dropped from it
  again, or the annotation is (`spoiled` in `ColumnStays`); a column that reached
  only some tables cannot be completed, because the first table says it is there;
* a crash between the second or third migration's script and its `PRAGMA` makes
  every later start fail; between the `ALTER` and the `UPDATE` of the third too.

Converter:

* a failed or timed-out inspection reads as "stopped", so a start may remove a
  container that runs (`blind` in `StartSparesTheRunning`);
* a start whose `compose run` is killed between create and start leaves a
  container in state "created", and every start is refused until a stop;
  `compose run --build` has 30 seconds for the build too;
* two starts that overlap may both be answered "ok", and the second has removed
  the container of the first (`service.py:416` says "atomically");
* of two builds that are both accepted, the second ends in an exception nobody
  sees; its client is shown the first one's result;
* a build has no timeout; a client that has left is noticed only when there is a
  line to send.

## 7. What is not modelled

Formatting, logging and HTTP wrapping.  In the modelled parts: durations in
`dataset_stats` and the derived fields of an episode; the fields of `info.json`
beside totals, frame rate and video; the copies an export makes; how the columns
of a dataset are paired into joints (`unify_key`); which directories count as
cells and datasets; the histogram of a numeric column, whose bins depend on
floating-point rounding; the counting of recordings and the parsing of log lines
for the progress display.  The run locks of validation, which no caller takes
(`mark_validation_running` is never called); the lock of `tasks.parquet`, under
which nothing is awaited.

Components left out: `split-into`, which is a split with a computed output path,
and `sync_good_episodes`, whose function lives in a submodule that is not in the
repository; `browse-dirs` and the dataset summary, which are lookups; the Rerun
viewer, videos and scalars, which read files and share no state; the
configuration; the storage abstraction, which nothing calls; the mount scripts;
the web page, whose repeated delete request is an input of `DatasetOps` and
whose stale answers are listed as hazards.
