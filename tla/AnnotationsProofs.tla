-------------------------- MODULE AnnotationsProofs --------------------------
(***************************************************************************)
(* Proofs about Annotations for any datasets, tables, requests and legacy  *)
(* annotations.  A dataset may be loaded at any moment, and the server may *)
(* die at any moment.                                                      *)
(***************************************************************************)
EXTENDS Annotations, FiniteSetTheorems, TLAPS

Fields == DOMAIN Blank
Stages == {"list", "get", "tags", "update", "bulk"}

(* Records and functions have their domains.                                *)
Shapes ==
    /\ pc \in [Reqs -> Awaits \cup Ended]
    /\ DOMAIN my = Reqs /\ \A r \in Reqs : DOMAIN my[r] = Fields
    /\ DOMAIN aim = Reqs

Busy(r) == pc[r] \notin Ended \cup {"new"}
Early == {"register", "insert"}
Grading == {"stamped", "graded", "sweep", "upsert", "annotations"}

(* A PATCH without tags, which begins a second time.                        *)
Twofold(r) == ask[r].op = "patch" /\ ask[r].tags = None

(* What a handler is about while it is busy.                                *)
Purpose(r) ==
    /\ my[r].stage \in Stages
    /\ my[r].stage \in {"update", "bulk"} => ask[r].op \in {"patch", "bulk"}
    /\ my[r].stage = "tags" => Twofold(r)
    /\ pc[r] = "save" => my[r].stage \in {"update", "bulk"} /\ my[r].todo \subseteq ask[r].eps
    /\ pc[r] \in Grading => my[r].stage # "update"
    /\ pc[r] \in {"count", "stats"} =>
          /\ my[r].back \in {"migrated", "graded", "saved"}
          /\ my[r].back = "graded" => my[r].stage # "update"

(* The dataset that an annotator works on is the one it was sent for; when  *)
(* no dataset is loaded meanwhile, it is the one that is loaded.            *)
Place(r) ==
    /\ my[r].stage \in {"update", "bulk"} /\ ~Twofold(r) =>
          IF pc[r] \in Early THEN my[r].path = aim[r] ELSE my[r].ds = aim[r]
    /\ calm => /\ loaded \in Datasets /\ aim[r] = loaded /\ my[r].path = loaded
               /\ pc[r] \notin Early => my[r].ds = loaded

(* What the auto-grade pass has in hand belongs to that dataset.            *)
Sweeps(r) ==
    calm => /\ my[r].severe \subseteq Severe[loaded]
            /\ pc[r] = "sweep" => my[r].files \subseteq Files(loaded)
            /\ pc[r] = "upsert" => my[r].todo \subseteq Severe[loaded]

Local(r) == Busy(r) => Purpose(r) /\ Place(r) /\ Sweeps(r)

LocalInv ==
    /\ Shapes
    /\ ask \in [Reqs -> Requests] /\ loaded \in Datasets \cup {None}
    /\ \A r \in Reqs : Local(r)

Goes == UNCHANGED <<loaded, calm, ask>>

----------------------------------------------------------------------------
(* A handler that moves has the place and the variables it moves to, and    *)
(* the others keep theirs.                                                  *)
LEMMA Moves ==
    ASSUME Shapes, NEW r \in Reqs, NEW step \in Awaits \cup Ended, NEW l, DOMAIN l = Fields,
           Move(r, step, l)
    PROVE  /\ pc'[r] = step /\ my'[r] = l
           /\ \A q \in Reqs : q # r => pc'[q] = pc[q] /\ my'[q] = my[q]
           /\ pc' \in [Reqs -> Awaits \cup Ended]
           /\ DOMAIN my' = Reqs /\ \A q \in Reqs : DOMAIN my'[q] = Fields
BY DEF Shapes, Move

LEMMA BlankHasFields == DOMAIN Blank = Fields
BY DEF Fields

LEMMA EndedIsNotBusy == Ended \cap Awaits = {}
BY DEF Ended, Awaits

(* A step of r that loads no dataset leaves the others as they are.         *)
LEMMA OthersStay ==
    ASSUME LocalInv, NEW r \in Reqs, NEW step \in Awaits \cup Ended, NEW l, DOMAIN l = Fields,
           Move(r, step, l), Goes, DOMAIN aim' = Reqs,
           \A q \in Reqs : q # r => aim'[q] = aim[q],
           step \in Ended \/ (pc'[r] = step /\ my'[r] = l => Local(r)')
    PROVE  LocalInv'
<1>1. /\ pc'[r] = step /\ my'[r] = l
      /\ \A q \in Reqs : q # r => pc'[q] = pc[q] /\ my'[q] = my[q]
      /\ Shapes'
    BY Moves DEF LocalInv, Shapes
<1>2. ASSUME NEW q \in Reqs, q # r PROVE Local(q)'
    BY <1>1, <1>2 DEF LocalInv, Local, Busy, Purpose, Place, Sweeps, Twofold, Goes, Grading
<1>3. Local(r)'
    BY <1>1 DEF Local, Busy
<1> QED
    BY <1>1, <1>2, <1>3 DEF LocalInv, Goes

(* So does a handler whose next call is given the path that is loaded.      *)
LEMMA CallsOn ==
    ASSUME LocalInv, NEW r \in Reqs, NEW step \in Awaits, NEW l, DOMAIN l = Fields,
           CallWithPath(r, step, l), Goes, DOMAIN aim' = Reqs,
           \A q \in Reqs : q # r => aim'[q] = aim[q],
           loaded \in Datasets /\ pc'[r] = step /\ my'[r] = [l EXCEPT !.path = loaded] => Local(r)'
    PROVE  LocalInv'
<1>1. CASE loaded = None
    BY <1>1, OthersStay, BlankHasFields DEF CallWithPath, Answer, Ended
<1>2. CASE loaded # None
    <2>1. Move(r, step, [l EXCEPT !.path = loaded]) /\ loaded \in Datasets
        BY <1>2 DEF CallWithPath, LocalInv
    <2>2. DOMAIN [l EXCEPT !.path = loaded] = Fields
        OBVIOUS
    <2> QED
        BY <2>1, <2>2, OthersStay
<1> QED
    BY <1>1, <1>2

(* A handler that begins, for the first or for the second time.             *)
LEMMA Begins ==
    ASSUME LocalInv, NEW r \in Reqs, NEW l, DOMAIN l = Fields, CallRegister(r, l), Goes,
           aim' = [aim EXCEPT ![r] = loaded] \/ (UNCHANGED aim /\ Busy(r)),
           l.stage \in Stages, l.severe = {},
           l.stage \in {"update", "bulk"} =>
               ask[r].op \in {"patch", "bulk"} /\ (Twofold(r) \/ aim'[r] = loaded),
           l.stage = "tags" => Twofold(r)
    PROVE  LocalInv'
<1>1. \A q \in Reqs : q # r => aim'[q] = aim[q]
    BY DEF LocalInv, Shapes
<1>2. DOMAIN aim' = Reqs /\ "register" \in Awaits
    BY DEF LocalInv, Shapes, Awaits
<1>3. calm => aim'[r] = loaded
    BY DEF LocalInv, Shapes, Local, Place
<1>4. ASSUME loaded \in Datasets, pc'[r] = "register", my'[r] = [l EXCEPT !.path = loaded]
      PROVE  Local(r)'
    <2>1. /\ my'[r].path = loaded /\ my'[r].stage = l.stage /\ my'[r].severe = {}
        BY <1>4 DEF Fields, Blank
    <2>2. Purpose(r)'
        BY <1>4, <2>1 DEF Purpose, Twofold, Goes, Grading
    <2>3. Place(r)'
        BY <1>3, <1>4, <2>1 DEF Place, Twofold, Goes, Early
    <2>4. Sweeps(r)'
        BY <1>4, <2>1 DEF Sweeps, Goes
    <2> QED
        BY <2>2, <2>3, <2>4 DEF Local
<1> QED
    BY <1>1, <1>2, <1>4, CallsOn DEF CallRegister

(* The second half of a PATCH, or a PATCH that names its tags.              *)
LEMMA UpdateBegins ==
    ASSUME LocalInv, NEW r \in Reqs, NEW tags, StartUpdate(r, tags), Goes, ask[r].op = "patch",
           aim' = [aim EXCEPT ![r] = loaded] \/ (UNCHANGED aim /\ Busy(r) /\ Twofold(r))
    PROVE  LocalInv'
<1> DEFINE l == [Blank EXCEPT !.stage = "update", !.tags = tags]
<1>1. DOMAIN l = Fields /\ l.stage = "update" /\ l.severe = {}
    BY DEF Fields, Blank
<1>2. CASE CallRegister(r, l)
    <2>1. Twofold(r) \/ aim'[r] = loaded
        BY DEF LocalInv, Shapes
    <2> HIDE DEF l
    <2> QED
        BY <1>1, <1>2, <2>1, Begins DEF Stages
<1>3. CASE Answer(r, "error")
    <2>1. DOMAIN aim' = Reqs /\ \A q \in Reqs : q # r => aim'[q] = aim[q]
        BY DEF LocalInv, Shapes
    <2> QED
        BY <1>3, <2>1, OthersStay, BlankHasFields DEF Answer, Ended
<1> QED
    BY <1>2, <1>3 DEF StartUpdate

LEMMA GetBegins ==
    ASSUME LocalInv, NEW r \in Reqs, NEW stage \in {"get", "tags"}, StartGet(r, stage), Goes,
           stage = "tags" => Twofold(r),
           aim' = [aim EXCEPT ![r] = loaded] \/ (UNCHANGED aim /\ Busy(r))
    PROVE  LocalInv'
<1> DEFINE l == [Blank EXCEPT !.stage = stage, !.file = <<map, FileOf[map][Target(r)]>>]
<1>1. DOMAIN l = Fields /\ l.stage = stage /\ l.severe = {}
    BY DEF Fields, Blank
<1>2. CASE CallRegister(r, l)
    <2> HIDE DEF l
    <2> QED
        BY <1>1, <1>2, Begins DEF Stages
<1>3. CASE Answer(r, "error")
    <2>1. DOMAIN aim' = Reqs /\ \A q \in Reqs : q # r => aim'[q] = aim[q]
        BY DEF LocalInv, Shapes
    <2> QED
        BY <1>3, <2>1, OthersStay, BlankHasFields DEF Answer, Ended
<1> QED
    BY <1>2, <1>3 DEF StartGet

LEMMA StartKeeps ==
    ASSUME LocalInv, NEW r \in Reqs, List(r) \/ Get(r) \/ Patch(r) \/ Bulk(r)
    PROVE  LocalInv'
<1>1. Goes /\ aim' = [aim EXCEPT ![r] = loaded]
    BY DEF List, Get, Patch, Bulk, Goes, memory
<1>2. ASSUME NEW outcome \in Ended, Answer(r, outcome) PROVE LocalInv'
    <2>1. DOMAIN aim' = Reqs /\ \A q \in Reqs : q # r => aim'[q] = aim[q]
        BY <1>1 DEF LocalInv, Shapes
    <2> QED
        BY <1>1, <1>2, <2>1, OthersStay, BlankHasFields DEF Answer
<1>3. ASSUME NEW stage \in {"list", "bulk"}, CallRegister(r, [Blank EXCEPT !.stage = stage]),
             stage = "bulk" => ask[r].op = "bulk"
      PROVE  LocalInv'
    <2> DEFINE l == [Blank EXCEPT !.stage = stage]
    <2>1. DOMAIN l = Fields /\ l.stage = stage /\ l.severe = {}
        BY DEF Fields, Blank
    <2>2. aim'[r] = loaded
        BY <1>1 DEF LocalInv, Shapes
    <2>3. CallRegister(r, l)
        BY <1>3
    <2> HIDE DEF l
    <2> QED
        BY <1>1, <1>3, <2>1, <2>2, <2>3, Begins DEF Stages
<1>4. CASE List(r)
    BY <1>2, <1>3, <1>4 DEF List, Ended
<1>5. CASE Get(r)
    <2>1. CASE StartGet(r, "get")
        BY <1>1, <2>1, GetBegins
    <2> QED
        BY <1>2, <1>5, <2>1 DEF Get, Ended
<1>6. CASE Patch(r)
    <2>1. CASE \E tags : StartUpdate(r, tags)
        BY <1>1, <1>6, <2>1, UpdateBegins DEF Patch
    <2>2. CASE StartGet(r, "tags") /\ ask[r].tags = None
        BY <1>1, <1>6, <2>2, GetBegins DEF Patch, Twofold
    <2> QED
        BY <1>2, <1>6, <2>1, <2>2 DEF Patch, Ended
<1>7. CASE Bulk(r)
    BY <1>3, <1>7 DEF Bulk
<1> QED
    BY <1>4, <1>5, <1>6, <1>7

----------------------------------------------------------------------------
Handled == Goes /\ UNCHANGED aim

(* A busy handler that moves keeps its dataset, unless it has been told one *)
(* just now, and goes on with what it is about.                             *)
LEMMA GoesOn ==
    ASSUME LocalInv, NEW r \in Reqs, Busy(r), NEW step \in Awaits \ (Early \cup {"new"}),
           NEW l, DOMAIN l = Fields, Move(r, step, l), Handled,
           l.stage = my[r].stage, l.path = my[r].path,
           l.ds = (IF pc[r] \in Early THEN my[r].path ELSE my[r].ds),
           step = "save" => l.stage \in {"update", "bulk"} /\ l.todo \subseteq ask[r].eps,
           step \in Grading => l.stage # "update",
           step \in {"count", "stats"} =>
               /\ l.back \in {"migrated", "graded", "saved"}
               /\ l.back = "graded" => l.stage # "update",
           calm => /\ l.severe \subseteq Severe[loaded]
                   /\ step = "sweep" => l.files \subseteq Files(loaded)
                   /\ step = "upsert" => l.todo \subseteq Severe[loaded]
    PROVE  LocalInv'
<1>1. ASSUME pc'[r] = step, my'[r] = l PROVE Local(r)'
    <2>1. Purpose(r) /\ Place(r)
        BY DEF LocalInv, Local
    <2>2. Purpose(r)'
        BY <1>1, <2>1 DEF Purpose, Twofold, Handled, Goes, Grading
    <2>3. Place(r)'
        BY <1>1, <2>1 DEF Place, Twofold, Handled, Goes
    <2>4. Sweeps(r)'
        BY <1>1 DEF Sweeps, Handled, Goes
    <2> QED
        BY <2>2, <2>3, <2>4 DEF Local
<1>2. DOMAIN aim' = Reqs /\ \A q \in Reqs : q # r => aim'[q] = aim[q]
    BY DEF LocalInv, Shapes, Handled
<1> QED
    BY <1>1, <1>2, OthersStay DEF Handled

LEMMA AnswerKeeps ==
    ASSUME LocalInv, NEW r \in Reqs, NEW outcome \in Ended, Answer(r, outcome), Handled
    PROVE  LocalInv'
<1>1. DOMAIN aim' = Reqs /\ \A q \in Reqs : q # r => aim'[q] = aim[q]
    BY DEF LocalInv, Shapes, Handled
<1> QED
    BY <1>1, OthersStay, BlankHasFields DEF Answer, Handled

(* The same before a call that is given the path that is loaded.            *)
LEMMA CallGoesOn ==
    ASSUME LocalInv, NEW r \in Reqs, Busy(r), NEW step \in {"migrate", "stamped"},
           NEW l, DOMAIN l = Fields, CallWithPath(r, step, l), Handled,
           l.stage = my[r].stage, l.severe = my[r].severe, step = "stamped" => l.stage # "update",
           l.ds = (IF pc[r] \in Early THEN my[r].path ELSE my[r].ds)
    PROVE  LocalInv'
<1>1. ASSUME loaded \in Datasets, pc'[r] = step, my'[r] = [l EXCEPT !.path = loaded]
      PROVE  Local(r)'
    <2>1. Purpose(r) /\ Place(r) /\ Sweeps(r)
        BY DEF LocalInv, Local
    <2>2. /\ my'[r].path = loaded /\ my'[r].stage = my[r].stage /\ my'[r].severe = my[r].severe
          /\ my'[r].ds = l.ds
        BY <1>1 DEF Fields, Blank
    <2>3. Purpose(r)'
        BY <1>1, <2>1, <2>2 DEF Purpose, Twofold, Handled, Goes, Grading
    <2>4. Place(r)'
        BY <1>1, <2>1, <2>2 DEF Place, Twofold, Handled, Goes, Early
    <2>5. Sweeps(r)'
        BY <1>1, <2>1, <2>2 DEF Sweeps, Handled, Goes
    <2> QED
        BY <2>3, <2>4, <2>5 DEF Local
<1>2. DOMAIN aim' = Reqs /\ \A q \in Reqs : q # r => aim'[q] = aim[q]
    BY DEF LocalInv, Shapes, Handled
<1>3. step \in Awaits
    BY DEF Awaits
<1> QED
    BY <1>1, <1>2, <1>3, CallsOn DEF Handled

LEMMA RegisterKeeps ==
    ASSUME LocalInv, NEW r \in Reqs, Register(r) \/ Insert(r)
    PROVE  LocalInv'
<1>1. Handled /\ pc[r] \in Early /\ Busy(r) /\ DOMAIN my[r] = Fields
    BY DEF Register, Insert, Handled, Goes, memory, given, Early, Busy, Ended, LocalInv, Shapes
<1>2. ASSUME Registered(r, my[r].path) PROVE LocalInv'
    <2> DEFINE l == [my[r] EXCEPT !.ds = my[r].path]
    <2>1. /\ DOMAIN l = Fields /\ l.stage = my[r].stage /\ l.severe = my[r].severe
          /\ l.ds = my[r].path
        BY <1>1 DEF Fields, Blank
    <2>2. CallWithPath(r, "migrate", l)
        BY <1>2 DEF Registered
    <2> HIDE DEF l
    <2> QED
        BY <1>1, <2>1, <2>2, CallGoesOn
<1>3. ASSUME Move(r, "insert", my[r]), pc[r] = "register" PROVE LocalInv'
    <2>1. ASSUME pc'[r] = "insert", my'[r] = my[r] PROVE Local(r)'
        BY <1>1, <1>3, <2>1 DEF LocalInv, Local, Purpose, Place, Sweeps, Twofold, Handled, Goes,
               Early, Grading
    <2>2. "insert" \in Awaits /\ DOMAIN aim' = Reqs /\ \A q \in Reqs : q # r => aim'[q] = aim[q]
        BY <1>1 DEF Awaits, LocalInv, Shapes, Handled
    <2> QED
        BY <1>1, <1>3, <2>1, <2>2, OthersStay DEF Handled
<1> QED
    BY <1>1, <1>2, <1>3, AnswerKeeps DEF Register, Insert, Ended

(* What follows the migration of legacy annotations.                        *)
LEMMA MigratedKeeps ==
    ASSUME LocalInv, NEW r \in Reqs, Busy(r), pc[r] \notin Early, Migrated(r), Handled
    PROVE  LocalInv'
<1>1. DOMAIN my[r] = Fields /\ Purpose(r) /\ Sweeps(r)
    BY DEF LocalInv, Shapes, Local
<1>2. CASE my[r].stage \in {"list", "get", "tags"}
    <2>1. CallWithPath(r, "stamped", my[r])
        BY <1>2 DEF Migrated
    <2> QED
        BY <1>1, <1>2, <2>1, CallGoesOn
<1>3. CASE my[r].stage = "update"
    <2> DEFINE l == [my[r] EXCEPT !.todo = ask[r].eps]
    <2>1. Move(r, "save", l)
        BY <1>3 DEF Migrated
    <2>2. /\ DOMAIN l = Fields /\ l.stage = my[r].stage /\ l.severe = my[r].severe
          /\ l.ds = my[r].ds /\ l.path = my[r].path /\ l.todo = ask[r].eps
        BY <1>1 DEF Fields, Blank
    <2>3. "save" \in Awaits \ (Early \cup {"new"})
        BY DEF Awaits, Early, Grading
    <2> HIDE DEF l
    <2> QED
        BY <1>1, <1>3, <2>1, <2>2, <2>3, GoesOn DEF Sweeps, Grading
<1>4. CASE my[r].stage = "bulk"
    <2>1. Move(r, "annotations", my[r])
        BY <1>4 DEF Migrated
    <2>2. "annotations" \in Awaits \ (Early \cup {"new"})
        BY DEF Awaits, Early, Grading
    <2> QED
        BY <1>1, <1>4, <2>1, <2>2, GoesOn DEF Sweeps, Grading
<1> QED
    BY <1>1, <1>2, <1>3, <1>4 DEF Purpose, Stages

LEMMA MigrateKeeps ==
    ASSUME LocalInv, NEW r \in Reqs, Migrate(r) \/ SidecarRow(r)
    PROVE  LocalInv'
<1>1. Handled /\ pc[r] \notin Early /\ Busy(r) /\ DOMAIN my[r] = Fields /\ Sweeps(r)
    BY DEF Migrate, SidecarRow, Handled, Goes, memory, given, Early, Busy, Ended, LocalInv, Shapes, Local
<1>2. ASSUME NEW todo, Move(r, "sidecar", [my[r] EXCEPT !.todo = todo]) PROVE LocalInv'
    <2> DEFINE l == [my[r] EXCEPT !.todo = todo]
    <2>1. /\ DOMAIN l = Fields /\ l.stage = my[r].stage /\ l.severe = my[r].severe
          /\ l.ds = my[r].ds /\ l.path = my[r].path
        BY <1>1 DEF Fields, Blank
    <2>2. "sidecar" \in Awaits \ (Early \cup {"new"}) /\ Move(r, "sidecar", l)
        BY <1>2 DEF Awaits, Early, Grading
    <2> HIDE DEF l
    <2> QED
        BY <1>1, <2>1, <2>2, GoesOn DEF Sweeps, Grading
<1>3. ASSUME Move(r, "count", [my[r] EXCEPT !.todo = {}, !.back = "migrated"]) PROVE LocalInv'
    <2> DEFINE l == [my[r] EXCEPT !.todo = {}, !.back = "migrated"]
    <2>1. /\ DOMAIN l = Fields /\ l.stage = my[r].stage /\ l.severe = my[r].severe
          /\ l.ds = my[r].ds /\ l.path = my[r].path /\ l.back = "migrated"
        BY <1>1 DEF Fields, Blank
    <2>2. "count" \in Awaits \ (Early \cup {"new"}) /\ Move(r, "count", l)
        BY <1>3 DEF Awaits, Early, Grading
    <2> HIDE DEF l
    <2> QED
        BY <1>1, <2>1, <2>2, GoesOn DEF Sweeps, Grading
<1>4. CASE Migrate(r)
    BY <1>1, <1>2, <1>4, MigratedKeeps DEF Migrate
<1>5. CASE SidecarRow(r)
    BY <1>2, <1>3, <1>5 DEF SidecarRow
<1> QED
    BY <1>4, <1>5

(* What is known of a handler that has registered its dataset.              *)
Later == Awaits \ (Early \cup {"new"})

LEMMA Working ==
    ASSUME LocalInv, NEW r \in Reqs, pc[r] \in Later
    PROVE  /\ Busy(r) /\ pc[r] \notin Early /\ DOMAIN my[r] = Fields
           /\ Purpose(r) /\ Place(r) /\ Sweeps(r)
BY DEF Later, Awaits, Early, Busy, Ended, LocalInv, Shapes, Local

LEMMA PassKeeps ==
    ASSUME LocalInv, NEW r \in Reqs, Stamped(r) \/ Graded(r) \/ Sweep(r) \/ Upsert(r) \/ Stamp(r)
    PROVE  LocalInv'
<1>1. Handled /\ pc[r] \in Later /\ pc[r] \in Grading
    BY DEF Stamped, Graded, Sweep, Upsert, Stamp, Handled, Goes, memory, given, Later, Awaits, Early,
           Grading
<1>2. /\ Busy(r) /\ pc[r] \notin Early /\ DOMAIN my[r] = Fields
      /\ Purpose(r) /\ Place(r) /\ Sweeps(r)
    BY <1>1, Working
<1>3. my[r].stage # "update"
    BY <1>1, <1>2 DEF Purpose
<1>4. CASE Stamped(r)
    <2>1. PICK step \in {"annotations", "graded"} : Move(r, step, my[r])
        BY <1>4 DEF Stamped
    <2>2. step \in Awaits \ (Early \cup {"new"}) /\ step \notin {"save", "count", "stats", "sweep", "upsert"}
        BY DEF Awaits, Early
    <2> QED
        BY <1>1, <1>2, <1>3, <2>1, <2>2, GoesOn DEF Sweeps
<1>5. CASE Graded(r)
    <2>1. CASE loaded = None
        BY <1>1, <1>5, <2>1, AnswerKeeps DEF Graded, Ended
    <2>2. CASE loaded # None
        <3>1. PICK graded : Move(r, "sweep", [my[r] EXCEPT !.files = Files(loaded), !.graded = graded])
            BY <1>5, <2>2 DEF Graded
        <3> DEFINE l == [my[r] EXCEPT !.files = Files(loaded), !.graded = graded]
        <3>2. /\ DOMAIN l = Fields /\ l.stage = my[r].stage /\ l.severe = my[r].severe
              /\ l.ds = my[r].ds /\ l.path = my[r].path /\ l.files = Files(loaded)
            BY <1>2 DEF Fields, Blank
        <3>3. "sweep" \in Awaits \ (Early \cup {"new"}) /\ Move(r, "sweep", l)
            BY <3>1 DEF Awaits, Early
        <3> HIDE DEF l
        <3> QED
            BY <1>1, <1>2, <1>3, <3>2, <3>3, GoesOn DEF Sweeps
    <2> QED
        BY <2>1, <2>2
<1>6. CASE Sweep(r)
    <2>1. PICK f \in my[r].files :
             \/ Move(r, "annotations", [my[r] EXCEPT !.files = {}])
             \/ \E found \in SevereIn(f, my[r].path, DOMAIN file[f] \ my[r].graded) :
                  LET severe == my[r].severe \cup found IN
                  \/ Move(r, "sweep", [my[r] EXCEPT !.files = my[r].files \ {f}, !.severe = severe])
                  \/ Move(r, "upsert", [my[r] EXCEPT !.files = {}, !.todo = severe])
        BY <1>6 DEF Sweep
    <2>2. CASE Move(r, "annotations", [my[r] EXCEPT !.files = {}])
        <3> DEFINE l == [my[r] EXCEPT !.files = {}]
        <3>1. /\ DOMAIN l = Fields /\ l.stage = my[r].stage /\ l.severe = my[r].severe
              /\ l.ds = my[r].ds /\ l.path = my[r].path
            BY <1>2 DEF Fields, Blank
        <3>2. "annotations" \in Awaits \ (Early \cup {"new"}) /\ Move(r, "annotations", l)
            BY <2>2 DEF Awaits, Early
        <3> HIDE DEF l
        <3> QED
            BY <1>1, <1>2, <1>3, <3>1, <3>2, GoesOn DEF Sweeps
    <2>3. ASSUME NEW found \in SevereIn(f, my[r].path, DOMAIN file[f] \ my[r].graded)
          PROVE  calm => my[r].severe \cup found \subseteq Severe[loaded]
        <3>1. calm => f \in Files(loaded) /\ my[r].path = loaded /\ my[r].severe \subseteq Severe[loaded]
            BY <1>2, <1>6 DEF Sweep, Sweeps, Place
        <3>2. calm => f[1] = loaded
            BY <3>1 DEF Files
        <3> QED
            BY <2>3, <3>1, <3>2 DEF SevereIn
    <2>4. ASSUME NEW severe, calm => severe \subseteq Severe[loaded],
                 Move(r, "sweep", [my[r] EXCEPT !.files = my[r].files \ {f}, !.severe = severe])
          PROVE  LocalInv'
        <3> DEFINE l == [my[r] EXCEPT !.files = my[r].files \ {f}, !.severe = severe]
        <3>1. /\ DOMAIN l = Fields /\ l.stage = my[r].stage /\ l.severe = severe
              /\ l.ds = my[r].ds /\ l.path = my[r].path /\ l.files = my[r].files \ {f}
            BY <1>2 DEF Fields, Blank
        <3>2. "sweep" \in Awaits \ (Early \cup {"new"}) /\ Move(r, "sweep", l)
            BY <2>4 DEF Awaits, Early
        <3>3. calm => my[r].files \subseteq Files(loaded)
            BY <1>2, <1>6 DEF Sweep, Sweeps
        <3> HIDE DEF l
        <3> QED
            BY <1>1, <1>2, <1>3, <2>4, <3>1, <3>2, <3>3, GoesOn
    <2>5. ASSUME NEW severe, calm => severe \subseteq Severe[loaded],
                 Move(r, "upsert", [my[r] EXCEPT !.files = {}, !.todo = severe])
          PROVE  LocalInv'
        <3> DEFINE l == [my[r] EXCEPT !.files = {}, !.todo = severe]
        <3>1. /\ DOMAIN l = Fields /\ l.stage = my[r].stage /\ l.severe = my[r].severe
              /\ l.ds = my[r].ds /\ l.path = my[r].path /\ l.todo = severe
            BY <1>2 DEF Fields, Blank
        <3>2. "upsert" \in Awaits \ (Early \cup {"new"}) /\ Move(r, "upsert", l)
            BY <2>5 DEF Awaits, Early
        <3> HIDE DEF l
        <3> QED
            BY <1>1, <1>2, <1>3, <2>5, <3>1, <3>2, GoesOn DEF Sweeps
    <2> QED
        BY <2>1, <2>2, <2>3, <2>4, <2>5
<1>7. CASE Upsert(r)
    <2>1. PICK e \in my[r].todo : Move(r, "upsert", [my[r] EXCEPT !.todo = my[r].todo \ {e}])
        BY <1>2, <1>7 DEF Upsert, Fields, Blank
    <2> DEFINE l == [my[r] EXCEPT !.todo = my[r].todo \ {e}]
    <2>2. /\ DOMAIN l = Fields /\ l.stage = my[r].stage /\ l.severe = my[r].severe
          /\ l.ds = my[r].ds /\ l.path = my[r].path /\ l.todo = my[r].todo \ {e}
        BY <1>2 DEF Fields, Blank
    <2>3. "upsert" \in Awaits \ (Early \cup {"new"}) /\ Move(r, "upsert", l)
        BY <2>1 DEF Awaits, Early
    <2>4. calm => my[r].todo \subseteq Severe[loaded]
        BY <1>2, <1>7 DEF Upsert, Sweeps
    <2> HIDE DEF l
    <2> QED
        BY <1>1, <1>2, <1>3, <2>2, <2>3, <2>4, GoesOn DEF Sweeps
<1>8. CASE Stamp(r)
    <2> DEFINE l == [my[r] EXCEPT !.back = "graded", !.graded = {}, !.severe = {}]
    <2>1. /\ DOMAIN l = Fields /\ l.stage = my[r].stage /\ l.severe = {}
          /\ l.ds = my[r].ds /\ l.path = my[r].path /\ l.back = "graded"
        BY <1>2 DEF Fields, Blank
    <2>2. "count" \in Awaits \ (Early \cup {"new"}) /\ Move(r, "count", l)
        BY <1>8 DEF Stamp, Awaits, Early
    <2> HIDE DEF l
    <2> QED
        BY <1>1, <1>2, <1>3, <2>1, <2>2, GoesOn
<1> QED
    BY <1>4, <1>5, <1>6, <1>7, <1>8

LEMMA ReadKeeps ==
    ASSUME LocalInv, NEW r \in Reqs, ReadNotes(r) \/ ReadFile(r)
    PROVE  LocalInv'
<1>1. Handled /\ pc[r] \in Later
    BY DEF ReadNotes, ReadFile, Handled, Goes, memory, given, Later, Awaits, Early
<1>2. /\ Busy(r) /\ pc[r] \notin Early /\ DOMAIN my[r] = Fields
      /\ Purpose(r) /\ Place(r) /\ Sweeps(r)
    BY <1>1, Working
<1>3. ASSUME NEW files, NEW notes, NEW got,
             Move(r, "read", [my[r] EXCEPT !.files = files, !.notes = notes, !.got = got])
      PROVE  LocalInv'
    <2> DEFINE l == [my[r] EXCEPT !.files = files, !.notes = notes, !.got = got]
    <2>1. /\ DOMAIN l = Fields /\ l.stage = my[r].stage /\ l.severe = my[r].severe
          /\ l.ds = my[r].ds /\ l.path = my[r].path
        BY <1>2 DEF Fields, Blank
    <2>2. "read" \in Awaits \ (Early \cup {"new"}) /\ Move(r, "read", l)
        BY <1>3 DEF Awaits, Early
    <2>3. "read" \notin Grading \cup {"save", "count", "stats", "sweep", "upsert"}
        BY DEF Grading
    <2> HIDE DEF l
    <2> QED
        BY <1>1, <1>2, <2>1, <2>2, <2>3, GoesOn DEF Sweeps
<1>4. CASE ReadNotes(r)
    <2> DEFINE notes == db.notes[my[r].ds]
               l == [my[r] EXCEPT !.notes = notes]
    <2>1. pc[r] = "annotations" /\ my[r].stage \in {"bulk", "get", "tags", "list"}
        BY <1>2, <1>4 DEF ReadNotes, Purpose, Stages, Grading
    <2>2. DOMAIN l = Fields /\ l.stage = my[r].stage /\ l.file = my[r].file
        BY <1>2 DEF Fields, Blank
    <2>3. CASE my[r].stage = "bulk"
        <3> DEFINE m == [l EXCEPT !.todo = ask[r].eps]
        <3>1. /\ DOMAIN m = Fields /\ m.stage = my[r].stage /\ m.severe = my[r].severe
              /\ m.ds = my[r].ds /\ m.path = my[r].path /\ m.todo = ask[r].eps
            BY <1>2 DEF Fields, Blank
        <3>2. "save" \in Awaits \ (Early \cup {"new"}) /\ Move(r, "save", m)
            BY <1>4, <2>2, <2>3 DEF ReadNotes, Awaits, Early
        <3>3. "save" \notin Grading
            BY DEF Grading
        <3> HIDE DEF m, l
        <3> QED
            BY <1>1, <1>2, <2>3, <3>1, <3>2, <3>3, GoesOn DEF Sweeps
    <2>4. ASSUME NEW files, Move(r, "read", [l EXCEPT !.files = files]) PROVE LocalInv'
        <3>1. [l EXCEPT !.files = files]
                = [my[r] EXCEPT !.files = files, !.notes = notes, !.got = my[r].got]
            BY <1>2 DEF Fields, Blank
        <3> QED
            BY <1>3, <2>4, <3>1
    <2>5. CASE my[r].stage \in {"get", "tags"}
        BY <1>4, <2>2, <2>4, <2>5 DEF ReadNotes
    <2>6. CASE my[r].stage = "list"
        <3>1. CASE loaded = None
            BY <1>1, <1>4, <2>2, <2>6, <3>1, AnswerKeeps DEF ReadNotes, Ended
        <3> QED
            BY <1>4, <2>2, <2>4, <2>6, <3>1 DEF ReadNotes
    <2> QED
        BY <2>1, <2>3, <2>5, <2>6
<1>5. CASE ReadFile(r)
    <2>1. PICK files, got :
             \/ Answer(r, "error") \/ Answer(r, "ok")
             \/ Move(r, "read", [my[r] EXCEPT !.files = files, !.got = got])
             \/ my[r].stage = "tags" /\ StartUpdate(r, got[Target(r)].tags)
        BY <1>5 DEF ReadFile
    <2>2. CASE Move(r, "read", [my[r] EXCEPT !.files = files, !.got = got])
        <3>1. [my[r] EXCEPT !.files = files, !.got = got]
                = [my[r] EXCEPT !.files = files, !.notes = my[r].notes, !.got = got]
            BY <1>2 DEF Fields, Blank
        <3> QED
            BY <1>3, <2>2, <3>1
    <2>3. CASE my[r].stage = "tags" /\ StartUpdate(r, got[Target(r)].tags)
        BY <1>1, <1>2, <2>3, UpdateBegins DEF Purpose, Twofold, Handled
    <2> QED
        BY <1>1, <2>1, <2>2, <2>3, AnswerKeeps DEF Ended
<1> QED
    BY <1>4, <1>5

(* The end of an annotation, table by table.                                *)
LEMMA TablesKeep ==
    ASSUME LocalInv, NEW r \in Reqs, pc[r] \in Later, NEW files, NextTable(r, files), Handled
    PROVE  LocalInv'
<1>1. /\ Busy(r) /\ pc[r] \notin Early /\ DOMAIN my[r] = Fields
      /\ Purpose(r) /\ Place(r) /\ Sweeps(r)
    BY Working
<1>2. CASE Finish(r)
    <2>1. StartGet(r, "get") \/ \E outcome \in Ended : Answer(r, outcome)
        BY <1>2 DEF Finish, Ended
    <2> QED
        BY <1>1, <2>1, GetBegins, AnswerKeeps DEF Handled
<1>3. ASSUME NEW f \in files,
             Move(r, "lock", [my[r] EXCEPT !.files = files \ {f}, !.file = f, !.lockGen = gen,
                                           !.table = None])
      PROVE  LocalInv'
    <2> DEFINE l == [my[r] EXCEPT !.files = files \ {f}, !.file = f, !.lockGen = gen, !.table = None]
    <2>1. /\ DOMAIN l = Fields /\ l.stage = my[r].stage /\ l.severe = my[r].severe
          /\ l.ds = my[r].ds /\ l.path = my[r].path
        BY <1>1 DEF Fields, Blank
    <2>2. "lock" \in Awaits \ (Early \cup {"new"}) /\ Move(r, "lock", l)
        BY <1>3 DEF Awaits, Early
    <2>3. "lock" \notin Grading \cup {"save", "count", "stats", "sweep", "upsert"}
        BY DEF Grading
    <2> HIDE DEF l
    <2> QED
        BY <1>1, <2>1, <2>2, <2>3, GoesOn DEF Sweeps
<1> QED
    BY <1>2, <1>3 DEF NextTable

LEMMA SaveKeeps ==
    ASSUME LocalInv, NEW r \in Reqs, Save(r) \/ Count(r) \/ Stats(r)
    PROVE  LocalInv'
<1>1. Handled /\ pc[r] \in Later
    BY DEF Save, Count, Stats, Handled, Goes, memory, given, Later, Awaits, Early
<1>2. /\ Busy(r) /\ pc[r] \notin Early /\ DOMAIN my[r] = Fields
      /\ Purpose(r) /\ Place(r) /\ Sweeps(r)
    BY <1>1, Working
<1>3. CASE Save(r)
    <2>1. PICK e \in my[r].todo :
             \/ Move(r, "save", [my[r] EXCEPT !.todo = my[r].todo \ {e}])
             \/ Move(r, "count", [my[r] EXCEPT !.todo = {}, !.back = "saved"])
        BY <1>3 DEF Save
    <2>2. CASE Move(r, "save", [my[r] EXCEPT !.todo = my[r].todo \ {e}])
        <3> DEFINE l == [my[r] EXCEPT !.todo = my[r].todo \ {e}]
        <3>1. /\ DOMAIN l = Fields /\ l.stage = my[r].stage /\ l.severe = my[r].severe
              /\ l.ds = my[r].ds /\ l.path = my[r].path /\ l.todo = my[r].todo \ {e}
            BY <1>2 DEF Fields, Blank
        <3>2. "save" \in Awaits \ (Early \cup {"new"}) /\ Move(r, "save", l)
            BY <2>2 DEF Awaits, Early
        <3>3. "save" \notin Grading
            BY DEF Grading
        <3>4. my[r].stage \in {"update", "bulk"} /\ my[r].todo \subseteq ask[r].eps
            BY <1>2, <1>3 DEF Save, Purpose
        <3> HIDE DEF l
        <3> QED
            BY <1>1, <1>2, <3>1, <3>2, <3>3, <3>4, GoesOn DEF Sweeps
    <2>3. CASE Move(r, "count", [my[r] EXCEPT !.todo = {}, !.back = "saved"])
        <3> DEFINE l == [my[r] EXCEPT !.todo = {}, !.back = "saved"]
        <3>1. /\ DOMAIN l = Fields /\ l.stage = my[r].stage /\ l.severe = my[r].severe
              /\ l.ds = my[r].ds /\ l.path = my[r].path /\ l.back = "saved"
            BY <1>2 DEF Fields, Blank
        <3>2. "count" \in Awaits \ (Early \cup {"new"}) /\ Move(r, "count", l)
            BY <2>3 DEF Awaits, Early
        <3>3. "count" \notin Grading
            BY DEF Grading
        <3> HIDE DEF l
        <3> QED
            BY <1>1, <1>2, <3>1, <3>2, <3>3, GoesOn DEF Sweeps
    <2> QED
        BY <2>1, <2>2, <2>3
<1>4. CASE Count(r)
    <2>1. PICK counts : Move(r, "stats", [my[r] EXCEPT !.counts = counts])
        BY <1>4 DEF Count
    <2> DEFINE l == [my[r] EXCEPT !.counts = counts]
    <2>2. /\ DOMAIN l = Fields /\ l.stage = my[r].stage /\ l.severe = my[r].severe
          /\ l.ds = my[r].ds /\ l.path = my[r].path /\ l.back = my[r].back
        BY <1>2 DEF Fields, Blank
    <2>3. "stats" \in Awaits \ (Early \cup {"new"}) /\ Move(r, "stats", l)
        BY <2>1 DEF Awaits, Early
    <2>4. "stats" \notin Grading
        BY DEF Grading
    <2>5. /\ my[r].back \in {"migrated", "graded", "saved"}
          /\ my[r].back = "graded" => my[r].stage # "update"
        BY <1>2, <1>4 DEF Count, Purpose
    <2> HIDE DEF l
    <2> QED
        BY <1>1, <1>2, <2>2, <2>3, <2>4, <2>5, GoesOn DEF Sweeps
<1>5. CASE Stats(r)
    <2>1. /\ my[r].back \in {"migrated", "graded", "saved"}
          /\ my[r].back = "graded" => my[r].stage # "update"
        BY <1>2, <1>5 DEF Stats, Purpose
    <2>2. Refreshed(r) \/ Answer(r, "error")
        BY <1>5 DEF Stats
    <2>3. CASE Refreshed(r) /\ my[r].back = "migrated"
        BY <1>1, <1>2, <2>3, MigratedKeeps DEF Refreshed
    <2>4. CASE Refreshed(r) /\ my[r].back = "graded"
        <3>1. "annotations" \in Awaits \ (Early \cup {"new"}) /\ Move(r, "annotations", my[r])
            BY <2>4 DEF Refreshed, Awaits, Early
        <3> QED
            BY <1>1, <1>2, <2>1, <2>4, <3>1, GoesOn DEF Sweeps
    <2>5. CASE Refreshed(r) /\ my[r].back = "saved"
        <3>1. \E files : NextTable(r, files)
            BY <2>5 DEF Refreshed, WriteBack
        <3> QED
            BY <1>1, <3>1, TablesKeep
    <2> QED
        BY <1>1, <2>1, <2>2, <2>3, <2>4, <2>5, AnswerKeeps DEF Ended
<1> QED
    BY <1>3, <1>4, <1>5

LEMMA WriteKeeps ==
    ASSUME LocalInv, NEW r \in Reqs,
           ReadTable(r) \/ WriteBegin(r) \/ WriteEnd(r) \/ WriteRaises(r)
    PROVE  LocalInv'
<1>1. Handled /\ pc[r] \in Later
    BY DEF ReadTable, WriteBegin, WriteEnd, WriteRaises, Handled, Goes, memory, given, Later, Awaits,
           Early
<1>2. /\ Busy(r) /\ pc[r] \notin Early /\ DOMAIN my[r] = Fields
      /\ Purpose(r) /\ Place(r) /\ Sweeps(r)
    BY <1>1, Working
<1>3. ASSUME NEW table, Move(r, "edit", [my[r] EXCEPT !.table = table]) PROVE LocalInv'
    <2> DEFINE l == [my[r] EXCEPT !.table = table]
    <2>1. /\ DOMAIN l = Fields /\ l.stage = my[r].stage /\ l.severe = my[r].severe
          /\ l.ds = my[r].ds /\ l.path = my[r].path
        BY <1>2 DEF Fields, Blank
    <2>2. "edit" \in Awaits \ (Early \cup {"new"}) /\ Move(r, "edit", l)
        BY <1>3 DEF Awaits, Early
    <2>3. "edit" \notin Grading \cup {"save", "count", "stats", "sweep", "upsert"}
        BY DEF Grading
    <2> HIDE DEF l
    <2> QED
        BY <1>1, <1>2, <2>1, <2>2, <2>3, GoesOn DEF Sweeps
<1>4. CASE ReadTable(r)
    BY <1>1, <1>3, <1>4, AnswerKeeps DEF ReadTable, Ended
<1>5. CASE WriteBegin(r)
    <2>1. "write" \in Awaits \ (Early \cup {"new"}) /\ Move(r, "write", my[r])
        BY <1>5 DEF WriteBegin, Awaits, Early
    <2>2. "write" \notin Grading \cup {"save", "count", "stats", "sweep", "upsert"}
        BY DEF Grading
    <2> QED
        BY <1>1, <1>2, <2>1, <2>2, GoesOn DEF Sweeps
<1>6. CASE WriteEnd(r)
    BY <1>1, <1>6, TablesKeep DEF WriteEnd
<1>7. CASE WriteRaises(r)
    BY <1>1, <1>7, AnswerKeeps DEF WriteRaises, Ended
<1> QED
    BY <1>4, <1>5, <1>6, <1>7

(* A load, which may find others busy: then nothing is calm from now on.    *)
LEMMA LoadKeeps ==
    ASSUME LocalInv, NEW r \in Reqs, Load(r)
    PROVE  LocalInv'
<1>1. /\ \E outcome \in Ended : Answer(r, outcome)
      /\ calm' = (calm /\ Quiet) /\ UNCHANGED <<ask, aim>>
    BY DEF Load, Ended
<1>2. ask[r].dataset \in Datasets
    BY DEF Load, LocalInv, Requests
<1>3. loaded' \in Datasets \cup {None}
    BY <1>2 DEF Load
<1>4. /\ pc'[r] \in Ended /\ \A q \in Reqs : q # r => pc'[q] = pc[q] /\ my'[q] = my[q]
      /\ Shapes'
    BY <1>1, BlankHasFields, Moves DEF Answer, LocalInv, Shapes
<1>5. ASSUME NEW q \in Reqs PROVE Local(q)'
    <2>1. CASE Busy(q)'
        <3>1. q # r /\ Busy(q)
            BY <1>4, <2>1 DEF Busy
        <3>2. ~calm'
            BY <1>1, <3>1 DEF Quiet, Busy
        <3>3. Purpose(q) /\ Place(q)
            BY <3>1 DEF LocalInv, Local
        <3> QED
            BY <1>1, <1>4, <3>1, <3>2, <3>3 DEF Local, Purpose, Place, Sweeps, Twofold
    <2> QED
        BY <2>1 DEF Local
<1> QED
    BY <1>1, <1>3, <1>4, <1>5 DEF LocalInv

LEMMA CrashKeeps ==
    ASSUME LocalInv, Crash
    PROVE  LocalInv'
<1>1. Shapes'
    BY BlankHasFields DEF LocalInv, Shapes, Crash, given, Ended
<1>2. ASSUME NEW r \in Reqs PROVE ~Busy(r)'
    BY DEF Crash, Busy, Ended
<1> QED
    BY <1>1, <1>2 DEF LocalInv, Local, Crash, given

LEMMA LocalInit == Init => LocalInv
BY BlankHasFields DEF Init, LocalInv, Shapes, Local, Busy, Awaits

LEMMA LocalStep == LocalInv /\ [Next]_vars => LocalInv'
<1> SUFFICES ASSUME LocalInv, [Next]_vars PROVE LocalInv'
    OBVIOUS
<1>1. CASE UNCHANGED vars
    <2>1. ASSUME NEW r \in Reqs PROVE Local(r)'
        BY <1>1 DEF vars, LocalInv, Local, Busy, Purpose, Place, Sweeps, Twofold
    <2> QED
        BY <1>1, <2>1 DEF vars, LocalInv, Shapes
<1>2. CASE Crash
    BY <1>2, CrashKeeps
<1>3. ASSUME NEW r \in Reqs, Start(r) PROVE LocalInv'
    BY <1>3, LoadKeeps, StartKeeps DEF Start
<1>4. ASSUME NEW r \in Reqs, Handler(r) PROVE LocalInv'
    BY <1>4, RegisterKeeps, MigrateKeeps, PassKeeps, ReadKeeps, SaveKeeps, WriteKeeps DEF Handler
<1> QED
    BY <1>1, <1>2, <1>3, <1>4 DEF Next

(* Whatever is loaded meanwhile, a handler stays with what it was sent for. *)
THEOREM LocalInvariance == Spec => []LocalInv
BY LocalInit, LocalStep, PTL DEF Spec

----------------------------------------------------------------------------
(* What is in the database, and what of it is committed.                    *)
NoteFields == {"grade", "tags", "reason"}

(* A note that a user wrote has a request to thank for it.                  *)
Asker(d, e, n) ==
    n.reason = "user" => \E r \in Reqs :
        /\ pc[r] # "new" /\ Annotates(r, e) /\ ask[r].grade = n.grade
        /\ aim[r] = d \/ (~calm /\ Twofold(r))

Deserved(d, e, n) == calm /\ n.reason = "auto" => e \in Severe[d]

Based(b) ==
    /\ DOMAIN b = {"reg", "stamp", "notes", "stats"} /\ DOMAIN b.notes = Datasets
    /\ \A d \in Datasets : \A e \in DOMAIN b.notes[d] :
          LET n == b.notes[d][e] IN DOMAIN n = NoteFields /\ Asker(d, e, n) /\ Deserved(d, e, n)

StoreInv == Based(db) /\ Based(disk)

(* No request is new again, few handlers enter the auto-grade pass or the   *)
(* lock of a table, and none that has begun begins elsewhere.               *)
Inside == {"new", "sweep", "upsert", "edit", "write"}
Moving(r) == \E step \in (Awaits \cup Ended) \ {"new"} : \E l : Move(r, step, l)
Aside(r) == \E step \in (Awaits \cup Ended) \ Inside : \E l : Move(r, step, l)

LEMMA CallsMove ==
    ASSUME NEW r, NEW step \in Awaits \ Inside, NEW l, CallWithPath(r, step, l)
    PROVE  Aside(r)
BY DEF CallWithPath, Answer, Aside, Inside, Ended, Awaits

LEMMA AnswersMove == ASSUME NEW r, NEW outcome \in Ended, Answer(r, outcome) PROVE Aside(r)
BY DEF Answer, Aside, Inside, Ended, Awaits

LEMMA BeginningsMove ==
    ASSUME NEW r, \/ \E l : CallRegister(r, l)
                  \/ \E stage : StartGet(r, stage)
                  \/ \E tags : StartUpdate(r, tags)
    PROVE  Aside(r)
<1>1. ASSUME NEW l, CallRegister(r, l) PROVE Aside(r)
    BY <1>1, CallsMove DEF CallRegister, Awaits, Inside
<1> QED
    BY <1>1, AnswersMove DEF StartGet, StartUpdate, Ended

LEMMA MigratedMoves ==
    ASSUME LocalInv, NEW r \in Reqs, pc[r] \in Later, Migrated(r)
    PROVE  Aside(r)
<1>1. my[r].stage \in Stages
    BY Working DEF Purpose
<1>2. CASE my[r].stage \in {"list", "get", "tags"}
    BY <1>2, CallsMove DEF Migrated, Awaits, Inside
<1>3. CASE my[r].stage = "update"
    BY <1>3 DEF Migrated, Aside, Inside, Awaits
<1>4. CASE my[r].stage = "bulk"
    BY <1>4 DEF Migrated, Aside, Inside, Awaits
<1> QED
    BY <1>1, <1>2, <1>3, <1>4 DEF Stages

LEMMA TablesMove == ASSUME NEW r, NEW files, NextTable(r, files) PROVE Aside(r)
<1>1. CASE Finish(r)
    BY <1>1, BeginningsMove, AnswersMove DEF Finish, Ended
<1> QED
    BY <1>1 DEF NextTable, Aside, Inside, Awaits

LEMMA MostMoveAside ==
    ASSUME LocalInv, NEW r \in Reqs, Start(r) \/ Handler(r)
    PROVE  Aside(r) \/ Graded(r) \/ Sweep(r) \/ Upsert(r) \/ ReadTable(r) \/ WriteBegin(r)
<1>1. CASE Start(r)
    BY <1>1, BeginningsMove, AnswersMove DEF Start, Load, List, Get, Patch, Bulk, Ended
<1>2. CASE Register(r) \/ Insert(r)
    <2>1. Registered(r, my[r].path) => Aside(r)
        BY CallsMove DEF Registered, Awaits, Inside
    <2>2. Move(r, "insert", my[r]) => Aside(r)
        BY DEF Aside, Inside, Awaits
    <2> QED
        BY <1>2, <2>1, <2>2, AnswersMove DEF Register, Insert, Ended
<1>3. CASE Migrate(r)
    <2>1. pc[r] \in Later
        BY <1>3 DEF Migrate, Later, Awaits, Early
    <2> QED
        BY <1>3, <2>1, MigratedMoves DEF Migrate, Aside, Inside, Awaits
<1>4. CASE SidecarRow(r)
    BY <1>4 DEF SidecarRow, Aside, Inside, Awaits
<1>5. CASE Stamped(r)
    BY <1>5 DEF Stamped, Aside, Inside, Awaits
<1>6. CASE Stamp(r)
    BY <1>6 DEF Stamp, Aside, Inside, Awaits
<1>7. CASE ReadNotes(r)
    <2> DEFINE l == [my[r] EXCEPT !.notes = db.notes[my[r].ds]]
    <2>1. pc[r] \in Later
        BY <1>7 DEF ReadNotes, Later, Awaits, Early
    <2>2. l.stage \in {"bulk", "get", "tags", "list"}
        BY <1>7, <2>1, Working DEF ReadNotes, Purpose, Stages, Grading, Fields, Blank
    <2>3. \/ \E m : Move(r, "save", m) \/ Move(r, "read", m)
          \/ Answer(r, "error")
        BY <1>7, <2>2 DEF ReadNotes
    <2> QED
        BY <2>3, AnswersMove DEF Aside, Inside, Awaits, Ended
<1>8. CASE ReadFile(r)
    <2>1. \/ \E m : Move(r, "read", m)
          \/ Answer(r, "error") \/ Answer(r, "ok")
          \/ \E tags : StartUpdate(r, tags)
        BY <1>8 DEF ReadFile
    <2> QED
        BY <2>1, AnswersMove, BeginningsMove DEF Aside, Inside, Awaits, Ended
<1>9. CASE Save(r)
    BY <1>9 DEF Save, Aside, Inside, Awaits
<1>10. CASE Count(r)
    BY <1>10 DEF Count, Aside, Inside, Awaits
<1>11. CASE Stats(r)
    <2>1. pc[r] \in Later
        BY <1>11 DEF Stats, Later, Awaits, Early
    <2>2. my[r].back \in {"migrated", "graded", "saved"}
        BY <1>11, <2>1, Working DEF Stats, Purpose
    <2>3. \/ Answer(r, "error") \/ Migrated(r) \/ Move(r, "annotations", my[r])
          \/ \E files : NextTable(r, files)
        BY <1>11, <2>2 DEF Stats, Refreshed, WriteBack
    <2> QED
        BY <2>1, <2>3, AnswersMove, MigratedMoves, TablesMove DEF Aside, Inside, Awaits, Ended
<1>12. CASE WriteRaises(r)
    BY <1>12, AnswersMove DEF WriteRaises, Ended
<1>13. CASE WriteEnd(r)
    BY <1>13, TablesMove DEF WriteEnd
<1> QED
    BY <1>1, <1>2, <1>3, <1>4, <1>5, <1>6, <1>7, <1>8, <1>9, <1>10, <1>11, <1>12, <1>13
       DEF Handler

LEMMA AllMove ==
    ASSUME LocalInv, NEW r \in Reqs, Start(r) \/ Handler(r)
    PROVE  Moving(r)
<1>1. CASE Aside(r)
    BY <1>1 DEF Aside, Moving, Inside
<1>2. CASE Graded(r)
    BY <1>2 DEF Graded, Answer, Moving, Awaits, Ended
<1>3. CASE Sweep(r)
    BY <1>3 DEF Sweep, Moving, Awaits
<1>4. CASE Upsert(r)
    BY <1>4 DEF Upsert, Moving, Awaits
<1>5. CASE ReadTable(r) \/ WriteBegin(r)
    BY <1>5 DEF ReadTable, WriteBegin, Answer, Moving, Awaits, Ended
<1> QED
    BY <1>1, <1>2, <1>3, <1>4, <1>5, MostMoveAside

LEMMA AskersStay ==
    ASSUME LocalInv, [Next]_vars
    PROVE  /\ UNCHANGED ask /\ (calm' => calm)
           /\ \A r \in Reqs : pc[r] # "new" => pc'[r] # "new" /\ aim'[r] = aim[r]
<1>1. CASE UNCHANGED vars
    BY <1>1 DEF vars
<1>2. CASE Crash
    BY <1>2 DEF Crash, given, LocalInv, Shapes
<1>3. ASSUME NEW r \in Reqs, Start(r) \/ Handler(r)
      PROVE  \A q \in Reqs : pc[q] # "new" => pc'[q] # "new"
    BY <1>3, AllMove DEF Moving, Move, LocalInv, Shapes
<1>4. ASSUME NEW r \in Reqs, Start(r)
      PROVE  /\ UNCHANGED ask /\ (calm' => calm)
             /\ \A q \in Reqs : pc[q] # "new" => aim'[q] = aim[q]
    <2>1. CASE Load(r)
        BY <2>1 DEF Load
    <2>2. CASE List(r) \/ Get(r) \/ Patch(r) \/ Bulk(r)
        <3>1. /\ pc[r] = "new" /\ UNCHANGED <<ask, calm>>
              /\ aim' = [aim EXCEPT ![r] = loaded]
            BY <2>2 DEF List, Get, Patch, Bulk
        <3> QED
            BY <3>1 DEF LocalInv, Shapes
    <2> QED
        BY <1>4, <2>1, <2>2 DEF Start
<1>5. ASSUME NEW r \in Reqs, Handler(r) PROVE UNCHANGED <<ask, aim, calm>>
    BY <1>5 DEF given, Handler, Register, Insert, Migrate, SidecarRow, Stamped, Graded, Sweep, Upsert, Stamp,
                ReadNotes, ReadFile, Save, Count, Stats, ReadTable, WriteBegin, WriteEnd, WriteRaises
<1> QED
    BY <1>1, <1>2, <1>3, <1>4, <1>5 DEF Next

(* Only the pass notes what it could not read, and that is never forgotten.  *)
LEMMA UnreadStays == ASSUME NEW r \in Reqs, Handler(r), ~Sweep(r) PROVE unread' = unread
BY DEF given, Handler, Register, Insert, Migrate, SidecarRow, Stamped, Graded, Upsert, Stamp,
       ReadNotes, ReadFile, Save, Count, Stats, ReadTable, WriteBegin, WriteEnd, WriteRaises

LEMMA UnreadGrows == [Next]_vars => unread \subseteq unread'
<1> SUFFICES ASSUME [Next]_vars PROVE unread \subseteq unread'
    OBVIOUS
<1>1. CASE UNCHANGED vars
    BY <1>1 DEF vars
<1>2. CASE Crash
    BY <1>2 DEF Crash, given
<1>3. ASSUME NEW r \in Reqs, Start(r) PROVE unread' = unread
    BY <1>3 DEF Start, Load, List, Get, Patch, Bulk
<1>4. ASSUME NEW r \in Reqs, Sweep(r) PROVE unread \subseteq unread'
    BY <1>4 DEF Sweep
<1>5. ASSUME NEW r \in Reqs, Handler(r), ~Sweep(r) PROVE unread' = unread
    BY <1>5, UnreadStays
<1> QED
    BY <1>1, <1>2, <1>3, <1>4, <1>5 DEF Next

(* So what is good in a database stays good.                                *)
LEMMA StoreStays ==
    ASSUME LocalInv, [Next]_vars, NEW b, NEW c, Based(b), Based(c), db' = b, disk' = c
    PROVE  StoreInv'
<1>1. ASSUME NEW d, NEW e, NEW n, Asker(d, e, n), Deserved(d, e, n)
      PROVE  Asker(d, e, n)' /\ Deserved(d, e, n)'
    BY <1>1, AskersStay DEF Asker, Deserved, Annotates, Twofold
<1>2. ASSUME NEW x, Based(x)
      PROVE  /\ DOMAIN x = {"reg", "stamp", "notes", "stats"} /\ DOMAIN x.notes = Datasets
             /\ \A d \in Datasets : \A e \in DOMAIN x.notes[d] :
                   LET n == x.notes[d][e] IN
                   DOMAIN n = NoteFields /\ Asker(d, e, n)' /\ Deserved(d, e, n)'
    BY <1>1, <1>2 DEF Based
<1>3. Based(db)'
    BY <1>2 DEF Based
<1>4. Based(disk)'
    BY <1>2 DEF Based
<1> QED
    BY <1>3, <1>4 DEF StoreInv

(* For what is there, and is not, it is enough that a database has its parts. *)
Shaped(b) == DOMAIN b = {"reg", "stamp", "notes", "stats"} /\ DOMAIN b.notes = Datasets

LEMMA StoreIsShaped == (Based(db) => Shaped(db)) /\ (StoreInv => Shaped(db))
BY DEF StoreInv, Based, Shaped

LEMMA NoteIsSet ==
    ASSUME Shaped(db), NEW d, NEW e, NEW note, NEW b, b = SetNote(d, e, note)
    PROVE  /\ DOMAIN b = {"reg", "stamp", "notes", "stats"} /\ DOMAIN b.notes = Datasets
           /\ b.stamp = db.stamp
           /\ \A x \in Datasets : x # d => b.notes[x] = db.notes[x]
           /\ d \in Datasets =>
                 /\ DOMAIN b.notes[d] = DOMAIN db.notes[d] \cup {e}
                 /\ \A i \in DOMAIN b.notes[d] :
                       b.notes[d][i] = IF i = e THEN note ELSE db.notes[d][i]
BY DEF Shaped, SetNote

LEMMA GoodNoteIsSet ==
    ASSUME Based(db), NEW d, NEW e, NEW note,
           DOMAIN note = NoteFields, Asker(d, e, note), Deserved(d, e, note),
           NEW b, b = SetNote(d, e, note)
    PROVE  Based(b)
<1>1. /\ DOMAIN b = {"reg", "stamp", "notes", "stats"} /\ DOMAIN b.notes = Datasets
      /\ \A x \in Datasets : x # d => b.notes[x] = db.notes[x]
      /\ d \in Datasets =>
            /\ DOMAIN b.notes[d] = DOMAIN db.notes[d] \cup {e}
            /\ \A i \in DOMAIN b.notes[d] :
                  b.notes[d][i] = IF i = e THEN note ELSE db.notes[d][i]
    BY NoteIsSet, StoreIsShaped
<1>2. ASSUME NEW x \in Datasets, NEW i \in DOMAIN b.notes[x]
      PROVE  DOMAIN b.notes[x][i] = NoteFields /\ Asker(x, i, b.notes[x][i])
             /\ Deserved(x, i, b.notes[x][i])
    <2>1. CASE x # d
        BY <1>1, <1>2, <2>1 DEF Based
    <2>2. CASE x = d /\ i # e
        BY <1>1, <1>2, <2>2 DEF Based
    <2>3. CASE x = d /\ i = e
        BY <1>1, <1>2, <2>3
    <2> QED
        BY <2>1, <2>2, <2>3
<1> QED
    BY <1>1, <1>2 DEF Based

LEMMA NotesAreApart ==
    ASSUME Shaped(db), NEW d, NEW x, NEW b,
           \/ b = [db EXCEPT !.reg = x] \/ b = [db EXCEPT !.stamp = x]
           \/ b = [db EXCEPT !.stats[d] = x]
    PROVE  b.notes = db.notes
BY DEF Shaped

LEMMA OtherPartsStay ==
    ASSUME Based(db), NEW d, NEW x, NEW b,
           \/ b = [db EXCEPT !.reg = x] \/ b = [db EXCEPT !.stamp = x]
           \/ b = [db EXCEPT !.stats[d] = x]
    PROVE  Based(b) /\ b.notes = db.notes
<1>1. DOMAIN b = DOMAIN db /\ b.notes = db.notes
    BY DEF Based
<1> QED
    BY <1>1 DEF Based

(* What each handler writes to the database.                                *)
LEMMA SavesAreAskedFor ==
    ASSUME LocalInv, NEW r \in Reqs, pc[r] = "save", NEW e \in my[r].todo
    PROVE  /\ DOMAIN Asked(r, e) = NoteFields /\ Annotates(r, e)
           /\ Asker(my[r].ds, e, Asked(r, e)) /\ Deserved(my[r].ds, e, Asked(r, e))
<1>1. /\ Purpose(r) /\ Place(r) /\ pc[r] \notin Early
    BY Working DEF Later, Awaits, Early
<1>2. my[r].stage \in {"update", "bulk"} /\ ask[r].op \in {"patch", "bulk"} /\ e \in ask[r].eps
    BY <1>1 DEF Purpose
<1>3. /\ DOMAIN Asked(r, e) = NoteFields
      /\ Asked(r, e).reason \in {"user", None} /\ Asked(r, e).grade = ask[r].grade
    BY DEF Asked, NoteFields
<1>4. my[r].ds = aim[r] \/ (~calm /\ Twofold(r))
    BY <1>1, <1>2 DEF Place
<1>5. ASSUME NEW n, n.grade = ask[r].grade PROVE Asker(my[r].ds, e, n)
    BY <1>2, <1>4, <1>5 DEF Asker, Annotates
<1>6. Asked(r, e).reason # "auto"
    BY AnnotationsAssumption DEF Asked
<1> QED
    BY <1>2, <1>3, <1>5, <1>6 DEF Deserved, Annotates

LEMMA AutoNotesAreDeserved ==
    ASSUME LocalInv, Based(db), NEW r \in Reqs, pc[r] = "upsert", NEW e \in my[r].todo,
           my[r].ds \in Datasets
    PROVE  LET note == AutoNote(my[r].ds, e) IN
           DOMAIN note = NoteFields /\ Asker(my[r].ds, e, note) /\ Deserved(my[r].ds, e, note)
<1> DEFINE d == my[r].ds  note == AutoNote(d, e)
<1>1. CASE e \in DOMAIN db.notes[d] /\ db.notes[d][e].grade # None
    BY <1>1 DEF AutoNote, Based
<1>2. CASE e \notin DOMAIN db.notes[d] \/ db.notes[d][e].grade = None
    <2>1. DOMAIN note = NoteFields /\ note.reason = "auto"
        BY <1>2 DEF AutoNote, Based, NoteFields
    <2>2. calm => e \in Severe[d]
        BY Working DEF Later, Awaits, Early, Place, Sweeps
    <2> QED
        BY <2>1, <2>2 DEF Asker, Deserved
<1> QED
    BY <1>1, <1>2

(* Outside the datasets there is nothing to set.                            *)
LEMMA NothingToSet ==
    ASSUME Based(db), NEW d, NEW e, NEW note, d \notin Datasets, NEW b, b = SetNote(d, e, note)
    PROVE  Based(b) /\ \A x \in Datasets : b.notes[x] = db.notes[x]
<1>1. /\ DOMAIN b = {"reg", "stamp", "notes", "stats"} /\ DOMAIN b.notes = Datasets
      /\ \A x \in Datasets : b.notes[x] = db.notes[x]
    BY NoteIsSet, StoreIsShaped
<1> QED
    BY <1>1 DEF Based

LEMMA StoreStep == LocalInv /\ StoreInv /\ [Next]_vars => StoreInv'
<1> SUFFICES ASSUME LocalInv, StoreInv, [Next]_vars PROVE StoreInv'
    OBVIOUS
<1>1. Based(db) /\ Based(disk)
    BY DEF StoreInv
<1>2. CASE UNCHANGED store
    BY <1>1, <1>2, StoreStays DEF store
<1>3. CASE Crash
    BY <1>1, <1>3, StoreStays DEF Crash
<1>4. ASSUME NEW r \in Reqs, Start(r) PROVE UNCHANGED store
    BY <1>4 DEF Start, Load, List, Get, Patch, Bulk
<1>5. ASSUME NEW r \in Reqs, Handler(r) PROVE StoreInv'
    <2>1. CASE Insert(r)
        <3>1. PICK x : (db' = [db EXCEPT !.reg = x] /\ disk' = db') \/ UNCHANGED store
            BY <2>1 DEF Insert
        <3> QED
            BY <1>1, <1>2, <3>1, OtherPartsStay, StoreStays
    <2>2. CASE SidecarRow(r)
        <3>1. PICK e, note :
                 /\ db' = db \/ db' = SetNote(my[r].ds, e, note)
                 /\ DOMAIN note = NoteFields /\ note.reason = None
                 /\ disk' = disk \/ disk' = db'
            BY <2>2 DEF SidecarRow, NoteFields, store
        <3>2. Based(SetNote(my[r].ds, e, note))
            BY <1>1, <3>1, GoodNoteIsSet, AnnotationsAssumption DEF Asker, Deserved
        <3> QED
            BY <1>1, <3>1, <3>2, StoreStays
    <2>3. CASE Upsert(r)
        <3>1. PICK e \in my[r].todo :
                 db' = SetNote(my[r].ds, e, AutoNote(my[r].ds, e)) /\ disk' = disk /\ pc[r] = "upsert"
            BY <2>3 DEF Upsert
        <3>2. Based(SetNote(my[r].ds, e, AutoNote(my[r].ds, e)))
            BY <1>1, <3>1, GoodNoteIsSet, AutoNotesAreDeserved, NothingToSet
        <3> QED
            BY <1>1, <3>1, <3>2, StoreStays
    <2>4. CASE Stamp(r)
        <3>1. PICK x : db' = [db EXCEPT !.stamp = x] /\ disk' = db'
            BY <2>4 DEF Stamp
        <3> QED
            BY <1>1, <3>1, OtherPartsStay, StoreStays
    <2>5. CASE Save(r)
        <3>1. PICK e \in my[r].todo :
                 db' = SetNote(my[r].ds, e, Asked(r, e)) /\ disk' = db' /\ pc[r] = "save"
            BY <2>5 DEF Save
        <3>2. Based(SetNote(my[r].ds, e, Asked(r, e)))
            BY <1>1, <3>1, GoodNoteIsSet, SavesAreAskedFor
        <3> QED
            BY <3>1, <3>2, StoreStays
    <2>6. CASE Stats(r)
        <3>1. \/ UNCHANGED store
              \/ db' = [db EXCEPT !.stats[my[r].ds] = my[r].counts] /\ disk' = db'
            BY <2>6 DEF Stats
        <3> QED
            BY <1>1, <1>2, <3>1, OtherPartsStay, StoreStays
    <2>7. CASE ~(Insert(r) \/ SidecarRow(r) \/ Upsert(r) \/ Stamp(r) \/ Save(r) \/ Stats(r))
        <3>1. UNCHANGED store
            BY <1>5, <2>7 DEF Handler, Register, Migrate, Stamped, Graded, Sweep, ReadNotes, ReadFile,
                              Count, ReadTable, WriteBegin, WriteEnd, WriteRaises
        <3> QED
            BY <1>2, <3>1
    <2> QED
        BY <2>1, <2>2, <2>3, <2>4, <2>5, <2>6, <2>7
<1> QED
    BY <1>2, <1>3, <1>4, <1>5 DEF Next, vars, store

LEMMA StoreInit == Init => StoreInv
BY DEF Init, StoreInv, Based, EmptyNotes

(* The notes of every database have somebody or something behind them.      *)
THEOREM StoreInvariance == Spec => []StoreInv
<1>1. StoreInv /\ LocalInv /\ [Next]_vars => StoreInv'
    BY StoreStep
<1> QED
    BY <1>1, StoreInit, LocalInvariance, PTL DEF Spec

(* Whatever is loaded while a request waits, its annotation goes to the     *)
(* dataset that was loaded when it was sent.                                *)
THEOREM RightRows == Spec => []RowsOfTheRightDataset
<1>1. StoreInv => RowsOfTheRightDataset
    BY DEF StoreInv, Based, Asker, Twofold, RowsOfTheRightDataset
<1> QED
    BY <1>1, StoreInvariance, PTL

(* A machine grades only what is severe, as long as no dataset is loaded    *)
(* while a request waits.                                                   *)
THEOREM DeservedGrades == Spec => []CalmAutoGradeIsDeserved
<1>1. StoreInv => CalmAutoGradeIsDeserved
    BY DEF StoreInv, Based, Deserved, CalmAutoGradeIsDeserved, AutoGradeIsDeserved
<1> QED
    BY <1>1, StoreInvariance, PTL

----------------------------------------------------------------------------
(* What a step may do to a note: nothing, unless it is asked for, rolled    *)
(* back, or has no grade and is given one by the auto-grade pass.           *)
SameNote(d, e) == e \in DOMAIN db'.notes[d] /\ db'.notes[d][e] = db.notes[d][e]

GradeKept(d, e) ==
    \/ /\ db.notes[d][e].grade = None
       /\ \E r \in Reqs : pc[r] = "upsert" /\ my[r].ds = d /\ e \in my[r].todo
    \/ SameNote(d, e)
    \/ \E r \in Reqs : pc[r] = "save" /\ my[r].ds = d /\ e \in my[r].todo

LEMMA OtherNotesStay ==
    ASSUME Shaped(db), NEW x, NEW i, NEW note, db' = SetNote(x, i, note),
           NEW d \in Datasets, NEW e \in DOMAIN db.notes[d], d # x \/ e # i
    PROVE  SameNote(d, e)
<1> PICK b : b = db'
    OBVIOUS
<1>1. /\ d # x => b.notes[d] = db.notes[d]
      /\ d = x => /\ DOMAIN b.notes[d] = DOMAIN db.notes[d] \cup {i}
                  /\ \A j \in DOMAIN b.notes[d] :
                        b.notes[d][j] = IF j = i THEN note ELSE db.notes[d][j]
    BY NoteIsSet
<1> QED
    BY <1>1 DEF SameNote

LEMMA GradesWritten ==
    ASSUME LocalInv, Shaped(db), NEW r \in Reqs, Start(r) \/ Handler(r),
           NEW d \in Datasets, NEW e \in DOMAIN db.notes[d]
    PROVE  GradeKept(d, e)
<1>1. CASE db'.notes = db.notes
    BY <1>1 DEF GradeKept, SameNote
<1>2. CASE Handler(r)
    <2>1. CASE Insert(r) \/ Stamp(r) \/ Stats(r)
        <3>1. PICK x, y : \/ db' = db \/ db' = [db EXCEPT !.reg = x] \/ db' = [db EXCEPT !.stamp = x]
                          \/ db' = [db EXCEPT !.stats[y] = x]
            BY <2>1 DEF Insert, Stamp, Stats, store
        <3>2. ASSUME NEW b, b = db' PROVE b.notes = db.notes
            BY <3>1, <3>2, NotesAreApart
        <3> QED
            BY <1>1, <3>2
    <2>2. CASE SidecarRow(r)
        <3>1. PICK x, i, note :
                 db' = db \/ (db' = SetNote(x, i, note) /\ i \notin DOMAIN db.notes[x])
            BY <2>2 DEF SidecarRow
        <3> QED
            BY <1>1, <3>1, OtherNotesStay DEF GradeKept
    <2>3. CASE Upsert(r)
        <3>1. PICK i \in my[r].todo :
                 db' = SetNote(my[r].ds, i, AutoNote(my[r].ds, i)) /\ pc[r] = "upsert"
            BY <2>3 DEF Upsert
        <3>2. CASE d # my[r].ds \/ e # i
            BY <3>1, <3>2, OtherNotesStay DEF GradeKept
        <3>3. CASE d = my[r].ds /\ e = i /\ db.notes[d][e].grade # None
            <4>1. AutoNote(d, e) = db.notes[d][e]
                BY <3>3 DEF AutoNote
            <4>2. ASSUME NEW b, b = db' PROVE e \in DOMAIN b.notes[d] /\ b.notes[d][e] = AutoNote(d, e)
                BY <3>1, <3>3, <4>2, NoteIsSet
            <4> QED
                BY <4>1, <4>2 DEF GradeKept, SameNote
        <3> QED
            BY <3>1, <3>2, <3>3 DEF GradeKept
    <2>4. CASE Save(r)
        <3>1. PICK i \in my[r].todo : db' = SetNote(my[r].ds, i, Asked(r, i)) /\ pc[r] = "save"
            BY <2>4 DEF Save
        <3> QED
            BY <3>1, OtherNotesStay DEF GradeKept
    <2>5. CASE ~(Insert(r) \/ SidecarRow(r) \/ Upsert(r) \/ Stamp(r) \/ Save(r) \/ Stats(r))
        BY <1>1, <1>2, <2>5
           DEF Handler, Register, Migrate, Stamped, Graded, Sweep, ReadNotes, ReadFile,
               Count, ReadTable, WriteBegin, WriteEnd, WriteRaises, store
    <2> QED
        BY <2>1, <2>2, <2>3, <2>4, <2>5
<1>3. CASE Start(r)
    BY <1>1, <1>3 DEF Start, Load, List, Get, Patch, Bulk, store
<1> QED
    BY <1>2, <1>3

LEMMA GradesStep ==
    ASSUME LocalInv, Shaped(db), [Next]_vars, ~Crash,
           NEW d \in Datasets, NEW e \in DOMAIN db.notes[d]
    PROVE  GradeKept(d, e)
<1>1. CASE UNCHANGED vars
    BY <1>1 DEF vars, GradeKept, SameNote
<1>2. ASSUME NEW r \in Reqs, Start(r) \/ Handler(r) PROVE GradeKept(d, e)
    BY <1>2, GradesWritten
<1> QED
    BY <1>1, <1>2 DEF Next

(* Neither the auto-grade pass nor the migration of legacy annotations      *)
(* replaces a grade, however late they write what they have read.           *)
THEOREM GradesKept == Spec => GradesAreKept
<1>1. LocalInv /\ StoreInv /\ [Next]_vars =>
        [\A d \in Datasets : \A e \in DOMAIN db.notes[d] :
            LET old == db.notes[d][e] IN
            \/ old.grade = None
            \/ e \in DOMAIN db'.notes[d] /\ db'.notes[d][e] = old
            \/ \E r \in Reqs : pc[r] = "save" /\ my[r].ds = d /\ e \in my[r].todo
            \/ e \notin DOMAIN disk.notes[d] \/ disk.notes[d][e] # old]_vars
    <2>1. CASE Crash
        BY <2>1 DEF Crash
    <2>2. CASE ~Crash
        BY <2>2, GradesStep, StoreIsShaped DEF GradeKept, SameNote
    <2> QED
        BY <2>1, <2>2
<1> QED
    BY <1>1, LocalInvariance, StoreInvariance, PTL DEF Spec, GradesAreKept

----------------------------------------------------------------------------
(* A table that is not torn has a row for every episode it should have, and *)
(* so has the copy that an annotator has in hand.                           *)
RowsOf(f) == {i \in Indices(f[1]) : <<f[1], FileOf[f[1]][i]>> = f}

Holds(r) == pc[r] \in {"edit", "write"} => DOMAIN my[r].table = RowsOf(my[r].file)

TablesInv ==
    /\ DOMAIN file = AllFiles
    /\ \A f \in AllFiles : file[f] = Torn \/ DOMAIN file[f] = RowsOf(f)
    /\ \A r \in Reqs : my[r].file \in AllFiles => Holds(r)

LEMMA TablesStep == LocalInv /\ TablesInv /\ [Next]_vars => TablesInv'
<1> SUFFICES ASSUME LocalInv, TablesInv, [Next]_vars PROVE TablesInv'
    OBVIOUS
<1>1. CASE UNCHANGED vars
    BY <1>1 DEF vars, TablesInv, Holds
<1>2. CASE Crash
    BY <1>2 DEF Crash, TablesInv, Holds, LocalInv, Shapes, Ended
<1>3. ASSUME NEW r \in Reqs, Start(r) \/ Handler(r) PROVE TablesInv'
    <2>1. ASSUME NEW q \in Reqs, q # r, my'[q].file \in AllFiles PROVE Holds(q)'
        <3>1. pc'[q] = pc[q] /\ my'[q] = my[q]
            BY <1>3, <2>1, AllMove DEF Moving, Move, LocalInv, Shapes
        <3> QED
            BY <2>1, <3>1 DEF TablesInv, Holds
    <2>2. ASSUME my'[r].file \in AllFiles PROVE Holds(r)'
        <3>1. CASE Aside(r) \/ Graded(r) \/ Sweep(r) \/ Upsert(r)
            <4>1. pc'[r] \notin {"edit", "write"}
                BY <3>1 DEF Aside, Inside, Graded, Sweep, Upsert, Answer, Move, LocalInv, Shapes
            <4> QED
                BY <4>1 DEF Holds
        <3>2. CASE ReadTable(r)
            <4>1. CASE Answer(r, "error")
                BY <4>1 DEF Answer, Move, Holds, LocalInv, Shapes
            <4>2. CASE /\ file[my[r].file] # Torn
                       /\ Move(r, "edit", [my[r] EXCEPT !.table = file[my[r].file]])
                <5>1. my'[r].file = my[r].file /\ my'[r].table = file[my[r].file]
                    BY <4>2 DEF Move, LocalInv, Shapes, Fields, Blank
                <5> QED
                    BY <2>2, <4>2, <5>1 DEF TablesInv, Holds
            <4> QED
                BY <3>2, <4>1, <4>2 DEF ReadTable
        <3>3. CASE WriteBegin(r)
            BY <2>2, <3>3 DEF WriteBegin, Move, TablesInv, Holds, LocalInv, Shapes
        <3> QED
            BY <1>3, <3>1, <3>2, <3>3, MostMoveAside
    <2>3. /\ DOMAIN file' = AllFiles
          /\ \A f \in AllFiles : file'[f] = Torn \/ DOMAIN file'[f] = RowsOf(f)
        <3>1. CASE UNCHANGED file
            BY <3>1 DEF TablesInv
        <3>2. CASE WriteBegin(r)
            BY <3>2 DEF WriteBegin, TablesInv
        <3>3. CASE WriteEnd(r)
            <4>1. PICK row : file' = [file EXCEPT ![my[r].file] = [e \in DOMAIN my[r].table |-> row[e]]]
                <5> DEFINE rows == [e \in DOMAIN my[r].table |->
                                      IF e \in {i \in DOMAIN my[r].table : i \in ask[r].eps}
                                      THEN [grade |-> Asked(r, e).grade, tags |-> Asked(r, e).tags]
                                      ELSE my[r].table[e]]
                <5>1. file' = [file EXCEPT ![my[r].file] = rows]
                    BY <3>3 DEF WriteEnd
                <5>2. rows = [e \in DOMAIN my[r].table |-> rows[e]]
                    OBVIOUS
                <5> HIDE DEF rows
                <5> QED
                    BY <5>1, <5>2
            <4>2. pc[r] = "write"
                BY <3>3 DEF WriteEnd
            <4> QED
                BY <4>1, <4>2 DEF TablesInv, Holds
        <3>4. CASE ~(WriteBegin(r) \/ WriteEnd(r))
            <4>1. UNCHANGED file
                BY <1>3, <3>4
                   DEF Start, Load, List, Get, Patch, Bulk, tables,
                       Handler, Register, Insert, Migrate, SidecarRow, Stamped, Graded, Sweep, Upsert,
                       Stamp, ReadNotes, ReadFile, Save, Count, Stats, ReadTable, WriteRaises
            <4> QED
                BY <3>1, <4>1
        <3> QED
            BY <3>2, <3>3, <3>4
    <2> QED
        BY <2>1, <2>2, <2>3 DEF TablesInv
<1> QED
    BY <1>1, <1>2, <1>3 DEF Next

LEMMA TablesInit == Init => TablesInv
BY DEF Init, TablesInv, Holds, Ungraded, RowsOf

----------------------------------------------------------------------------
(* The auto-grade pass.  An episode is settled in a database when it has a  *)
(* grade, or when somebody annotates it himself, or when its data could not *)
(* be read.                                                                 *)
Settled(b, d, e) ==
    \/ e \in DOMAIN b.notes[d] /\ b.notes[d][e].grade # None
    \/ \E r \in Reqs : Annotates(r, e)
    \/ <<d, e>> \in unread

(* A severe episode is settled, or the pass has found it, or has its table  *)
(* still to read.                                                           *)
Swept(r) ==
    pc[r] = "sweep" =>
        /\ \A e \in my[r].graded : Settled(db, loaded, e)
        /\ \A e \in Severe[loaded] :
              \/ Settled(db, loaded, e) \/ e \in my[r].severe
              \/ <<loaded, FileOf[loaded][e]>> \in my[r].files

Noted(r) ==
    pc[r] = "upsert" => \A e \in Severe[loaded] : Settled(db, loaded, e) \/ e \in my[r].todo

AllDone(b) == b.stamp \subseteq Datasets /\ \A d \in b.stamp : \A e \in Severe[d] : Settled(b, d, e)

StampInv == calm => /\ AllDone(db) /\ AllDone(disk)
                    /\ \A r \in Reqs : Swept(r) /\ Noted(r)

LEMMA SettledStays ==
    ASSUME LocalInv, StoreInv, [Next]_vars, ~Crash,
           NEW d \in Datasets, NEW e, Settled(db, d, e)
    PROVE  Settled(db, d, e)'
<1>1. UNCHANGED ask
    BY AskersStay
<1>2. CASE \E r \in Reqs : Annotates(r, e)
    BY <1>1, <1>2 DEF Settled, Annotates
<1>4. CASE <<d, e>> \in unread
    BY <1>4, UnreadGrows DEF Settled
<1>3. CASE e \in DOMAIN db.notes[d] /\ db.notes[d][e].grade # None
    <2>1. GradeKept(d, e)
        BY <1>3, GradesStep, StoreIsShaped
    <2>2. CASE SameNote(d, e)
        BY <1>3, <2>2 DEF SameNote, Settled
    <2>3. CASE \E r \in Reqs : pc[r] = "save" /\ e \in my[r].todo
        BY <1>2, <2>3, SavesAreAskedFor
    <2> QED
        BY <1>3, <2>1, <2>2, <2>3 DEF GradeKept
<1> QED
    BY <1>2, <1>3, <1>4 DEF Settled

(* Who is in the pass, when no dataset was loaded meanwhile.                *)
LEMMA InPass ==
    ASSUME LocalInv, calm, NEW r \in Reqs, pc[r] \in Grading
    PROVE  /\ loaded \in Datasets /\ my[r].ds = loaded /\ my[r].path = loaded
           /\ DOMAIN my[r] = Fields /\ Sweeps(r)
BY Working DEF Grading, Later, Awaits, Early, Place

LEMMA SweptGoesOn ==
    ASSUME LocalInv, StoreInv, TablesInv, StampInv, [Next]_vars, calm,
           NEW r \in Reqs, Graded(r) \/ Sweep(r)
    PROVE  Swept(r)' /\ Noted(r)'
<1>1. /\ UNCHANGED <<loaded, db, ask>> /\ pc[r] \in Grading
    BY DEF Graded, Sweep, memory, store, given, Grading
<1>2. /\ loaded \in Datasets /\ my[r].ds = loaded /\ my[r].path = loaded
      /\ DOMAIN my[r] = Fields /\ Sweeps(r)
    BY <1>1, InPass
<1>3. \A e \in Severe[loaded] : e \in Indices(loaded) /\ <<loaded, FileOf[loaded][e]>> \in Files(loaded)
    BY <1>2, AnnotationsAssumption DEF Files
<1>4. \A e : Settled(db, loaded, e) => Settled(db, loaded, e)'
    BY <1>1, UnreadGrows DEF Settled, Annotates
<1>5. ASSUME NEW step, NEW l, Move(r, step, l) PROVE pc'[r] = step /\ my'[r] = l
    BY <1>5 DEF Move, LocalInv, Shapes
<1>6. CASE Graded(r)
    <2> DEFINE graded == {e \in DOMAIN db.notes[my[r].ds] : db.notes[my[r].ds][e].grade # None}
               l == [my[r] EXCEPT !.files = Files(loaded), !.graded = graded]
    <2>1. loaded # None /\ Move(r, "sweep", l)
        BY <1>2, <1>6, AnnotationsAssumption DEF Graded
    <2>2. l.files = Files(loaded) /\ l.graded = graded
        BY <1>2 DEF Fields, Blank
    <2>3. \A e \in graded : Settled(db, loaded, e)
        BY <1>2 DEF Settled
    <2> HIDE DEF l, graded
    <2>4. pc'[r] = "sweep" /\ my'[r] = l
        BY <1>5, <2>1
    <2> QED
        BY <1>1, <1>3, <1>4, <2>2, <2>3, <2>4 DEF Swept, Noted
<1>7. CASE Sweep(r)
    <2>1. /\ \A e \in my[r].graded : Settled(db, loaded, e)
          /\ \A e \in Severe[loaded] :
                \/ Settled(db, loaded, e) \/ e \in my[r].severe
                \/ <<loaded, FileOf[loaded][e]>> \in my[r].files
          /\ my[r].files \subseteq Files(loaded)
        BY <1>2, <1>7 DEF Sweep, StampInv, Swept, Sweeps
    <2>2. CASE \E l : Move(r, "annotations", l)
        BY <1>5, <2>2 DEF Swept, Noted
    <2> DEFINE GoesOver(f, found) ==
                 LET rest == my[r].files \ {f}
                     severe == my[r].severe \cup found
                     passed == ((DOMAIN file[f] \ my[r].graded) \cap Severe[f[1]]) \ found IN
                 /\ IF rest # {} THEN Move(r, "sweep", [my[r] EXCEPT !.files = rest, !.severe = severe])
                    ELSE Move(r, "upsert", [my[r] EXCEPT !.files = {}, !.todo = severe])
                 /\ unread' = unread \cup ({my[r].ds} \X passed)
    <2>3. PICK f \in my[r].files :
             \/ Move(r, "annotations", [my[r] EXCEPT !.files = {}])
             \/ /\ file[f] # Torn
                /\ \E found \in SevereIn(f, my[r].path, DOMAIN file[f] \ my[r].graded) :
                     GoesOver(f, found)
        BY <1>7, Zenon DEF Sweep
    <2>4. CASE /\ file[f] # Torn
               /\ \E found \in SevereIn(f, my[r].path, DOMAIN file[f] \ my[r].graded) :
                     GoesOver(f, found)
        <3>0. PICK found \in SevereIn(f, my[r].path, DOMAIN file[f] \ my[r].graded) : GoesOver(f, found)
            BY <2>4
        <3> DEFINE severe == my[r].severe \cup found
                   rest == my[r].files \ {f}
                   passed == ((DOMAIN file[f] \ my[r].graded) \cap Severe[f[1]]) \ found
        <3>1. f \in Files(loaded) /\ f \in AllFiles /\ f[1] = loaded
            BY <1>2, <2>1 DEF Files, AllFiles
        <3>2. DOMAIN file[f] = RowsOf(f)
            BY <2>4, <3>1 DEF TablesInv
        <3>3. \A e \in passed : <<loaded, e>> \in unread' /\ Settled(db, loaded, e)'
            <4>1. \A e \in passed : <<loaded, e>> \in unread'
                BY <1>2, <3>0
            <4> QED
                BY <1>1, <4>1 DEF Settled
        <3>4. ASSUME NEW e \in Severe[loaded], <<loaded, FileOf[loaded][e]>> = f
              PROVE  Settled(db, loaded, e)' \/ e \in found
            <4>1. e \in DOMAIN file[f]
                BY <1>3, <3>1, <3>2, <3>4 DEF RowsOf
            <4>2. CASE e \in my[r].graded
                BY <1>4, <2>1, <4>2
            <4>3. CASE e \in passed
                BY <3>3, <4>3
            <4> QED
                BY <3>1, <4>1, <4>2, <4>3
        <3>5. \A e \in Severe[loaded] :
                 \/ Settled(db, loaded, e)' \/ e \in severe
                 \/ <<loaded, FileOf[loaded][e]>> \in rest
            BY <1>4, <2>1, <3>4
        <3>6. IF rest # {}
              THEN Move(r, "sweep", [my[r] EXCEPT !.files = rest, !.severe = severe])
              ELSE Move(r, "upsert", [my[r] EXCEPT !.files = {}, !.todo = severe])
            BY <3>0
        <3> HIDE DEF rest, severe, passed
        <3>7. CASE rest # {}
            <4> DEFINE l == [my[r] EXCEPT !.files = rest, !.severe = severe]
            <4>1. l.files = rest /\ l.severe = severe /\ l.graded = my[r].graded
                BY <1>2 DEF Fields, Blank
            <4>2. Move(r, "sweep", l)
                BY <3>6, <3>7
            <4> HIDE DEF l
            <4>3. pc'[r] = "sweep" /\ my'[r] = l
                BY <1>5, <4>2
            <4> QED
                BY <1>1, <1>4, <2>1, <3>5, <4>1, <4>3 DEF Swept, Noted
        <3>8. CASE rest = {}
            <4> DEFINE l == [my[r] EXCEPT !.files = {}, !.todo = severe]
            <4>1. l.todo = severe
                BY <1>2 DEF Fields, Blank
            <4>2. Move(r, "upsert", l)
                BY <3>6, <3>8
            <4> HIDE DEF l
            <4>3. pc'[r] = "upsert" /\ my'[r] = l
                BY <1>5, <4>2
            <4> QED
                BY <1>1, <1>4, <3>5, <3>8, <4>1, <4>3 DEF Swept, Noted
        <3> QED
            BY <3>7, <3>8
    <2> QED
        BY <2>2, <2>3, <2>4
<1> QED
    BY <1>6, <1>7

LEMMA NotedGoesOn ==
    ASSUME LocalInv, StoreInv, StampInv, [Next]_vars, ~Crash, calm, NEW r \in Reqs, Upsert(r)
    PROVE  Swept(r)' /\ Noted(r)'
<1>1. UNCHANGED <<loaded, ask>> /\ pc[r] \in Grading
    BY DEF Upsert, memory, given, Grading
<1>2. /\ loaded \in Datasets /\ my[r].ds = loaded /\ DOMAIN my[r] = Fields
    BY <1>1, InPass
<1>3. PICK i \in my[r].todo :
         /\ db' = SetNote(loaded, i, AutoNote(loaded, i))
         /\ Move(r, "upsert", [my[r] EXCEPT !.todo = my[r].todo \ {i}])
    BY <1>2 DEF Upsert, Fields, Blank
<1>4. pc'[r] = "upsert" /\ my'[r].todo = my[r].todo \ {i}
    BY <1>2, <1>3 DEF Move, LocalInv, Shapes, Fields, Blank
<1>5. ASSUME NEW b, b = db' PROVE i \in DOMAIN b.notes[loaded] /\ b.notes[loaded][i].grade # None
    <2>1. i \in DOMAIN b.notes[loaded] /\ b.notes[loaded][i] = AutoNote(loaded, i)
        BY <1>2, <1>3, <1>5, NoteIsSet, StoreIsShaped
    <2>2. AutoNote(loaded, i).grade # None
        BY <1>2, AnnotationsAssumption DEF AutoNote, Grades, StoreInv, Based, NoteFields
    <2> QED
        BY <2>1, <2>2
<1>6. Settled(db, loaded, i)'
    BY <1>1, <1>5, UnreadGrows DEF Settled
<1>7. ASSUME NEW e \in Severe[loaded] PROVE Settled(db, loaded, e)' \/ e \in my'[r].todo
    <2>1. CASE Settled(db, loaded, e)
        <3>1. \A d \in Datasets : Settled(db, d, e) => Settled(db, d, e)'
            BY SettledStays
        <3> QED
            BY <1>1, <1>2, <2>1, <3>1
    <2>2. CASE e \in my[r].todo
        BY <1>4, <1>6, <2>2
    <2> QED
        BY <2>1, <2>2 DEF StampInv, Noted, Upsert
<1> QED
    BY <1>1, <1>4, <1>7 DEF Swept, Noted

(* The others' findings stay true, and a pass ends with everything settled. *)
LEMMA StampStep == LocalInv /\ StoreInv /\ TablesInv /\ StampInv /\ [Next]_vars => StampInv'
<1> SUFFICES ASSUME LocalInv, StoreInv, TablesInv, StampInv, [Next]_vars, calm' PROVE StampInv'
    BY DEF StampInv
<1>1. calm /\ UNCHANGED ask /\ AllDone(db) /\ AllDone(disk) /\ \A r \in Reqs : Swept(r) /\ Noted(r)
    BY AskersStay DEF StampInv
<1>2. ASSUME NEW b, AllDone(b), Based(b) PROVE AllDone(b)'
    BY <1>1, <1>2, UnreadGrows DEF AllDone, Settled, Annotates
<1>3. CASE Crash
    <2>1. AllDone(db)' /\ AllDone(disk)'
        BY <1>1, <1>3, UnreadGrows DEF Crash, AllDone, Settled, Annotates
    <2>2. ASSUME NEW r \in Reqs PROVE Swept(r)' /\ Noted(r)'
        BY <1>3 DEF Crash, Swept, Noted, Ended
    <2> QED
        BY <2>1, <2>2 DEF StampInv
<1>4. CASE ~Crash
    <2>1. \A d \in Datasets : \A e : Settled(db, d, e) => Settled(db, d, e)'
        BY <1>4, SettledStays
    <2>2. db'.stamp = db.stamp \/ \E r \in Reqs : Stamp(r)
        <3>1. ASSUME NEW r \in Reqs, Handler(r), ~Stamp(r) PROVE db'.stamp = db.stamp
            <4>1. CASE Insert(r)
                BY <4>1 DEF Insert, store, StoreInv, Based
            <4>2. CASE SidecarRow(r) \/ Upsert(r) \/ Save(r)
                BY <4>2 DEF SidecarRow, Upsert, Save, SetNote, StoreInv, Based
            <4>3. CASE Stats(r)
                BY <4>3 DEF Stats, store, StoreInv, Based
            <4>4. CASE ~(Insert(r) \/ SidecarRow(r) \/ Upsert(r) \/ Save(r) \/ Stats(r))
                BY <3>1, <4>4
                   DEF Handler, Register, Migrate, Stamped, Graded, Sweep, ReadNotes, ReadFile,
                       Count, ReadTable, WriteBegin, WriteEnd, WriteRaises, store
            <4> QED
                BY <4>1, <4>2, <4>3, <4>4
        <3>2. ASSUME NEW r \in Reqs, Start(r) PROVE db' = db
            BY <3>2 DEF Start, Load, List, Get, Patch, Bulk, store
        <3> QED
            BY <1>4, <3>1, <3>2 DEF Next, vars
    <2>3. AllDone(db)'
        <3>1. CASE db'.stamp = db.stamp
            BY <1>1, <2>1, <3>1 DEF AllDone
        <3>2. ASSUME NEW r \in Reqs, Stamp(r) PROVE AllDone(db)'
            <4>1. loaded \in Datasets /\ my[r].ds = loaded
                BY <1>1, <3>2, InPass DEF Stamp, Grading
            <4>2. db'.stamp = db.stamp \cup {loaded}
                BY <3>2, <4>1 DEF Stamp, StoreInv, Based
            <4>3. \A e \in Severe[loaded] : Settled(db, loaded, e)
                BY <1>1, <3>2 DEF Stamp, Noted
            <4> QED
                BY <1>1, <2>1, <4>1, <4>2, <4>3 DEF AllDone
        <3> QED
            BY <2>2, <3>1, <3>2
    <2>4. AllDone(disk)'
        <3>1. disk' = disk \/ disk' = db'
            <4>1. ASSUME NEW r \in Reqs, Handler(r) PROVE disk' = disk \/ disk' = db'
                BY <4>1 DEF Handler, Register, Insert, Migrate, SidecarRow, Stamped, Graded, Sweep, Upsert,
                            Stamp, ReadNotes, ReadFile, Save, Count, Stats, ReadTable, WriteBegin,
                            WriteEnd, WriteRaises, store
            <4>2. ASSUME NEW r \in Reqs, Start(r) PROVE disk' = disk
                BY <4>2 DEF Start, Load, List, Get, Patch, Bulk, store
            <4> QED
                BY <1>4, <4>1, <4>2 DEF Next, vars
        <3>2. CASE disk' = disk
            BY <1>1, <3>2, UnreadGrows DEF AllDone, Settled, Annotates
        <3>3. CASE disk' = db'
            BY <2>3, <3>3 DEF AllDone, Settled
        <3> QED
            BY <3>1, <3>2, <3>3
    <2>5. ASSUME NEW q \in Reqs, pc'[q] = pc[q], my'[q] = my[q], pc[q] \in {"sweep", "upsert"}
          PROVE  Swept(q)' /\ Noted(q)'
        <3>1. loaded \in Datasets
            BY <1>1, <2>5, InPass DEF Grading
        <3>2. loaded' = loaded
            <4>1. ASSUME NEW r \in Reqs, Handler(r) PROVE loaded' = loaded
                BY <4>1 DEF Handler, Register, Insert, Migrate, SidecarRow, Stamped, Graded, Sweep, Upsert,
                            Stamp, ReadNotes, ReadFile, Save, Count, Stats, ReadTable, WriteBegin,
                            WriteEnd, WriteRaises, memory
            <4>2. ASSUME NEW r \in Reqs, Load(r) PROVE FALSE
                BY <2>5, <4>2 DEF Load, Quiet, Ended
            <4>3. ASSUME NEW r \in Reqs, Start(r) PROVE loaded' = loaded
                BY <4>2, <4>3 DEF Start, List, Get, Patch, Bulk, memory
            <4> QED
                BY <1>4, <4>1, <4>3 DEF Next, vars
        <3> QED
            BY <1>1, <2>1, <2>5, <3>1, <3>2 DEF Swept, Noted
    <2>6. ASSUME NEW r \in Reqs, Start(r) \/ Handler(r), NEW q \in Reqs PROVE Swept(q)' /\ Noted(q)'
        <3>1. CASE q # r
            <4>1. pc'[q] = pc[q] /\ my'[q] = my[q]
                BY <2>6, <3>1, AllMove DEF Moving, Move, LocalInv, Shapes
            <4> QED
                BY <2>5, <4>1 DEF Swept, Noted
        <3>2. CASE q = r /\ (Graded(r) \/ Sweep(r))
            BY <1>1, <3>2, SweptGoesOn
        <3>3. CASE q = r /\ Upsert(r)
            BY <1>1, <1>4, <3>3, NotedGoesOn
        <3>4. CASE q = r /\ (Aside(r) \/ ReadTable(r) \/ WriteBegin(r))
            <4>1. pc'[r] \notin {"sweep", "upsert"}
                BY <3>4 DEF Aside, Inside, ReadTable, WriteBegin, Answer, Move, LocalInv, Shapes
            <4> QED
                BY <3>4, <4>1 DEF Swept, Noted
        <3> QED
            BY <2>6, <3>1, <3>2, <3>3, <3>4, MostMoveAside
    <2>7. ASSUME UNCHANGED vars, NEW q \in Reqs PROVE Swept(q)' /\ Noted(q)'
        BY <2>5, <2>7 DEF vars, Swept, Noted
    <2> QED
        BY <1>4, <2>3, <2>4, <2>6, <2>7 DEF StampInv, Next
<1> QED
    BY <1>3, <1>4

LEMMA StampInit == Init => StampInv
BY DEF Init, StampInv, AllDone, Swept, Noted

(* What the auto-grade pass knows at each of its awaits.                    *)
THEOREM StampInvariance == Spec => [](TablesInv /\ StampInv)
<1>1. Init => TablesInv /\ StampInv
    BY TablesInit, StampInit
<1>2. LocalInv /\ StoreInv /\ (TablesInv /\ StampInv) /\ [Next]_vars => (TablesInv /\ StampInv)'
    BY TablesStep, StampStep
<1> QED
    BY <1>1, <1>2, LocalInvariance, StoreInvariance, PTL DEF Spec

(* A committed stamp promises, for every severe episode, a grade, an        *)
(* annotator, or that some pass found its data unreadable: wherever the     *)
(* server dies, and whoever commits the pass.                               *)
THEOREM StampPromises == Spec => []StampMeansGraded
<1>1. StampInv => StampMeansGraded
    BY DEF StampInv, AllDone, Settled, StampMeansGraded
<1> QED
    BY <1>1, StampInvariance, PTL

----------------------------------------------------------------------------
(* Below: an annotation that was answered with success is stored, in the    *)
(* database and in the episode table, for any datasets, requests and        *)
(* interleaving of them.                                                    *)

(* The awaits of a save, and who annotates.                                 *)
Writing == {"lock", "edit", "write"}
Annotator(r) == ask[r].op \in {"patch", "bulk"}

(* A request that annotates never lists, and only an annotation has tables  *)
(* to write.                                                                *)
Route(r) ==
    Busy(r) =>
        /\ Annotator(r) => my[r].stage # "list"
        /\ pc[r] \in Writing => my[r].stage \in {"update", "bulk"}
        /\ pc[r] \in {"count", "stats"} /\ my[r].back = "saved" => my[r].stage \in {"update", "bulk"}

(* Whoever waits for a table or has it waits for, or has, the lock there is *)
(* now; nobody else has the same table.                                     *)
HasLock(r) ==
    /\ pc[r] \in Writing => my[r].lockGen = gen
    /\ pc[r] \in {"edit", "write"} => <<my[r].file, gen>> \in locks

OneEach ==
    \A r, q \in Reqs :
        pc[r] \in {"edit", "write"} /\ pc[q] \in {"edit", "write"} /\ my[r].file = my[q].file => r = q

RouteInv ==
    /\ loaded # None => map = loaded
    /\ \A r \in Reqs : Route(r)
    /\ calm => OneEach /\ \A r \in Reqs : HasLock(r)

----------------------------------------------------------------------------
(* How a handler goes on that neither saves nor writes tables.              *)
Plain(r) ==
    \/ Register(r) \/ Insert(r) \/ Migrate(r) \/ SidecarRow(r)
    \/ Stamped(r) \/ Graded(r) \/ Sweep(r) \/ Upsert(r) \/ Stamp(r)
    \/ ReadNotes(r) \/ ReadFile(r)
    \/ Stats(r) /\ my[r].back # "saved"

Same(r) == my'[r].stage = my[r].stage

(* It keeps its stage, begins anew with an update, or is answered; it comes *)
(* to a save with all the episodes it was asked for.                        *)
Turn(r) ==
    /\ pc'[r] \in (Awaits \cup Ended) \ (Writing \cup {"stats", "new", "lost"})
    /\ pc'[r] = "count" => my'[r].back # "saved"
    /\ pc'[r] = "save" => my'[r].todo = ask[r].eps
    /\ \/ pc'[r] = "error"
       \/ pc'[r] = "ok" /\ my[r].stage \in {"list", "get"}
       \/ pc'[r] \in Awaits /\ (Same(r) \/ my'[r].stage = "update")

LEMMA Moved ==
    ASSUME LocalInv, NEW r \in Reqs, NEW step, NEW l, Move(r, step, l)
    PROVE  /\ pc'[r] = step /\ my'[r] = l
           /\ \A q \in Reqs : q # r => pc'[q] = pc[q] /\ my'[q] = my[q]
BY DEF Move, LocalInv, Shapes

LEMMA ErrorTurns == ASSUME LocalInv, NEW r \in Reqs, Answer(r, "error") PROVE Turn(r)
BY Moved DEF Answer, Turn, Awaits, Ended, Writing

LEMMA MoveTurns ==
    ASSUME LocalInv, NEW r \in Reqs,
           NEW step \in Awaits \ (Writing \cup {"stats", "new"}), NEW l, Move(r, step, l),
           step = "count" => l.back # "saved", step = "save" => l.todo = ask[r].eps,
           l.stage = my[r].stage
    PROVE  Turn(r)
BY Moved DEF Turn, Same, Awaits, Ended, Writing

LEMMA CallTurns ==
    ASSUME LocalInv, NEW r \in Reqs, NEW step \in {"register", "migrate", "stamped"},
           NEW l, DOMAIN l = Fields, CallWithPath(r, step, l),
           l.stage = my[r].stage \/ l.stage = "update"
    PROVE  Turn(r)
<1>1. CASE Answer(r, "error")
    BY <1>1, ErrorTurns
<1>2. CASE Move(r, step, [l EXCEPT !.path = loaded])
    BY <1>2, Moved DEF Turn, Same, Awaits, Ended, Writing, Fields, Blank
<1> QED
    BY <1>1, <1>2 DEF CallWithPath

LEMMA MigratedTurns ==
    ASSUME LocalInv, NEW r \in Reqs, pc[r] \in Later, Migrated(r)
    PROVE  Turn(r)
<1>1. DOMAIN my[r] = Fields /\ my[r].stage \in Stages
    BY Working DEF Purpose
<1>2. CASE my[r].stage \in {"list", "get", "tags"}
    BY <1>1, <1>2, CallTurns DEF Migrated
<1>3. CASE my[r].stage = "update"
    <2>1. Move(r, "save", [my[r] EXCEPT !.todo = ask[r].eps])
        BY <1>3 DEF Migrated
    <2> QED
        BY <1>1, <2>1, Moved DEF Turn, Same, Awaits, Ended, Writing, Fields, Blank
<1>4. CASE my[r].stage = "bulk"
    <2>1. Move(r, "annotations", my[r])
        BY <1>4 DEF Migrated
    <2> QED
        BY <2>1, Moved DEF Turn, Same, Awaits, Ended, Writing
<1> QED
    BY <1>1, <1>2, <1>3, <1>4 DEF Stages

LEMMA PlainTurns == ASSUME LocalInv, NEW r \in Reqs, Plain(r) PROVE Turn(r)
<1>1. DOMAIN my[r] = Fields
    BY DEF LocalInv, Shapes
<1>2. CASE Register(r) \/ Insert(r)
    <2>1. CASE Registered(r, my[r].path)
        <3> DEFINE l == [my[r] EXCEPT !.ds = my[r].path]
        <3>1. CallWithPath(r, "migrate", l)
            BY <2>1 DEF Registered
        <3>2. DOMAIN l = Fields /\ l.stage = my[r].stage
            BY <1>1 DEF Fields, Blank
        <3> HIDE DEF l
        <3> QED
            BY <3>1, <3>2, CallTurns
    <2>2. CASE Move(r, "insert", my[r])
        BY <2>2, Moved DEF Turn, Same, Awaits, Ended, Writing
    <2> QED
        BY <1>2, <2>1, <2>2, ErrorTurns DEF Register, Insert
<1>3. CASE Migrate(r)
    <2>1. CASE Migrated(r)
        BY <1>3, <2>1, MigratedTurns DEF Migrate, Later, Awaits, Early
    <2>2. CASE Move(r, "sidecar", [my[r] EXCEPT !.todo = DOMAIN Sidecar[my[r].path]])
        BY <1>1, <2>2, Moved DEF Turn, Same, Awaits, Ended, Writing, Fields, Blank
    <2> QED
        BY <1>3, <2>1, <2>2 DEF Migrate
<1>4. CASE SidecarRow(r)
    <2>1. PICK todo : \/ Move(r, "sidecar", [my[r] EXCEPT !.todo = todo])
                      \/ Move(r, "count", [my[r] EXCEPT !.todo = {}, !.back = "migrated"])
        BY <1>4 DEF SidecarRow
    <2>2. CASE Move(r, "sidecar", [my[r] EXCEPT !.todo = todo])
        BY <1>1, <2>2, MoveTurns DEF Awaits, Writing, Fields, Blank
    <2>3. CASE Move(r, "count", [my[r] EXCEPT !.todo = {}, !.back = "migrated"])
        BY <1>1, <2>3, MoveTurns DEF Awaits, Writing, Fields, Blank
    <2> QED
        BY <2>1, <2>2, <2>3
<1>5. CASE Stamped(r)
    <2>1. PICK step \in {"annotations", "graded"} : Move(r, step, my[r])
        BY <1>5 DEF Stamped
    <2> QED
        BY <2>1, Moved DEF Turn, Same, Awaits, Ended, Writing
<1>6. CASE Graded(r)
    <2>1. PICK graded : \/ Answer(r, "error")
                        \/ Move(r, "sweep", [my[r] EXCEPT !.files = Files(loaded), !.graded = graded])
        BY <1>6 DEF Graded
    <2>2. CASE Move(r, "sweep", [my[r] EXCEPT !.files = Files(loaded), !.graded = graded])
        BY <1>1, <2>2, MoveTurns DEF Awaits, Writing, Fields, Blank
    <2> QED
        BY <2>1, <2>2, ErrorTurns
<1>7. CASE Sweep(r)
    <2>1. PICK files, severe :
             \/ Move(r, "annotations", [my[r] EXCEPT !.files = {}])
             \/ Move(r, "sweep", [my[r] EXCEPT !.files = files, !.severe = severe])
             \/ Move(r, "upsert", [my[r] EXCEPT !.files = {}, !.todo = severe])
        BY <1>7 DEF Sweep
    <2>2. CASE Move(r, "annotations", [my[r] EXCEPT !.files = {}])
        BY <1>1, <2>2, MoveTurns DEF Awaits, Writing, Fields, Blank
    <2>3. CASE Move(r, "sweep", [my[r] EXCEPT !.files = files, !.severe = severe])
        BY <1>1, <2>3, MoveTurns DEF Awaits, Writing, Fields, Blank
    <2>4. CASE Move(r, "upsert", [my[r] EXCEPT !.files = {}, !.todo = severe])
        BY <1>1, <2>4, MoveTurns DEF Awaits, Writing, Fields, Blank
    <2> QED
        BY <2>1, <2>2, <2>3, <2>4
<1>8. CASE Upsert(r) \/ Stamp(r)
    <2>1. PICK todo :
             \/ Move(r, "upsert", [my[r] EXCEPT !.todo = todo])
             \/ Move(r, "count", [my[r] EXCEPT !.back = "graded", !.graded = {}, !.severe = {}])
        <3>1. CASE Upsert(r)
            <4>1. PICK e : Move(r, "upsert", [my[r] EXCEPT !.todo = @ \ {e}])
                BY <3>1 DEF Upsert
            <4>2. [my[r] EXCEPT !.todo = @ \ {e}] = [my[r] EXCEPT !.todo = my[r].todo \ {e}]
                BY <1>1 DEF Fields, Blank
            <4> QED
                BY <4>1, <4>2
        <3> QED
            BY <1>8, <3>1 DEF Stamp
    <2>2. CASE Move(r, "upsert", [my[r] EXCEPT !.todo = todo])
        BY <1>1, <2>2, MoveTurns DEF Awaits, Writing, Fields, Blank
    <2>3. CASE Move(r, "count", [my[r] EXCEPT !.back = "graded", !.graded = {}, !.severe = {}])
        BY <1>1, <2>3, MoveTurns DEF Awaits, Writing, Fields, Blank
    <2> QED
        BY <2>1, <2>2, <2>3
<1>9. CASE ReadNotes(r)
    <2> DEFINE l == [my[r] EXCEPT !.notes = db.notes[my[r].ds]]
    <2>1. my[r].stage \in {"bulk", "get", "tags", "list"} /\ l.stage = my[r].stage
        BY <1>1, <1>9, Working
           DEF ReadNotes, Later, Awaits, Early, Purpose, Stages, Grading, Fields, Blank
    <2>2. PICK files :
             \/ Move(r, "save", [l EXCEPT !.todo = ask[r].eps])
             \/ Move(r, "read", [l EXCEPT !.files = files])
             \/ Answer(r, "error")
        BY <1>9, <2>1 DEF ReadNotes
    <2>3. CASE Move(r, "save", [l EXCEPT !.todo = ask[r].eps])
        BY <1>1, <2>3, MoveTurns DEF Awaits, Writing, Fields, Blank
    <2>4. CASE Move(r, "read", [l EXCEPT !.files = files])
        BY <1>1, <2>4, MoveTurns DEF Awaits, Writing, Fields, Blank
    <2> QED
        BY <2>2, <2>3, <2>4, ErrorTurns
<1>10. CASE ReadFile(r)
    <2>1. PICK files, got :
             \/ Answer(r, "error")
             \/ Answer(r, "ok") /\ my[r].stage \in {"list", "get"}
             \/ Move(r, "read", [my[r] EXCEPT !.files = files, !.got = got])
             \/ my[r].stage = "tags" /\ StartUpdate(r, got[Target(r)].tags)
        BY <1>10 DEF ReadFile
    <2>2. ASSUME NEW tags, StartUpdate(r, tags) PROVE Turn(r)
        <3> DEFINE l == [Blank EXCEPT !.stage = "update", !.tags = tags]
        <3>1. DOMAIN l = Fields /\ l.stage = "update"
            BY DEF Fields, Blank
        <3>2. CallWithPath(r, "register", l) \/ Answer(r, "error")
            BY <2>2 DEF StartUpdate, CallRegister
        <3> HIDE DEF l
        <3> QED
            BY <3>1, <3>2, CallTurns, ErrorTurns
    <2>3. CASE Answer(r, "ok") /\ my[r].stage \in {"list", "get"}
        BY <2>3, Moved DEF Answer, Turn, Awaits, Ended, Writing
    <2>4. CASE Move(r, "read", [my[r] EXCEPT !.files = files, !.got = got])
        BY <1>1, <2>4, MoveTurns DEF Awaits, Writing, Fields, Blank
    <2> QED
        BY <2>1, <2>2, <2>3, <2>4, ErrorTurns
<1>11. CASE Stats(r) /\ my[r].back # "saved"
    <2>1. pc[r] \in Later /\ my[r].back \in {"migrated", "graded"}
        BY <1>11, Working DEF Stats, Later, Awaits, Early, Purpose
    <2>2. Answer(r, "error") \/ Migrated(r) \/ Move(r, "annotations", my[r])
        BY <1>11, <2>1 DEF Stats, Refreshed
    <2>3. Move(r, "annotations", my[r]) => Turn(r)
        BY Moved DEF Turn, Same, Awaits, Ended, Writing
    <2> QED
        BY <2>1, <2>2, <2>3, ErrorTurns, MigratedTurns
<1> QED
    BY <1>2, <1>3, <1>4, <1>5, <1>6, <1>7, <1>8, <1>9, <1>10, <1>11 DEF Plain

(* How a request begins.                                                    *)
LEMMA StartTurns ==
    ASSUME LocalInv, NEW r \in Reqs, Start(r)
    PROVE  /\ pc[r] = "new" /\ pc'[r] \in {"ok", "error", "register"}
           /\ Annotator(r) => pc'[r] # "ok" /\ (pc'[r] = "register" => my'[r].stage # "get" /\ my'[r].stage # "list")
<1> DEFINE Begun == /\ pc'[r] \in {"error", "register"}
                    /\ pc'[r] = "register" => my'[r].stage \in {"update", "bulk", "tags"}
<1>1. ASSUME NEW l, DOMAIN l = Fields, CallRegister(r, l), l.stage \in {"update", "bulk", "tags"}
      PROVE  Begun
    BY <1>1, Moved DEF CallRegister, CallWithPath, Answer, Fields, Blank
<1>2. ASSUME NEW l, CallRegister(r, l) PROVE pc'[r] \in {"error", "register"}
    BY <1>2, Moved DEF CallRegister, CallWithPath, Answer
<1>3. ASSUME NEW outcome, Answer(r, outcome) PROVE pc'[r] = outcome
    BY <1>3, Moved DEF Answer
<1>4. CASE Load(r)
    BY <1>3, <1>4 DEF Load, Annotator
<1>5. CASE List(r) \/ Get(r)
    BY <1>2, <1>3, <1>5 DEF List, Get, StartGet, Annotator
<1>6. CASE Patch(r)
    <2>1. ASSUME NEW tags, StartUpdate(r, tags) PROVE Begun
        <3> DEFINE l == [Blank EXCEPT !.stage = "update", !.tags = tags]
        <3>1. DOMAIN l = Fields /\ l.stage = "update"
            BY DEF Fields, Blank
        <3>2. CallRegister(r, l) \/ Answer(r, "error")
            BY <2>1 DEF StartUpdate
        <3> HIDE DEF l
        <3> QED
            BY <1>1, <1>3, <3>1, <3>2
    <2>2. ASSUME StartGet(r, "tags") PROVE Begun
        <3> DEFINE l == [Blank EXCEPT !.stage = "tags", !.file = <<map, FileOf[map][Target(r)]>>]
        <3>1. DOMAIN l = Fields /\ l.stage = "tags"
            BY DEF Fields, Blank
        <3>2. CallRegister(r, l) \/ Answer(r, "error")
            BY <2>2 DEF StartGet
        <3> HIDE DEF l
        <3> QED
            BY <1>1, <1>3, <3>1, <3>2
    <2>3. (\E tags : StartUpdate(r, tags)) \/ StartGet(r, "tags") \/ Answer(r, "error")
        BY <1>6 DEF Patch
    <2>4. Begun
        BY <1>3, <2>1, <2>2, <2>3
    <2> QED
        BY <1>6, <2>4 DEF Patch
<1>7. CASE Bulk(r)
    <2> DEFINE l == [Blank EXCEPT !.stage = "bulk"]
    <2>1. DOMAIN l = Fields /\ l.stage = "bulk" /\ CallRegister(r, l)
        BY <1>7 DEF Bulk, Fields, Blank
    <2> HIDE DEF l
    <2>2. Begun
        BY <1>1, <2>1
    <2> QED
        BY <1>7, <2>2 DEF Bulk
<1> QED
    BY <1>4, <1>5, <1>6, <1>7 DEF Start

(* How an annotator goes on from table to table, and ends.                  *)
LEMMA NextTableTurns ==
    ASSUME LocalInv, NEW r \in Reqs, NEW files, NextTable(r, files)
    PROVE  \/ /\ files = {}
              /\ pc'[r] \in {"ok", "error"} \/ (pc'[r] = "register" /\ my'[r].stage = "get")
           \/ /\ pc'[r] = "lock" /\ my'[r].file \in files /\ my'[r].files = files \ {my'[r].file}
              /\ my'[r].lockGen = gen /\ my'[r].stage = my[r].stage
              /\ my'[r].tags = my[r].tags /\ my'[r].notes = my[r].notes
<1>1. DOMAIN my[r] = Fields
    BY DEF LocalInv, Shapes
<1>2. CASE files = {} /\ Finish(r)
    <2>1. ASSUME NEW l, DOMAIN l = Fields, CallRegister(r, l), l.stage = "get"
          PROVE  pc'[r] = "error" \/ (pc'[r] = "register" /\ my'[r].stage = "get")
        BY <2>1, Moved DEF CallRegister, CallWithPath, Answer, Fields, Blank
    <2>2. ASSUME NEW outcome, Answer(r, outcome) PROVE pc'[r] = outcome
        BY <2>2, Moved DEF Answer
    <2>3. ASSUME StartGet(r, "get")
          PROVE  pc'[r] = "error" \/ (pc'[r] = "register" /\ my'[r].stage = "get")
        <3> DEFINE l == [Blank EXCEPT !.stage = "get", !.file = <<map, FileOf[map][Target(r)]>>]
        <3>1. DOMAIN l = Fields /\ l.stage = "get"
            BY DEF Fields, Blank
        <3>2. CallRegister(r, l) \/ Answer(r, "error")
            BY <2>3 DEF StartGet
        <3> HIDE DEF l
        <3> QED
            BY <2>1, <2>2, <3>1, <3>2
    <2>4. Answer(r, "ok") \/ Answer(r, "error") \/ StartGet(r, "get")
        BY <1>2 DEF Finish
    <2> QED
        BY <1>2, <2>2, <2>3, <2>4
<1>3. ASSUME NEW f \in files,
             Move(r, "lock", [my[r] EXCEPT !.files = files \ {f}, !.file = f, !.lockGen = gen,
                                           !.table = None])
      PROVE  /\ pc'[r] = "lock" /\ my'[r].file = f /\ my'[r].files = files \ {f}
             /\ my'[r].lockGen = gen /\ my'[r].stage = my[r].stage
             /\ my'[r].tags = my[r].tags /\ my'[r].notes = my[r].notes
    <2> DEFINE l == [my[r] EXCEPT !.files = files \ {f}, !.file = f, !.lockGen = gen, !.table = None]
    <2>1. /\ l.file = f /\ l.files = files \ {f} /\ l.lockGen = gen
          /\ l.stage = my[r].stage /\ l.tags = my[r].tags /\ l.notes = my[r].notes
        BY <1>1 DEF Fields, Blank
    <2>2. Move(r, "lock", l)
        BY <1>3
    <2> HIDE DEF l
    <2> QED
        BY <2>1, <2>2, Moved
<1> QED
    BY <1>2, <1>3 DEF NextTable

(* How an annotation goes on, from its first save to its last table.        *)
Carries(r) == Same(r) /\ my'[r].tags = my[r].tags /\ my'[r].notes = my[r].notes

LEMMA SaveTurns ==
    ASSUME LocalInv, NEW r \in Reqs, Save(r)
    PROVE  /\ Carries(r)
           /\ \E e \in my[r].todo :
                 /\ db' = SetNote(my[r].ds, e, Asked(r, e)) /\ disk' = db'
                 /\ \/ pc'[r] = "save" /\ my'[r].todo = my[r].todo \ {e}
                    \/ pc'[r] = "count" /\ my'[r].back = "saved" /\ my[r].todo = {e}
<1>1. DOMAIN my[r] = Fields
    BY DEF LocalInv, Shapes
<1>2. PICK e \in my[r].todo :
         /\ db' = SetNote(my[r].ds, e, Asked(r, e)) /\ disk' = db'
         /\ LET rest == my[r].todo \ {e} IN
            IF rest # {} THEN Move(r, "save", [my[r] EXCEPT !.todo = rest])
            ELSE Move(r, "count", [my[r] EXCEPT !.todo = {}, !.back = "saved"])
    BY DEF Save
<1>3. CASE Move(r, "save", [my[r] EXCEPT !.todo = my[r].todo \ {e}])
    BY <1>1, <1>2, <1>3, Moved DEF Carries, Same, Fields, Blank
<1>4. CASE my[r].todo = {e} /\ Move(r, "count", [my[r] EXCEPT !.todo = {}, !.back = "saved"])
    <2> DEFINE l == [my[r] EXCEPT !.todo = {}, !.back = "saved"]
    <2>1. /\ l.back = "saved" /\ l.stage = my[r].stage /\ l.tags = my[r].tags
          /\ l.notes = my[r].notes /\ Move(r, "count", l)
        BY <1>1, <1>4 DEF Fields, Blank
    <2> HIDE DEF l
    <2> QED
        BY <1>2, <1>4, <2>1, Moved DEF Carries, Same
<1> QED
    BY <1>2, <1>3, <1>4

LEMMA CountTurns ==
    ASSUME LocalInv, NEW r \in Reqs, Count(r)
    PROVE  Carries(r) /\ pc[r] = "count" /\ pc'[r] = "stats" /\ my'[r].back = my[r].back
<1>1. DOMAIN my[r] = Fields
    BY DEF LocalInv, Shapes
<1>2. PICK counts : Move(r, "stats", [my[r] EXCEPT !.counts = counts])
    BY DEF Count
<1> QED
    BY <1>1, <1>2, Moved DEF Count, Carries, Same, Fields, Blank

LEMMA ReadTableTurns ==
    ASSUME LocalInv, NEW r \in Reqs, ReadTable(r)
    PROVE  \/ pc'[r] = "error" /\ UNCHANGED locks
           \/ /\ pc'[r] = "edit" /\ Carries(r)
              /\ my'[r].file = my[r].file /\ my'[r].files = my[r].files
              /\ my'[r].lockGen = my[r].lockGen
              /\ file[my[r].file] # Torn /\ my'[r].table = file[my[r].file]
              /\ <<my[r].file, my[r].lockGen>> \notin locks
              /\ locks' = locks \cup {<<my[r].file, my[r].lockGen>>}
<1>1. DOMAIN my[r] = Fields
    BY DEF LocalInv, Shapes
<1>2. CASE Answer(r, "error") /\ UNCHANGED locks
    BY <1>2, Moved DEF Answer
<1>3. CASE /\ file[my[r].file] # Torn
           /\ Move(r, "edit", [my[r] EXCEPT !.table = file[my[r].file]])
           /\ locks' = locks \cup {<<my[r].file, my[r].lockGen>>}
    BY <1>1, <1>3, Moved DEF ReadTable, Carries, Same, Fields, Blank
<1> QED
    BY <1>2, <1>3 DEF ReadTable

LEMMA WriteBeginTurns ==
    ASSUME LocalInv, NEW r \in Reqs, WriteBegin(r)
    PROVE  pc[r] = "edit" /\ pc'[r] = "write" /\ my'[r] = my[r] /\ UNCHANGED locks
BY Moved DEF WriteBegin

LEMMA WriteRaisesTurns ==
    ASSUME LocalInv, NEW r \in Reqs, WriteRaises(r)
    PROVE  pc[r] = "write" /\ pc'[r] = "error" /\ locks' = locks \ {<<my[r].file, my[r].lockGen>>}
BY Moved DEF WriteRaises, Answer

LEMMA HandlerKinds ==
    ASSUME NEW r, Handler(r)
    PROVE  \/ Plain(r) \/ Save(r) \/ Count(r) \/ (Stats(r) /\ my[r].back = "saved")
           \/ ReadTable(r) \/ WriteBegin(r) \/ WriteEnd(r) \/ WriteRaises(r)
BY DEF Handler, Plain

(* What a handler leaves as it is.                                          *)
LEMMA HandlersLeave ==
    ASSUME NEW r, Handler(r)
    PROVE  /\ UNCHANGED <<loaded, map, gen, ask, aim, calm>>
           /\ ~(ReadTable(r) \/ WriteEnd(r) \/ WriteRaises(r)) => UNCHANGED locks
BY DEF Handler, Register, Insert, Migrate, SidecarRow, Stamped, Graded, Sweep, Upsert, Stamp, ReadNotes,
       ReadFile, Save, Count, Stats, ReadTable, WriteBegin, WriteEnd, WriteRaises, memory, tables, given

LEMMA StartsLeave ==
    ASSUME NEW r, Start(r)
    PROVE  /\ UNCHANGED <<ask, db, disk, file, locks>> /\ (calm' => calm)
           /\ Load(r) \/ UNCHANGED <<loaded, map, gen, calm>>
<1>1. CASE Load(r)
    BY <1>1 DEF Load, store, tables
<1>2. CASE List(r) \/ Get(r) \/ Patch(r) \/ Bulk(r)
    <2>1. UNCHANGED <<memory, store, tables, ask, calm>>
        BY <1>2 DEF List, Get, Patch, Bulk
    <2> QED
        BY <2>1 DEF memory, store, tables
<1> QED
    BY <1>1, <1>2 DEF Start

LEMMA OthersWait ==
    ASSUME LocalInv, NEW r \in Reqs, Start(r) \/ Handler(r), NEW q \in Reqs, q # r
    PROVE  pc'[q] = pc[q] /\ my'[q] = my[q]
BY AllMove DEF Moving, Move, LocalInv, Shapes

(* Who is in the middle of something has been calm with everybody.          *)
LEMMA BusyKeepsCalm ==
    ASSUME NEW r \in Reqs, Load(r), NEW q \in Reqs, Busy(q)
    PROVE  ~calm'
BY DEF Load, Quiet, Busy

LEMMA WritersWork ==
    ASSUME LocalInv, NEW r \in Reqs, pc[r] \in Writing \cup {"save", "count", "stats"}
    PROVE  Busy(r) /\ Purpose(r) /\ Place(r) /\ pc[r] \notin Early
BY Working DEF Writing, Later, Awaits, Early

LEMMA RouteGoesOn ==
    ASSUME LocalInv, RouteInv, NEW r \in Reqs, Start(r) \/ Handler(r)
    PROVE  Route(r)'
<1>1. UNCHANGED ask /\ Route(r)
    BY HandlersLeave, StartsLeave DEF RouteInv
<1>2. CASE Start(r)
    BY <1>1, <1>2, StartTurns DEF Route, Busy, Ended, Writing, Annotator
<1>3. CASE Plain(r)
    <2>1. Turn(r)
        BY <1>3, PlainTurns
    <2>2. Busy(r) /\ pc'[r] \notin Writing /\ ~(pc'[r] \in {"count", "stats"} /\ my'[r].back = "saved")
        BY <1>3, <2>1
           DEF Turn, Plain, Register, Insert, Migrate, SidecarRow, Stamped, Graded, Sweep, Upsert, Stamp,
               ReadNotes, ReadFile, Stats, Busy, Ended
    <2> QED
        BY <1>1, <2>1, <2>2 DEF Turn, Same, Route, Busy, Ended, Annotator
<1>4. CASE Save(r)
    <2>1. my[r].stage \in {"update", "bulk"}
        BY <1>4, WritersWork DEF Save, Purpose
    <2> QED
        BY <1>1, <1>4, <2>1, SaveTurns DEF Carries, Same, Route, Writing
<1>5. CASE Count(r)
    <2>1. Busy(r)
        BY <1>5, WritersWork DEF Count
    <2> QED
        BY <1>1, <1>5, <2>1, CountTurns DEF Carries, Same, Route, Writing, Annotator
<1>6. ASSUME NEW files, NextTable(r, files), pc[r] \in Writing \cup {"stats"},
             pc[r] = "stats" => my[r].back = "saved"
      PROVE  Route(r)'
    <2>1. my[r].stage \in {"update", "bulk"}
        BY <1>1, <1>6, WritersWork DEF Route
    <2> QED
        BY <1>6, <2>1, NextTableTurns DEF Route, Busy, Ended, Writing
<1>7. CASE Stats(r) /\ my[r].back = "saved"
    <2>1. Answer(r, "error") \/ \E files : NextTable(r, files)
        BY <1>7 DEF Stats, Refreshed, WriteBack
    <2>2. Answer(r, "error") => pc'[r] = "error"
        BY Moved DEF Answer
    <2> QED
        BY <1>6, <1>7, <2>1, <2>2 DEF Stats, Route, Busy, Ended
<1>8. CASE ReadTable(r)
    <2>1. my[r].stage \in {"update", "bulk"}
        BY <1>1, <1>8, WritersWork DEF ReadTable, Route, Writing
    <2> QED
        BY <1>8, <2>1, ReadTableTurns DEF Carries, Same, Route, Busy, Ended
<1>9. CASE WriteBegin(r)
    <2>1. my[r].stage \in {"update", "bulk"}
        BY <1>1, <1>9, WritersWork DEF WriteBegin, Route, Writing
    <2> QED
        BY <1>9, <2>1, WriteBeginTurns DEF Route
<1>10. CASE WriteEnd(r)
    BY <1>6, <1>10 DEF WriteEnd, Writing
<1>11. CASE WriteRaises(r)
    BY <1>11, WriteRaisesTurns DEF Route, Busy, Ended
<1> QED
    BY <1>2, <1>3, <1>4, <1>5, <1>7, <1>8, <1>9, <1>10, <1>11, HandlerKinds

(* Nobody enters a table that another one has.                              *)
LEMMA LocksGoOn ==
    ASSUME LocalInv, RouteInv, calm, NEW r \in Reqs, Handler(r)
    PROVE  OneEach' /\ \A q \in Reqs : HasLock(q)'
<1>1. /\ UNCHANGED gen /\ OneEach /\ \A q \in Reqs : HasLock(q)
      /\ \A q \in Reqs : q # r => pc'[q] = pc[q] /\ my'[q] = my[q]
    BY HandlersLeave, OthersWait DEF RouteInv
<1>2. CASE ReadTable(r) /\ pc'[r] = "edit"
    <2>1. /\ my[r].lockGen = gen /\ my'[r].lockGen = gen /\ my'[r].file = my[r].file
          /\ <<my[r].file, gen>> \notin locks /\ locks' = locks \cup {<<my[r].file, gen>>}
        BY <1>1, <1>2, ReadTableTurns DEF ReadTable, HasLock, Writing
    <2>2. \A q \in Reqs : HasLock(q)'
        BY <1>1, <1>2, <2>1 DEF HasLock
    <2>3. ASSUME NEW q \in Reqs, q # r, pc[q] \in {"edit", "write"} PROVE my[q].file # my[r].file
        BY <1>1, <2>1, <2>3 DEF HasLock
    <2> QED
        BY <1>1, <2>1, <2>2, <2>3 DEF OneEach
<1>3. CASE WriteBegin(r)
    BY <1>1, <1>3, WriteBeginTurns DEF HasLock, OneEach, Writing
<1>4. ASSUME pc'[r] \notin {"edit", "write"}, pc'[r] = "lock" => my'[r].lockGen = gen
      PROVE  OneEach' /\ \A q \in Reqs : HasLock(q)'
    <2>1. OneEach'
        BY <1>1, <1>4 DEF OneEach
    <2>2. ASSUME NEW q \in Reqs, q # r, pc[q] \in {"edit", "write"} PROVE <<my[q].file, gen>> \in locks'
        <3>1. <<my[q].file, gen>> \in locks
            BY <1>1, <2>2 DEF HasLock
        <3>2. CASE UNCHANGED locks
            BY <3>1, <3>2
        <3>3. CASE ReadTable(r)
            BY <1>4, <3>1, <3>3, ReadTableTurns
        <3>4. CASE WriteEnd(r) \/ WriteRaises(r)
            <4>1. pc[r] = "write" /\ locks' = locks \ {<<my[r].file, my[r].lockGen>>}
                BY <3>4 DEF WriteEnd, WriteRaises
            <4>2. my[q].file # my[r].file
                BY <1>1, <2>2, <4>1 DEF OneEach
            <4> QED
                BY <3>1, <4>1, <4>2
        <3> QED
            BY <3>2, <3>3, <3>4, HandlersLeave
    <2> QED
        BY <1>1, <1>4, <2>1, <2>2 DEF HasLock, Writing
<1>5. ASSUME NEW files, NextTable(r, files)
      PROVE  pc'[r] \notin {"edit", "write"} /\ (pc'[r] = "lock" => my'[r].lockGen = gen)
    BY <1>5, NextTableTurns
<1>6. CASE Plain(r)
    BY <1>4, <1>6, PlainTurns DEF Turn, Writing
<1>7. CASE Save(r) \/ Count(r) \/ WriteRaises(r)
    BY <1>4, <1>7, SaveTurns, CountTurns, WriteRaisesTurns
<1>8. CASE Stats(r) /\ my[r].back = "saved"
    <2>1. Answer(r, "error") \/ \E files : NextTable(r, files)
        BY <1>8 DEF Stats, Refreshed, WriteBack
    <2>2. Answer(r, "error") => pc'[r] = "error"
        BY Moved DEF Answer
    <2> QED
        BY <1>4, <1>5, <2>1, <2>2
<1>9. CASE WriteEnd(r)
    BY <1>4, <1>5, <1>9 DEF WriteEnd
<1>10. CASE ReadTable(r) /\ pc'[r] # "edit"
    BY <1>4, <1>10, ReadTableTurns
<1> QED
    BY <1>2, <1>3, <1>6, <1>7, <1>8, <1>9, <1>10, HandlerKinds

LEMMA RouteInit == Init => RouteInv
BY DEF Init, RouteInv, Route, HasLock, OneEach, Busy, Writing

LEMMA RouteStep == LocalInv /\ RouteInv /\ [Next]_vars => RouteInv'
<1> SUFFICES ASSUME LocalInv, RouteInv, [Next]_vars PROVE RouteInv'
    OBVIOUS
<1>1. CASE UNCHANGED vars
    BY <1>1 DEF vars, RouteInv, Route, HasLock, OneEach, Busy, Annotator
<1>2. CASE Crash
    BY <1>2 DEF Crash, RouteInv, Route, HasLock, OneEach, Busy, Ended, Writing
<1>3. ASSUME NEW r \in Reqs, Start(r) \/ Handler(r) PROVE RouteInv'
    <2>1. loaded' # None => map' = loaded'
        BY <1>3, HandlersLeave, StartsLeave DEF RouteInv, Load
    <2>2. UNCHANGED ask
        BY <1>3, HandlersLeave, StartsLeave
    <2>3. ASSUME NEW q \in Reqs PROVE Route(q)'
        <3>1. CASE q = r
            BY <1>3, <3>1, RouteGoesOn
        <3>2. CASE q # r
            BY <1>3, <2>2, <3>2, OthersWait DEF RouteInv, Route, Busy, Annotator
        <3> QED
            BY <3>1, <3>2
    <2>4. ASSUME calm' PROVE OneEach' /\ \A q \in Reqs : HasLock(q)'
        <3>1. CASE Handler(r)
            BY <2>4, <3>1, LocksGoOn, HandlersLeave
        <3>2. CASE Start(r)
            <4>1. calm /\ UNCHANGED locks /\ OneEach /\ \A q \in Reqs : HasLock(q)
                BY <2>4, <3>2, StartsLeave DEF RouteInv
            <4>2. pc'[r] \notin Writing /\ \A q \in Reqs : q # r => pc'[q] = pc[q] /\ my'[q] = my[q]
                BY <3>2, StartTurns, OthersWait DEF Writing
            <4>3. ASSUME NEW q \in Reqs, q # r, pc[q] \in Writing PROVE UNCHANGED gen
                <5>1. Busy(q)
                    BY <4>3, WritersWork
                <5> QED
                    BY <2>4, <3>2, <5>1, BusyKeepsCalm, StartsLeave
            <4> QED
                BY <4>1, <4>2, <4>3 DEF HasLock, OneEach, Writing
        <3> QED
            BY <1>3, <3>1, <3>2
    <2> QED
        BY <2>1, <2>3, <2>4 DEF RouteInv
<1> QED
    BY <1>1, <1>2, <1>3 DEF Next

(* Where annotations are on their way, and who has which lock.              *)
THEOREM RouteInvariance == Spec => []RouteInv
<1>1. RouteInv /\ LocalInv /\ [Next]_vars => RouteInv'
    BY RouteStep
<1> QED
    BY <1>1, RouteInit, LocalInvariance, PTL DEF Spec

----------------------------------------------------------------------------
(* An episode that r alone annotates, in the dataset that was loaded when r *)
(* began.  A grade that is cleared may be given anew by an auto-grade pass, *)
(* if the episode is severe.                                                *)
Owner(r, e) ==
    /\ Sole(r, e) /\ aim[r] \in Datasets /\ e \in Indices(aim[r])
    /\ ask[r].grade # None \/ e \notin Severe[aim[r]]

TableOf(d, e) == <<d, FileOf[d][e]>>

Matches(rows, d, e) ==
    rows[e].grade = db.notes[d][e].grade /\ rows[e].tags = db.notes[d][e].tags

(* The note is committed.                                                   *)
Saved(d, e) ==
    /\ e \in DOMAIN db.notes[d] /\ e \in DOMAIN disk.notes[d]
    /\ disk.notes[d][e] = db.notes[d][e]

(* The note is in the episode's table, and in every copy of it that will be *)
(* written back.                                                            *)
Shown(d, e) ==
    /\ file[TableOf(d, e)] # Torn => Matches(file[TableOf(d, e)], d, e)
    /\ \A q \in Reqs : pc[q] \in {"edit", "write"} /\ my[q].file = TableOf(d, e) =>
                            Matches(my[q].table, d, e)

(* Where r has saved e, and where r has done all it was asked for.          *)
Past(r, e) ==
    \/ pc[r] = "save" /\ e \notin my[r].todo
    \/ pc[r] \in {"count", "stats"} /\ my[r].back = "saved"
    \/ pc[r] \in Writing

Over(r) == pc[r] = "ok" \/ (Busy(r) /\ my[r].stage = "get")

Stored(r, e) ==
    LET d == aim[r] IN
    /\ Past(r, e) => Saved(d, e) /\ db.notes[d][e] = Asked(r, e)
    /\ pc[r] \in Writing => TableOf(d, e) \in my[r].files \cup {my[r].file} \/ Shown(d, e)
    /\ Over(r) => Saved(d, e) /\ db.notes[d][e].grade = ask[r].grade /\ Shown(d, e)

StoredInv == calm => \A r \in Reqs : \A e \in Episodes : Owner(r, e) => Stored(r, e)

(* What is committed, and what is written to tables.                        *)
LEMMA DiskFollows ==
    ASSUME NEW r, Start(r) \/ Handler(r)
    PROVE  disk' = disk \/ disk' = db'
BY StartsLeave
   DEF Handler, Register, Insert, Migrate, SidecarRow, Stamped, Graded, Sweep, Upsert, Stamp, ReadNotes,
       ReadFile, Save, Count, Stats, ReadTable, WriteBegin, WriteEnd, WriteRaises, store

LEMMA FewWriteTables ==
    ASSUME NEW r, Start(r) \/ Handler(r)
    PROVE  UNCHANGED file \/ WriteBegin(r) \/ WriteEnd(r)
BY StartsLeave
   DEF Handler, Register, Insert, Migrate, SidecarRow, Stamped, Graded, Sweep, Upsert, Stamp, ReadNotes,
       ReadFile, Save, Count, Stats, ReadTable, WriteRaises, tables

LEMMA RowsWritten ==
    ASSUME TablesInv, NEW r \in Reqs, WriteEnd(r)
    PROVE  /\ \A f \in AllFiles : f # my[r].file => file'[f] = file[f]
           /\ my[r].file \in AllFiles =>
                 \A e \in RowsOf(my[r].file) :
                    file'[my[r].file][e] = IF e \in ask[r].eps
                                           THEN [grade |-> Asked(r, e).grade, tags |-> Asked(r, e).tags]
                                           ELSE my[r].table[e]
<1> DEFINE rows == [e \in DOMAIN my[r].table |->
                      IF e \in {i \in DOMAIN my[r].table : i \in ask[r].eps}
                      THEN [grade |-> Asked(r, e).grade, tags |-> Asked(r, e).tags]
                      ELSE my[r].table[e]]
<1>1. file' = [file EXCEPT ![my[r].file] = rows] /\ pc[r] = "write" /\ DOMAIN file = AllFiles
    BY DEF WriteEnd, TablesInv
<1>2. ASSUME my[r].file \in AllFiles, NEW e \in RowsOf(my[r].file)
      PROVE  rows[e] = IF e \in ask[r].eps
                       THEN [grade |-> Asked(r, e).grade, tags |-> Asked(r, e).tags]
                       ELSE my[r].table[e]
    BY <1>1, <1>2 DEF TablesInv, Holds
<1> HIDE DEF rows
<1> QED
    BY <1>1, <1>2

(* The note of an episode with an owner changes only when he saves it.      *)
LEMMA NoteStays ==
    ASSUME LocalInv, StoreInv, calm, [Next]_vars, ~Crash, NEW r \in Reqs, NEW e, Owner(r, e),
           ~(pc[r] = "save" /\ e \in my[r].todo),
           e \in DOMAIN db.notes[aim[r]], db.notes[aim[r]][e].grade = ask[r].grade
    PROVE  SameNote(aim[r], e)
<1>1. aim[r] \in Datasets /\ GradeKept(aim[r], e)
    BY GradesStep, StoreIsShaped DEF Owner
<1>2. ASSUME NEW q \in Reqs, pc[q] = "upsert", my[q].ds = aim[r], e \in my[q].todo,
             ask[r].grade = None
      PROVE  FALSE
    <2>1. my[q].ds = loaded /\ Sweeps(q)
        BY <1>2, InPass DEF Grading
    <2> QED
        BY <1>2, <2>1 DEF Sweeps, Owner
<1>3. ASSUME NEW q \in Reqs, pc[q] = "save", e \in my[q].todo PROVE FALSE
    <2>1. Annotates(q, e)
        BY <1>3, SavesAreAskedFor
    <2> QED
        BY <1>3, <2>1 DEF Owner, Sole
<1> QED
    BY <1>1, <1>2, <1>3 DEF GradeKept

LEMMA SavedStays ==
    ASSUME NEW q, Start(q) \/ Handler(q), NEW d, NEW e, Saved(d, e), SameNote(d, e)
    PROVE  Saved(d, e)'
BY DiskFollows DEF Saved, SameNote

(* What a table and its copies show stays, unless somebody who is asked for *)
(* the episode writes something else.                                       *)
LEMMA ShownStays ==
    ASSUME LocalInv, TablesInv, NEW q \in Reqs, Start(q) \/ Handler(q),
           NEW d \in Datasets, NEW e \in Indices(d), SameNote(d, e), Shown(d, e),
           pc[q] = "write" /\ e \in ask[q].eps =>
               /\ Asked(q, e).grade = db.notes[d][e].grade
               /\ Asked(q, e).tags = db.notes[d][e].tags
    PROVE  Shown(d, e)'
<1> DEFINE f == TableOf(d, e)  n == db.notes[d][e]
<1>1. f \in AllFiles /\ e \in RowsOf(f)
    BY DEF TableOf, AllFiles, Files, RowsOf
<1>2. db'.notes[d][e] = n
    BY DEF SameNote
<1>3. /\ file[f] # Torn => file[f][e].grade = n.grade /\ file[f][e].tags = n.tags
      /\ \A p \in Reqs : pc[p] \in {"edit", "write"} /\ my[p].file = f =>
                            my[p].table[e].grade = n.grade /\ my[p].table[e].tags = n.tags
    BY DEF Shown, Matches
<1>4. file'[f] # Torn => file'[f][e].grade = n.grade /\ file'[f][e].tags = n.tags
    <2>1. CASE UNCHANGED file
        BY <1>3, <2>1
    <2>2. CASE WriteBegin(q)
        BY <1>1, <1>3, <2>2 DEF WriteBegin, TablesInv
    <2>3. CASE WriteEnd(q) /\ my[q].file = f
        <3>1. pc[q] = "write" /\ file'[f][e] = IF e \in ask[q].eps
                             THEN [grade |-> Asked(q, e).grade, tags |-> Asked(q, e).tags]
                             ELSE my[q].table[e]
            BY <1>1, <2>3, RowsWritten DEF WriteEnd
        <3> QED
            BY <1>3, <2>3, <3>1
    <2>4. CASE WriteEnd(q) /\ my[q].file # f
        BY <1>1, <1>3, <2>4, RowsWritten
    <2> QED
        BY <2>1, <2>2, <2>3, <2>4, FewWriteTables
<1>5. ASSUME NEW p \in Reqs, pc'[p] \in {"edit", "write"}, my'[p].file = f
      PROVE  my'[p].table[e].grade = n.grade /\ my'[p].table[e].tags = n.tags
    <2>1. CASE p # q
        BY <1>3, <1>5, <2>1, OthersWait
    <2>2. CASE p = q /\ ReadTable(q)
        <3>1. my'[q].file = my[q].file /\ file[my[q].file] # Torn /\ my'[q].table = file[my[q].file]
            BY <1>5, <2>2, ReadTableTurns
        <3> QED
            BY <1>3, <1>5, <2>2, <3>1
    <2>3. CASE p = q /\ WriteBegin(q)
        BY <1>3, <1>5, <2>3, WriteBeginTurns
    <2>4. CASE p = q /\ (Aside(q) \/ Graded(q) \/ Sweep(q) \/ Upsert(q))
        <3>1. pc'[q] \notin {"edit", "write"}
            BY <2>4 DEF Aside, Inside, Graded, Sweep, Upsert, Answer, Move, LocalInv, Shapes
        <3> QED
            BY <1>5, <2>4, <3>1
    <2> QED
        BY <2>1, <2>2, <2>3, <2>4, MostMoveAside
<1> HIDE DEF f, n
<1>6. Shown(d, e)' <=> /\ file'[f] # Torn => file'[f][e].grade = db'.notes[d][e].grade
                                              /\ file'[f][e].tags = db'.notes[d][e].tags
                       /\ \A p \in Reqs : pc'[p] \in {"edit", "write"} /\ my'[p].file = f =>
                             /\ my'[p].table[e].grade = db'.notes[d][e].grade
                             /\ my'[p].table[e].tags = db'.notes[d][e].tags
    BY DEF Shown, Matches, f, TableOf
<1> QED
    BY <1>2, <1>4, <1>5, <1>6

LEMMA AskedStays ==
    ASSUME NEW r, NEW e, UNCHANGED ask, my'[r].tags = my[r].tags, my'[r].notes = my[r].notes
    PROVE  Asked(r, e)' = Asked(r, e)
BY DEF Asked

(* Somebody else's step.                                                    *)
LEMMA StoredWaits ==
    ASSUME LocalInv, StoreInv, TablesInv, RouteInv, calm, ~Crash,
           NEW q \in Reqs, Start(q) \/ Handler(q), UNCHANGED ask,
           NEW r \in Reqs, r # q, aim'[r] = aim[r], NEW e, Owner(r, e), Stored(r, e)
    PROVE  Stored(r, e)'
<1> DEFINE d == aim[r]
<1>1. /\ pc'[r] = pc[r] /\ my'[r] = my[r] /\ d \in Datasets /\ e \in Indices(d)
      /\ [Next]_vars
    BY OthersWait DEF Owner, Next
<1>2. ~(pc[q] = "write" /\ e \in ask[q].eps)
    <2>1. pc[q] = "write" => Annotator(q)
        BY WritersWork DEF RouteInv, Route, Writing, Purpose, Annotator
    <2> QED
        BY <2>1 DEF Owner, Sole, Annotates, Annotator
<1>3. Past(r, e) \/ Over(r) => Saved(d, e) /\ SameNote(d, e) /\ db.notes[d][e].grade = ask[r].grade
    <2>1. ASSUME Past(r, e) \/ Over(r)
          PROVE  Saved(d, e) /\ db.notes[d][e].grade = ask[r].grade
        BY <2>1 DEF Stored, Asked
    <2>2. ~(pc[r] = "save" /\ e \in my[r].todo) \/ ~(Past(r, e) \/ Over(r))
        BY WritersWork DEF Past, Over, Writing, Purpose
    <2> QED
        BY <1>1, <2>1, <2>2, NoteStays DEF Saved
<1>4. Shown(d, e) /\ (Past(r, e) \/ Over(r)) => Shown(d, e)'
    BY <1>1, <1>2, <1>3, ShownStays
<1>5. Past(r, e) \/ Over(r) => Saved(d, e)' /\ db'.notes[d][e] = db.notes[d][e]
    BY <1>3, SavedStays DEF SameNote
<1>6. /\ Past(r, e)' <=> Past(r, e)
      /\ Over(r)' <=> Over(r)
      /\ Asked(r, e)' = Asked(r, e)
    BY <1>1 DEF Past, Over, Busy, Asked
<1>7. pc[r] \in Writing => Past(r, e)
    BY DEF Past
<1> QED
    BY <1>1, <1>3, <1>4, <1>5, <1>6, <1>7 DEF Stored

(* The step of a handler that neither saves nor writes tables: it is not    *)
(* past its saves yet, or it is over and only reads the answer.             *)
LEMMA StoredPlainly ==
    ASSUME LocalInv, StoreInv, TablesInv, RouteInv, calm, ~Crash,
           NEW r \in Reqs, Plain(r), Handler(r), NEW e, Owner(r, e), Stored(r, e)
    PROVE  Stored(r, e)'
<1> DEFINE d == aim[r]
<1>1. /\ Turn(r) /\ Annotator(r) /\ e \in ask[r].eps /\ UNCHANGED <<ask, aim>> /\ [Next]_vars
      /\ d \in Datasets /\ e \in Indices(d)
    BY PlainTurns, HandlersLeave DEF Owner, Sole, Annotates, Annotator, Next
<1>2. Busy(r) /\ pc[r] \notin {"save", "write"}
    BY DEF Plain, Register, Insert, Migrate, SidecarRow, Stamped, Graded, Sweep, Upsert, Stamp,
           ReadNotes, ReadFile, Stats, Busy, Ended
<1>3. ~Past(r, e)' /\ pc'[r] \notin Writing
    BY <1>1 DEF Turn, Past, Writing
<1>4. Over(r)' => Over(r)
    <2>1. my[r].stage # "list"
        BY <1>1, <1>2 DEF RouteInv, Route
    <2> QED
        BY <1>1, <1>2, <2>1 DEF Turn, Same, Over, Busy, Ended, Awaits
<1>5. ASSUME Over(r)
      PROVE  Saved(d, e)' /\ db'.notes[d][e].grade = ask'[r].grade /\ Shown(d, e)'
    <2>1. Saved(d, e) /\ db.notes[d][e].grade = ask[r].grade /\ Shown(d, e)
        BY <1>5 DEF Stored
    <2>2. SameNote(d, e)
        BY <1>1, <1>2, <2>1, NoteStays DEF Saved
    <2>3. Shown(d, e)'
        BY <1>1, <1>2, <2>1, <2>2, ShownStays
    <2> QED
        BY <1>1, <2>1, <2>2, <2>3, SavedStays DEF SameNote
<1> QED
    BY <1>1, <1>3, <1>4, <1>5 DEF Stored

(* From save to save, and through the count of the grades.                  *)
LEMMA StoredBySave ==
    ASSUME LocalInv, StoreInv, TablesInv, RouteInv, calm, ~Crash,
           NEW r \in Reqs, Save(r) \/ Count(r), Handler(r), NEW e, Owner(r, e), Stored(r, e)
    PROVE  Stored(r, e)'
<1> DEFINE d == aim[r]
<1>1. UNCHANGED <<ask, aim>> /\ [Next]_vars /\ d \in Datasets /\ e \in Indices(d)
    BY HandlersLeave DEF Owner, Next
<1>2. /\ Busy(r) /\ my[r].ds = d
      /\ pc[r] = "save" => my[r].stage \in {"update", "bulk"}
    BY WritersWork DEF Save, Count, Place, Purpose
<1>3. Carries(r) /\ Asked(r, e)' = Asked(r, e)
    BY <1>1, SaveTurns, CountTurns, AskedStays DEF Carries
<1>4. ASSUME Past(r, e) \/ Over(r), ~(pc[r] = "save" /\ e \in my[r].todo)
      PROVE  /\ Saved(d, e)' /\ db'.notes[d][e] = db.notes[d][e]
             /\ Shown(d, e) => Shown(d, e)'
    <2>1. Saved(d, e) /\ db.notes[d][e].grade = ask[r].grade
        BY <1>4 DEF Stored, Asked
    <2>2. SameNote(d, e)
        BY <1>1, <1>4, <2>1, NoteStays DEF Saved
    <2>3. pc[r] # "write"
        BY DEF Save, Count
    <2> QED
        BY <1>1, <2>1, <2>2, <2>3, SavedStays, ShownStays DEF SameNote
<1>5. CASE Save(r)
    <2>1. PICK i \in my[r].todo :
             /\ db' = SetNote(d, i, Asked(r, i)) /\ disk' = db'
             /\ \/ pc'[r] = "save" /\ my'[r].todo = my[r].todo \ {i}
                \/ pc'[r] = "count" /\ my'[r].back = "saved" /\ my[r].todo = {i}
        BY <1>2, <1>5, SaveTurns
    <2>2. pc[r] = "save" /\ ~Over(r)' /\ pc'[r] \notin Writing
        BY <1>2, <1>3, <1>5, <2>1 DEF Save, Over, Carries, Same, Writing
    <2>3. CASE e = i
        <3>1. ASSUME NEW b, b = db' PROVE e \in DOMAIN b.notes[d] /\ b.notes[d][e] = Asked(r, e)
            BY <1>1, <2>1, <2>3, <3>1, NoteIsSet, StoreIsShaped
        <3>2. Saved(d, e)' /\ db'.notes[d][e] = Asked(r, e)
            BY <1>1, <2>1, <3>1 DEF Saved
        <3> QED
            BY <1>1, <1>3, <2>2, <3>2 DEF Stored
    <2>4. CASE e # i /\ e \notin my[r].todo
        <3>1. Past(r, e) /\ db.notes[d][e] = Asked(r, e)
            BY <2>2, <2>4 DEF Past, Stored
        <3> QED
            BY <1>1, <1>3, <1>4, <2>2, <2>4, <3>1 DEF Stored
    <2>5. CASE e # i /\ e \in my[r].todo
        <3>1. ~Past(r, e)'
            BY <2>1, <2>2, <2>5 DEF Past, Writing
        <3> QED
            BY <2>2, <3>1 DEF Stored
    <2> QED
        BY <2>3, <2>4, <2>5
<1>6. CASE Count(r)
    <2>1. /\ pc[r] = "count" /\ pc'[r] = "stats" /\ my'[r].back = my[r].back
        BY <1>6, CountTurns
    <2>2. (Past(r, e)' <=> Past(r, e)) /\ (Over(r)' <=> Over(r)) /\ pc'[r] \notin Writing
        BY <1>3, <2>1 DEF Past, Over, Busy, Ended, Carries, Same, Writing
    <2> QED
        BY <1>1, <1>3, <1>4, <2>1, <2>2 DEF Stored
<1> QED
    BY <1>5, <1>6

(* The tables: those that are left, the one in hand, or written.            *)
LEMMA StoredByWrite ==
    ASSUME LocalInv, StoreInv, TablesInv, RouteInv, calm, ~Crash, NEW r \in Reqs, Handler(r),
           \/ Stats(r) /\ my[r].back = "saved"
           \/ ReadTable(r) \/ WriteBegin(r) \/ WriteEnd(r) \/ WriteRaises(r),
           NEW e, Owner(r, e), Stored(r, e)
    PROVE  Stored(r, e)'
<1> DEFINE d == aim[r]  f == TableOf(d, e)
<1>1. /\ UNCHANGED <<ask, aim>> /\ [Next]_vars /\ d \in Datasets /\ e \in Indices(d)
      /\ e \in ask[r].eps
    BY HandlersLeave DEF Owner, Sole, Annotates, Next
<1>2. Past(r, e) /\ pc[r] \in Writing \cup {"stats"}
    BY DEF Past, Stats, ReadTable, WriteBegin, WriteEnd, WriteRaises, Writing
<1>3. /\ Busy(r) /\ my[r].ds = d /\ loaded = d /\ map = d
      /\ my[r].stage \in {"update", "bulk"}
    <2>1. Busy(r) /\ Place(r) /\ pc[r] \notin Early
        BY <1>2, WritersWork
    <2>2. my[r].stage \in {"update", "bulk"}
        BY <1>2, <2>1 DEF Past, RouteInv, Route, Writing
    <2> QED
        BY <1>1, <2>1, <2>2, AnnotationsAssumption DEF Place, RouteInv
<1>4. Saved(d, e) /\ db.notes[d][e] = Asked(r, e) /\ db.notes[d][e].grade = ask[r].grade
    BY <1>2 DEF Stored, Asked
<1>5. SameNote(d, e)
    <2>1. pc[r] # "save" /\ e \in DOMAIN db.notes[d]
        BY <1>2, <1>4 DEF Saved, Writing
    <2> QED
        BY <1>1, <1>4, <2>1, NoteStays
<1>6. Saved(d, e)' /\ db'.notes[d][e] = db.notes[d][e]
    BY <1>1, <1>4, <1>5, SavedStays DEF SameNote
<1>7. Shown(d, e) => Shown(d, e)'
    BY <1>1, <1>4, <1>5, ShownStays
<1>8. ASSUME pc'[r] = "error" PROVE Stored(r, e)'
    BY <1>8 DEF Stored, Past, Over, Busy, Ended, Writing
<1>9. ASSUME Carries(r), pc'[r] \in Writing, f \in my'[r].files \cup {my'[r].file} \/ Shown(d, e)'
      PROVE  Stored(r, e)'
    <2>1. Asked(r, e)' = Asked(r, e)
        BY <1>1, <1>9, AskedStays DEF Carries
    <2>2. ~Over(r)'
        BY <1>3, <1>9 DEF Over, Carries, Same, Writing
    <2>3. f' = f
        BY <1>1 DEF TableOf
    <2> QED
        BY <1>1, <1>4, <1>6, <1>9, <2>1, <2>2, <2>3 DEF Stored
<1>10. ASSUME NEW files, NextTable(r, files), f \in files \/ Shown(d, e)'
       PROVE  Stored(r, e)'
    <2>1. CASE pc'[r] = "lock"
        <3>1. Carries(r) /\ files = my'[r].files \cup {my'[r].file}
            BY <1>10, <2>1, NextTableTurns DEF Carries, Same
        <3> QED
            BY <1>9, <1>10, <2>1, <3>1 DEF Writing
    <2>2. CASE files = {} /\ (pc'[r] \in {"ok", "error"} \/ pc'[r] = "register")
        <3>1. ~Past(r, e)' /\ pc'[r] \notin Writing
            BY <2>2 DEF Past, Writing
        <3> QED
            BY <1>1, <1>4, <1>6, <1>10, <2>2, <3>1 DEF Stored
    <2> QED
        BY <1>10, <2>1, <2>2, NextTableTurns
<1>11. CASE Stats(r)
    <2>1. Answer(r, "error") \/ NextTable(r, {<<d, FileOf[d][i]>> : i \in ask[r].eps \cap Indices(d)})
        BY <1>1, <1>3, <1>11, AnnotationsAssumption DEF Stats, Refreshed, WriteBack, Writing, ReadTable,
           WriteBegin, WriteEnd, WriteRaises
    <2>2. f \in {<<d, FileOf[d][i]>> : i \in ask[r].eps \cap Indices(d)}
        BY <1>1 DEF TableOf
    <2>3. Answer(r, "error") => pc'[r] = "error"
        BY Moved DEF Answer
    <2> QED
        BY <1>8, <1>10, <2>1, <2>2, <2>3
<1>12. CASE ReadTable(r)
    <2>1. f \in my[r].files \cup {my[r].file} \/ Shown(d, e)
        BY <1>12 DEF Stored, ReadTable, Writing
    <2> QED
        BY <1>7, <1>8, <1>9, <1>12, <2>1, ReadTableTurns DEF Writing
<1>13. CASE WriteBegin(r)
    <2>1. f \in my[r].files \cup {my[r].file} \/ Shown(d, e)
        BY <1>13 DEF Stored, WriteBegin, Writing
    <2>2. Carries(r) /\ pc'[r] = "write" /\ my'[r] = my[r]
        BY <1>13, WriteBeginTurns DEF Carries, Same
    <2> QED
        BY <1>7, <1>9, <2>1, <2>2 DEF Writing
<1>14. CASE WriteRaises(r)
    BY <1>8, <1>14, WriteRaisesTurns
<1>15. CASE WriteEnd(r)
    <2>1. pc[r] = "write" /\ NextTable(r, my[r].files)
        BY <1>15 DEF WriteEnd
    <2>2. f \in my[r].files \cup {my[r].file} \/ Shown(d, e)
        BY <2>1 DEF Stored, Writing
    <2>3. CASE f = my[r].file
        <3>1. f \in AllFiles /\ e \in RowsOf(f)
            BY <1>1 DEF TableOf, AllFiles, Files, RowsOf
        <3>2. file'[f][e] = [grade |-> Asked(r, e).grade, tags |-> Asked(r, e).tags]
            BY <1>1, <1>15, <2>3, <3>1, RowsWritten
        <3>3. pc'[r] \notin {"edit", "write"}
            BY <2>1, NextTableTurns
        <3>4. \A q \in Reqs : q # r => ~(pc'[q] \in {"edit", "write"} /\ my'[q].file = f)
            BY <2>1, <2>3, OthersWait DEF RouteInv, OneEach
        <3>5. file'[f][e].grade = db'.notes[d][e].grade /\ file'[f][e].tags = db'.notes[d][e].tags
            BY <1>4, <1>6, <3>2
        <3>6. Shown(d, e)'
            BY <1>1, <3>3, <3>4, <3>5 DEF Shown, Matches, TableOf
        <3> QED
            BY <1>10, <2>1, <3>6
    <2> QED
        BY <1>7, <1>10, <2>1, <2>2, <2>3
<1> QED
    BY <1>11, <1>12, <1>13, <1>14, <1>15

LEMMA StoredStep ==
    LocalInv /\ StoreInv /\ TablesInv /\ RouteInv /\ StoredInv /\ [Next]_vars => StoredInv'
<1> SUFFICES ASSUME LocalInv, StoreInv, TablesInv, RouteInv, StoredInv, [Next]_vars, calm',
                    NEW r \in Reqs, NEW e \in Episodes, Owner(r, e)'
             PROVE  Stored(r, e)'
    BY DEF StoredInv
<1>1. calm /\ UNCHANGED ask /\ (pc[r] # "new" => pc'[r] # "new" /\ aim'[r] = aim[r])
    BY AskersStay
<1>2. aim'[r] = aim[r] => Owner(r, e) /\ Stored(r, e)
    BY <1>1 DEF Owner, Sole, Annotates, StoredInv
<1>3. CASE pc'[r] = "new"
    BY <1>3 DEF Stored, Past, Over, Busy, Writing
<1>4. CASE Crash
    <2>1. UNCHANGED aim /\ pc'[r] \in Ended \cup {"new"} /\ (pc'[r] = "ok" => pc[r] = "ok")
        BY <1>4 DEF Crash, given, LocalInv, Shapes, Ended
    <2>2. ~Past(r, e)' /\ pc'[r] \notin Writing /\ (Over(r)' => Over(r))
        BY <2>1 DEF Past, Over, Busy, Ended, Writing
    <2>3. ASSUME Over(r), aim[r] = aim'[r], Saved(aim[r], e), Shown(aim[r], e)
          PROVE  /\ Saved(aim[r], e)' /\ Shown(aim[r], e)'
                 /\ db'.notes[aim[r]][e] = db.notes[aim[r]][e]
        <3>1. /\ db' = disk /\ disk' = disk /\ file' = file
              /\ \A q \in Reqs : pc'[q] \notin {"edit", "write"}
            BY <1>4 DEF Crash, LocalInv, Shapes, Ended
        <3> QED
            BY <2>3, <3>1 DEF Saved, Shown, Matches, TableOf
    <2> QED
        BY <1>1, <1>2, <2>1, <2>2, <2>3 DEF Stored
<1>5. CASE UNCHANGED vars
    <2>1. Owner(r, e) /\ Stored(r, e)
        BY <1>2, <1>5 DEF vars
    <2> QED
        BY <1>5, <2>1 DEF vars, Stored, Past, Over, Busy, Saved, Shown, Matches, TableOf, Asked
<1>6. ASSUME ~Crash, NEW q \in Reqs, Start(q) \/ Handler(q) PROVE Stored(r, e)'
    <2>1. CASE q # r /\ aim'[r] = aim[r]
        BY <1>1, <1>2, <1>6, <2>1, StoredWaits
    <2>2. CASE q # r /\ aim'[r] # aim[r]
        BY <1>1, <1>3, <1>6, <2>2, OthersWait
    <2>3. CASE q = r /\ Start(r)
        <3>1. Annotator(r)
            BY <1>1 DEF Owner, Sole, Annotates, Annotator
        <3> QED
            BY <2>3, <3>1, StartTurns DEF Stored, Past, Over, Busy, Ended, Writing
    <2>4. CASE q = r /\ Handler(r)
        <3>1. Owner(r, e) /\ Stored(r, e)
            BY <1>2, <2>4, HandlersLeave
        <3> QED
            BY <1>1, <1>6, <2>4, <3>1, HandlerKinds, StoredPlainly, StoredBySave, StoredByWrite
    <2> QED
        BY <1>6, <2>1, <2>2, <2>3, <2>4
<1> QED
    BY <1>4, <1>5, <1>6 DEF Next

LEMMA StoredInit == Init => StoredInv
BY DEF Init, StoredInv, Stored, Past, Over, Busy, Writing

(* Where the annotation of an episode's owner is at each of his awaits.     *)
THEOREM StoredInvariance == Spec => []StoredInv
<1>1. LocalInv /\ StoreInv /\ TablesInv /\ StampInv /\ RouteInv /\ StoredInv /\ [Next]_vars => StoredInv'
    BY StoredStep
<1> QED
    BY <1>1, StoredInit, LocalInvariance, StoreInvariance, StampInvariance, RouteInvariance, PTL DEF Spec

(* What was answered with success is in the database and in the table for   *)
(* good: as long as no dataset is loaded while a request waits.             *)
THEOREM OkStored == Spec => []CalmOkIsStored
<1>1. StoredInv => CalmOkIsStored
    <2> SUFFICES ASSUME StoredInv, calm, NEW d \in Datasets, NEW r \in Reqs, OkFor(r, d),
                        NEW e \in Indices(d), Sole(r, e), ask[r].grade # None \/ e \notin Severe[d]
                 PROVE  LET f == <<d, FileOf[d][e]>>  g == ask[r].grade IN
                        /\ e \in DOMAIN disk.notes[d] /\ disk.notes[d][e].grade = g
                        /\ file[f] # Torn => /\ file[f][e].grade = g
                                             /\ file[f][e].tags = disk.notes[d][e].tags
        BY DEF CalmOkIsStored, OkIsStored
    <2>1. Owner(r, e) /\ aim[r] = d /\ Over(r) /\ e \in Episodes
        BY DEF Owner, OkFor, Over, Episodes
    <2>2. Saved(d, e) /\ db.notes[d][e].grade = ask[r].grade /\ Shown(d, e)
        BY <2>1 DEF StoredInv, Stored
    <2> QED
        BY <2>2 DEF Saved, Shown, Matches, TableOf
<1> QED
    BY <1>1, StoredInvariance, PTL

----------------------------------------------------------------------------
(* The migration of legacy annotations: e is left to a handler that is at   *)
(* it.                                                                      *)
Share(q, d, e) == pc[q] = "sidecar" /\ my[q].ds = d /\ e \in my[q].todo

(* Once there are notes in the database, every legacy annotation is among   *)
(* them or left to somebody; what is committed may wait for his commit.     *)
SharedOut(d) ==
    \/ DOMAIN db.notes[d] = {}
    \/ \A e \in DOMAIN Sidecar[d] : e \in DOMAIN db.notes[d] \/ \E q \in Reqs : Share(q, d, e)

Committed(d) ==
    \/ DOMAIN disk.notes[d] = {}
    \/ \A e \in DOMAIN Sidecar[d] :
          e \in DOMAIN disk.notes[d] \/ \E q \in Reqs : pc[q] = "sidecar" /\ my[q].ds = d

(* Nobody leaves the migration, or passes it by, before there are notes.    *)
Before == {"register", "insert", "migrate", "sidecar"}

Migrates(r) ==
    /\ pc[r] = "sidecar" =>
          \A e \in DOMAIN Sidecar[loaded] : e \in DOMAIN db.notes[loaded] \cup my[r].todo
    /\ pc[r] \in Awaits \ (Before \cup {"new"}) =>
          DOMAIN db.notes[loaded] # {} \/ DOMAIN Sidecar[loaded] = {}

NoneLost == \A r \in Reqs : pc[r] # "lost"

LegacyInv ==
    calm /\ NoneLost =>
        /\ \A d \in Datasets : SharedOut(d) /\ Committed(d)
        /\ \A r \in Reqs : Migrates(r)

LEMMA EndedStays ==
    ASSUME LocalInv, [Next]_vars, NEW r \in Reqs, pc[r] \in Ended
    PROVE  pc'[r] = pc[r]
<1>1. CASE UNCHANGED vars
    BY <1>1 DEF vars
<1>2. CASE Crash
    BY <1>2 DEF Crash, LocalInv, Shapes
<1>3. ASSUME NEW q \in Reqs, Start(q) \/ Handler(q) PROVE pc'[r] = pc[r]
    <2>1. pc[q] \notin Ended
        BY <1>3, StartTurns
           DEF Ended, Handler, Register, Insert, Migrate, SidecarRow, Stamped, Graded, Sweep, Upsert, Stamp,
               ReadNotes, ReadFile, Save, Count, Stats, ReadTable, WriteBegin, WriteEnd, WriteRaises
    <2> QED
        BY <1>3, <2>1, OthersWait
<1> QED
    BY <1>1, <1>2, <1>3 DEF Next

(* Notes are written one at a time, by those that migrate, grade and save.  *)
LEMMA NotesWritten ==
    ASSUME StoreInv, NEW q, Start(q) \/ Handler(q)
    PROVE  \/ db'.notes = db.notes
           \/ \E i \in my[q].todo : \E note :
                 /\ db' = SetNote(my[q].ds, i, note)
                 /\ pc[q] \in {"sidecar", "upsert", "save"}
<1>1. CASE Start(q)
    BY <1>1, StartsLeave
<1>2. CASE Insert(q) \/ Stamp(q) \/ Stats(q)
    <2>1. PICK x, y : \/ db' = db \/ db' = [db EXCEPT !.reg = x] \/ db' = [db EXCEPT !.stamp = x]
                      \/ db' = [db EXCEPT !.stats[y] = x]
        BY <1>2 DEF Insert, Stamp, Stats, store
    <2>2. ASSUME NEW b, b = db' PROVE b.notes = db.notes
        BY <2>1, <2>2, OtherPartsStay DEF StoreInv
    <2> QED
        BY <2>2
<1>3. CASE SidecarRow(q) \/ Upsert(q) \/ Save(q)
    BY <1>3 DEF SidecarRow, Upsert, Save
<1>4. CASE Handler(q) /\ ~(Insert(q) \/ Stamp(q) \/ Stats(q) \/ SidecarRow(q) \/ Upsert(q) \/ Save(q))
    BY <1>4 DEF Handler, Register, Migrate, Stamped, Graded, Sweep, ReadNotes, ReadFile,
                Count, ReadTable, WriteBegin, WriteEnd, WriteRaises, store
<1> QED
    BY <1>1, <1>2, <1>3, <1>4

LEMMA NotesGrow ==
    ASSUME StoreInv, NEW q, Start(q) \/ Handler(q), NEW d \in Datasets
    PROVE  /\ DOMAIN db.notes[d] \subseteq DOMAIN db'.notes[d]
           /\ DOMAIN db'.notes[d] # DOMAIN db.notes[d] =>
                 my[q].ds = d /\ pc[q] \in {"sidecar", "upsert", "save"}
<1>1. CASE db'.notes = db.notes
    BY <1>1
<1>2. ASSUME NEW i, NEW note, db' = SetNote(my[q].ds, i, note), pc[q] \in {"sidecar", "upsert", "save"}
      PROVE  /\ DOMAIN db.notes[d] \subseteq DOMAIN db'.notes[d]
             /\ DOMAIN db'.notes[d] # DOMAIN db.notes[d] =>
                   my[q].ds = d /\ pc[q] \in {"sidecar", "upsert", "save"}
    <2>1. ASSUME NEW b, b = SetNote(my[q].ds, i, note)
          PROVE  IF d = my[q].ds THEN DOMAIN b.notes[d] = DOMAIN db.notes[d] \cup {i}
                 ELSE b.notes[d] = db.notes[d]
        BY <2>1, NoteIsSet, StoreIsShaped
    <2> QED
        BY <1>2, <2>1
<1> QED
    BY <1>1, <1>2, NotesWritten

(* One legacy row: it is there now, and the others are left.                *)
LEMMA SidecarTurns ==
    ASSUME LocalInv, StoreInv, NEW q \in Reqs, SidecarRow(q), my[q].ds \in Datasets
    PROVE  \E i \in my[q].todo :
              /\ i \in DOMAIN db'.notes[my[q].ds]
              /\ \/ pc'[q] = "sidecar" /\ my'[q].ds = my[q].ds /\ my'[q].todo = my[q].todo \ {i}
                 \/ pc'[q] = "count" /\ my[q].todo = {i} /\ disk' = db'
<1>1. DOMAIN my[q] = Fields
    BY DEF LocalInv, Shapes
<1>2. PICK i, note :
         /\ i \in my[q].todo
         /\ db' = IF i \in DOMAIN db.notes[my[q].ds] THEN db ELSE SetNote(my[q].ds, i, note)
         /\ LET rest == my[q].todo \ {i} IN
            IF rest # {} THEN Move(q, "sidecar", [my[q] EXCEPT !.todo = rest])
            ELSE Move(q, "count", [my[q] EXCEPT !.todo = {}, !.back = "migrated"]) /\ disk' = db'
    BY DEF SidecarRow
<1>3. i \in my[q].todo /\ i \in DOMAIN db'.notes[my[q].ds]
    <2>1. ASSUME NEW b, b = SetNote(my[q].ds, i, note) PROVE i \in DOMAIN b.notes[my[q].ds]
        BY <2>1, NoteIsSet, StoreIsShaped
    <2> QED
        BY <1>2, <2>1
<1>4. CASE Move(q, "sidecar", [my[q] EXCEPT !.todo = my[q].todo \ {i}])
    BY <1>1, <1>3, <1>4, Moved DEF Fields, Blank
<1>5. CASE /\ my[q].todo = {i} /\ disk' = db'
           /\ Move(q, "count", [my[q] EXCEPT !.todo = {}, !.back = "migrated"])
    BY <1>3, <1>5, Moved
<1> QED
    BY <1>2, <1>4, <1>5

LEMMA MigratedMigratesNoMore ==
    ASSUME LocalInv, NEW r \in Reqs, pc[r] \in Later, Migrated(r)
    PROVE  pc'[r] # "sidecar"
<1>1. ASSUME NEW step, NEW l, Move(r, step, l), step # "sidecar" PROVE pc'[r] # "sidecar"
    BY <1>1, Moved
<1>2. ASSUME NEW l, CallWithPath(r, "stamped", l) PROVE pc'[r] # "sidecar"
    BY <1>1, <1>2 DEF CallWithPath, Answer
<1>3. my[r].stage \in Stages
    BY Working DEF Purpose
<1> QED
    BY <1>1, <1>2, <1>3 DEF Migrated, Stages

(* Nobody comes to the legacy rows but from the question whether there are  *)
(* any to migrate.                                                          *)
LEMMA FewMigrate ==
    ASSUME LocalInv, NEW r \in Reqs, Plain(r), ~Migrate(r), ~SidecarRow(r)
    PROVE  pc'[r] # "sidecar"
<1>1. ASSUME NEW step, NEW l, Move(r, step, l), step # "sidecar" PROVE pc'[r] # "sidecar"
    BY <1>1, Moved
<1>2. ASSUME NEW step, NEW l, CallWithPath(r, step, l), step # "sidecar" PROVE pc'[r] # "sidecar"
    BY <1>1, <1>2 DEF CallWithPath, Answer
<1>3. ASSUME NEW outcome, Answer(r, outcome), outcome # "sidecar" PROVE pc'[r] # "sidecar"
    BY <1>1, <1>3 DEF Answer
<1>4. CASE Register(r) \/ Insert(r)
    BY <1>1, <1>2, <1>3, <1>4 DEF Register, Insert, Registered
<1>5. CASE Stamped(r)
    <2>1. PICK step \in {"annotations", "graded"} : Move(r, step, my[r])
        BY <1>5 DEF Stamped
    <2> QED
        BY <1>1, <2>1
<1>6. CASE Graded(r) \/ Sweep(r)
    BY <1>1, <1>3, <1>6 DEF Graded, Sweep
<1>7. CASE Upsert(r) \/ Stamp(r)
    BY <1>1, <1>7 DEF Upsert, Stamp
<1>8. CASE ReadNotes(r)
    <2>1. my[r].stage \in {"bulk", "get", "tags", "list"} /\ DOMAIN my[r] = Fields
        BY <1>8, Working DEF ReadNotes, Later, Awaits, Early, Purpose, Stages, Grading
    <2>2. [my[r] EXCEPT !.notes = db.notes[my[r].ds]].stage = my[r].stage
        BY <2>1 DEF Fields, Blank
    <2>3. (\E l : Move(r, "save", l) \/ Move(r, "read", l)) \/ Answer(r, "error")
        BY <1>8, <2>1, <2>2 DEF ReadNotes
    <2> QED
        BY <1>1, <1>3, <2>3
<1>9. CASE ReadFile(r)
    <2>1. \/ Answer(r, "error") \/ Answer(r, "ok")
          \/ \E l : Move(r, "read", l)
          \/ \E l : CallWithPath(r, "register", l)
        BY <1>9 DEF ReadFile, StartUpdate, CallRegister
    <2> QED
        BY <1>1, <1>2, <1>3, <2>1
<1>10. CASE Stats(r) /\ my[r].back # "saved"
    <2>1. pc[r] \in Later /\ my[r].back \in {"migrated", "graded"}
        BY <1>10, Working DEF Stats, Later, Awaits, Early, Purpose
    <2>2. Answer(r, "error") \/ Migrated(r) \/ Move(r, "annotations", my[r])
        BY <1>10, <2>1 DEF Stats, Refreshed
    <2> QED
        BY <1>1, <1>3, <2>1, <2>2, MigratedMigratesNoMore
<1> QED
    BY <1>4, <1>5, <1>6, <1>7, <1>8, <1>9, <1>10 DEF Plain

(* Where a handler is that has just moved.                                  *)
LEMMA MigrationGoesOn ==
    ASSUME LocalInv, StoreInv, calm, NEW q \in Reqs, Handler(q), Migrates(q)
    PROVE  Migrates(q)'
<1> DEFINE d == loaded
<1>1. UNCHANGED loaded
    BY HandlersLeave
<1>2. CASE pc[q] \in Early
    <2>1. Register(q) \/ Insert(q)
        BY <1>2 DEF Handler, Early, Register, Insert, Migrate, SidecarRow, Stamped, Graded, Sweep, Upsert,
                    Stamp, ReadNotes, ReadFile, Save, Count, Stats, ReadTable, WriteBegin, WriteEnd,
                    WriteRaises
    <2>2. ASSUME Registered(q, my[q].path) PROVE pc'[q] \in {"migrate", "error"}
        BY <2>2, Moved DEF Registered, CallWithPath, Answer
    <2>3. pc'[q] \in {"insert", "migrate", "error"}
        BY <2>1, <2>2, Moved DEF Register, Insert, Answer
    <2> QED
        BY <2>3 DEF Migrates, Before, Awaits
<1>3. CASE Migrate(q)
    <2>1. d \in Datasets /\ my[q].ds = d /\ my[q].path = d /\ db' = db /\ DOMAIN my[q] = Fields
        BY <1>3, Working DEF Migrate, Later, Awaits, Early, Place, store
    <2>2. CASE Move(q, "sidecar", [my[q] EXCEPT !.todo = DOMAIN Sidecar[my[q].path]])
        <3>1. pc'[q] = "sidecar" /\ my'[q].todo = DOMAIN Sidecar[d]
            BY <2>1, <2>2, Moved DEF Fields, Blank
        <3> QED
            BY <1>1, <2>1, <3>1 DEF Migrates, Before
    <2>3. CASE (DOMAIN db.notes[d] # {} \/ DOMAIN Sidecar[d] = {}) /\ Migrated(q)
        <3>1. pc'[q] # "sidecar"
            <4>1. pc[q] \in Later
                BY <1>3 DEF Migrate, Later, Awaits, Early
            <4> QED
                BY <2>3, <4>1, MigratedMigratesNoMore
        <3> QED
            BY <1>1, <2>1, <2>3, <3>1 DEF Migrates
    <2> QED
        BY <1>3, <2>1, <2>2, <2>3 DEF Migrate
<1>4. CASE SidecarRow(q)
    <2>1. d \in Datasets /\ my[q].ds = d /\ pc[q] = "sidecar"
        BY <1>4, Working DEF SidecarRow, Later, Awaits, Early, Place
    <2>2. PICK i \in my[q].todo :
             /\ i \in DOMAIN db'.notes[d]
             /\ \/ pc'[q] = "sidecar" /\ my'[q].ds = d /\ my'[q].todo = my[q].todo \ {i}
                \/ pc'[q] = "count" /\ my[q].todo = {i} /\ disk' = db'
        BY <1>4, <2>1, SidecarTurns
    <2>3. DOMAIN db.notes[d] \subseteq DOMAIN db'.notes[d]
        BY <2>1, NotesGrow
    <2> QED
        BY <1>1, <2>1, <2>2, <2>3 DEF Migrates, Before
<1>5. CASE pc[q] \notin Before
    <2>1. pc[q] \in Later /\ pc[q] \in Awaits \ (Before \cup {"new"})
        BY <1>5
           DEF Later, Awaits, Early, Before, Handler, Register, Insert, Migrate, SidecarRow, Stamped, Graded,
               Sweep, Upsert, Stamp, ReadNotes, ReadFile, Save, Count, Stats, ReadTable, WriteBegin,
               WriteEnd, WriteRaises
    <2>2. d \in Datasets /\ DOMAIN db.notes[d] \subseteq DOMAIN db'.notes[d]
        BY <2>1, Working, NotesGrow DEF Place
    <2>3. pc'[q] # "sidecar"
        <3>1. CASE Plain(q)
            <4>1. ~Migrate(q) /\ ~SidecarRow(q)
                BY <1>5 DEF Migrate, SidecarRow, Before
            <4> QED
                BY <3>1, <4>1, FewMigrate
        <3>2. ASSUME NEW files, NextTable(q, files) PROVE pc'[q] # "sidecar"
            BY <3>2, NextTableTurns
        <3>3. CASE Stats(q) /\ my[q].back = "saved"
            <4>1. Answer(q, "error") \/ \E files : NextTable(q, files)
                BY <3>3 DEF Stats, Refreshed, WriteBack
            <4> QED
                BY <3>2, <4>1, Moved DEF Answer
        <3>4. CASE WriteEnd(q)
            BY <3>2, <3>4 DEF WriteEnd
        <3>5. CASE Save(q) \/ Count(q) \/ ReadTable(q) \/ WriteBegin(q) \/ WriteRaises(q)
            BY <3>5, SaveTurns, CountTurns, ReadTableTurns, WriteBeginTurns, WriteRaisesTurns
        <3> QED
            BY <3>1, <3>3, <3>4, <3>5, HandlerKinds
    <2> QED
        BY <1>1, <2>1, <2>2, <2>3 DEF Migrates
<1>6. CASE pc[q] \in {"migrate", "sidecar"} /\ ~Migrate(q) /\ ~SidecarRow(q)
    BY <1>6 DEF Handler, Register, Insert, Stamped, Graded, Sweep, Upsert, Stamp, ReadNotes, ReadFile, Save,
                Count, Stats, ReadTable, WriteBegin, WriteEnd, WriteRaises
<1> QED
    BY <1>2, <1>3, <1>4, <1>5, <1>6 DEF Before, Early

LEMMA SharesGoOn ==
    ASSUME LocalInv, StoreInv, calm, NEW q \in Reqs, Handler(q), \A r \in Reqs : Migrates(r),
           NEW d \in Datasets, SharedOut(d)
    PROVE  SharedOut(d)'
<1>1. DOMAIN db.notes[d] \subseteq DOMAIN db'.notes[d]
    BY NotesGrow
<1>2. ASSUME NEW e, Share(q, d, e) PROVE e \in DOMAIN db'.notes[d] \/ Share(q, d, e)'
    <2>1. SidecarRow(q) /\ my[q].ds = d
        BY <1>2 DEF Share, Handler, Register, Insert, Migrate, SidecarRow, Stamped, Graded, Sweep, Upsert,
                    Stamp, ReadNotes, ReadFile, Save, Count, Stats, ReadTable, WriteBegin, WriteEnd,
                    WriteRaises
    <2>2. PICK i \in my[q].todo :
             /\ i \in DOMAIN db'.notes[d]
             /\ \/ pc'[q] = "sidecar" /\ my'[q].ds = d /\ my'[q].todo = my[q].todo \ {i}
                \/ pc'[q] = "count" /\ my[q].todo = {i} /\ disk' = db'
        BY <2>1, SidecarTurns
    <2> QED
        BY <1>2, <2>2 DEF Share
<1>3. ASSUME NEW e, NEW p \in Reqs, Share(p, d, e)
      PROVE  e \in DOMAIN db'.notes[d] \/ \E r \in Reqs : Share(r, d, e)'
    <2>1. CASE p = q
        BY <1>2, <1>3, <2>1
    <2>2. CASE p # q
        BY <1>3, <2>2, OthersWait DEF Share
    <2> QED
        BY <2>1, <2>2
<1>4. CASE DOMAIN db'.notes[d] = {}
    BY <1>4 DEF SharedOut
<1>5. CASE \A e \in DOMAIN Sidecar[d] : e \in DOMAIN db.notes[d] \/ \E p \in Reqs : Share(p, d, e)
    BY <1>1, <1>3, <1>5 DEF SharedOut
<1>6. CASE DOMAIN db.notes[d] = {} /\ DOMAIN db'.notes[d] # {}
    <2>1. my[q].ds = d /\ pc[q] \in {"sidecar", "upsert", "save"}
        BY <1>6, NotesGrow
    <2>2. loaded = d
        BY <2>1, Working DEF Later, Awaits, Early, Place
    <2>3. CASE pc[q] = "sidecar"
        <3>1. \A e \in DOMAIN Sidecar[d] : Share(q, d, e)
            BY <1>6, <2>1, <2>2, <2>3 DEF Migrates, Share
        <3> QED
            BY <1>3, <3>1 DEF SharedOut
    <2>4. CASE pc[q] # "sidecar"
        <3>1. DOMAIN Sidecar[d] = {}
            BY <1>6, <2>1, <2>2, <2>4 DEF Migrates, Awaits, Before
        <3> QED
            BY <3>1 DEF SharedOut
    <2> QED
        BY <2>3, <2>4
<1> QED
    BY <1>4, <1>5, <1>6 DEF SharedOut

LEMMA CommitsGoOn ==
    ASSUME LocalInv, StoreInv, calm, NEW q \in Reqs, Handler(q), \A r \in Reqs : Migrates(r),
           NEW d \in Datasets, SharedOut(d), Committed(d)
    PROVE  Committed(d)'
<1>1. CASE disk' = db'
    <2>1. SharedOut(d)'
        BY SharesGoOn
    <2> QED
        BY <1>1, <2>1 DEF SharedOut, Committed, Share
<1>2. CASE disk' = disk /\ disk' # db'
    <2>1. ASSUME NEW p \in Reqs, pc[p] = "sidecar", my[p].ds = d
          PROVE  pc'[p] = "sidecar" /\ my'[p].ds = d
        <3>1. CASE p # q
            BY <2>1, <3>1, OthersWait
        <3>2. CASE p = q
            <4>1. SidecarRow(q)
                BY <2>1, <3>2
                   DEF Handler, Register, Insert, Migrate, SidecarRow, Stamped, Graded, Sweep, Upsert, Stamp,
                       ReadNotes, ReadFile, Save, Count, Stats, ReadTable, WriteBegin, WriteEnd, WriteRaises
            <4> QED
                BY <1>2, <2>1, <3>2, <4>1, SidecarTurns
        <3> QED
            BY <3>1, <3>2
    <2> QED
        BY <1>2, <2>1 DEF Committed
<1> QED
    BY <1>1, <1>2, DiskFollows

LEMMA LegacyStep == LocalInv /\ StoreInv /\ LegacyInv /\ [Next]_vars => LegacyInv'
<1> SUFFICES ASSUME LocalInv, StoreInv, LegacyInv, [Next]_vars, calm', NoneLost' PROVE LegacyInv'
    BY DEF LegacyInv
<1>1. calm /\ NoneLost
    BY AskersStay, EndedStays DEF NoneLost, Ended
<1>2. /\ \A d \in Datasets : SharedOut(d) /\ Committed(d)
      /\ \A r \in Reqs : Migrates(r)
    BY <1>1 DEF LegacyInv
<1>3. CASE UNCHANGED vars
    <2>1. \A d \in Datasets : SharedOut(d)' /\ Committed(d)'
        BY <1>2, <1>3 DEF vars, SharedOut, Committed, Share
    <2>2. \A r \in Reqs : Migrates(r)'
        BY <1>2, <1>3 DEF vars, Migrates
    <2> QED
        BY <2>1, <2>2 DEF LegacyInv
<1>4. CASE Crash
    <2>1. \A r \in Reqs : pc[r] # "sidecar" /\ pc'[r] \in Ended \cup {"new"}
        BY <1>4 DEF Crash, NoneLost, LocalInv, Shapes, Ended
    <2>2. \A d \in Datasets : SharedOut(d)' /\ Committed(d)'
        BY <1>2, <1>4, <2>1 DEF Crash, SharedOut, Committed
    <2>3. \A r \in Reqs : Migrates(r)'
        BY <2>1 DEF Migrates, Ended, Awaits
    <2> QED
        BY <2>2, <2>3 DEF LegacyInv
<1>5. ASSUME NEW q \in Reqs, Start(q) PROVE LegacyInv'
    <2>1. UNCHANGED <<db, disk>> /\ pc[q] = "new" /\ pc'[q] \in {"ok", "error", "register"}
        BY <1>5, StartsLeave, StartTurns
    <2>2. \A p \in Reqs : p # q => pc'[p] = pc[p] /\ my'[p] = my[p]
        BY <1>5, OthersWait
    <2>3. ASSUME NEW d \in Datasets, SharedOut(d), Committed(d) PROVE SharedOut(d)' /\ Committed(d)'
        <3>1. \A e : \A p \in Reqs : Share(p, d, e) => Share(p, d, e)'
            BY <2>1, <2>2 DEF Share
        <3>2. \A p \in Reqs : pc[p] = "sidecar" => pc'[p] = "sidecar" /\ my'[p].ds = my[p].ds
            BY <2>1, <2>2
        <3> QED
            BY <2>1, <2>3, <3>1, <3>2 DEF SharedOut, Committed
    <2>4. ASSUME NEW r \in Reqs PROVE Migrates(r)'
        <3>1. CASE r = q
            BY <2>1, <3>1 DEF Migrates, Before, Awaits
        <3>2. CASE r # q /\ UNCHANGED loaded
            BY <1>2, <2>1, <2>2, <3>2 DEF Migrates
        <3>3. CASE r # q /\ Load(q)
            <4>1. ~Busy(r)
                BY <3>3, BusyKeepsCalm
            <4> QED
                BY <2>2, <3>3, <4>1 DEF Busy, Migrates, Ended, Awaits
        <3> QED
            BY <1>5, <3>1, <3>2, <3>3, StartsLeave
    <2> QED
        BY <1>2, <2>3, <2>4 DEF LegacyInv
<1>6. ASSUME NEW q \in Reqs, Handler(q) PROVE LegacyInv'
    <2>1. ASSUME NEW r \in Reqs PROVE Migrates(r)'
        <3>1. CASE r = q
            BY <1>1, <1>2, <1>6, <3>1, MigrationGoesOn
        <3>2. CASE r # q
            <4>1. pc'[r] = pc[r] /\ my'[r] = my[r] /\ UNCHANGED loaded
                BY <1>6, <3>2, OthersWait, HandlersLeave
            <4>2. pc[r] \in Later => DOMAIN db.notes[loaded] \subseteq DOMAIN db'.notes[loaded]
                BY <1>1, <1>6, Working, NotesGrow DEF Place
            <4> QED
                BY <1>2, <4>1, <4>2 DEF Migrates, Later, Awaits, Early, Before
        <3> QED
            BY <3>1, <3>2
    <2> QED
        BY <1>1, <1>2, <1>6, <2>1, SharesGoOn, CommitsGoOn DEF LegacyInv
<1> QED
    BY <1>3, <1>4, <1>5, <1>6 DEF Next

LEMMA LegacyInit == Init => LegacyInv
BY DEF Init, LegacyInv, SharedOut, Committed, Migrates, EmptyNotes, Awaits

(* How several requests share the legacy annotations of a dataset.          *)
THEOREM LegacyInvariance == Spec => []LegacyInv
<1>1. LocalInv /\ StoreInv /\ LegacyInv /\ [Next]_vars => LegacyInv'
    BY LegacyStep
<1> QED
    BY <1>1, LegacyInit, LocalInvariance, StoreInvariance, PTL DEF Spec

(* No legacy annotation is left behind when the requests that migrate it    *)
(* have ended: nobody looks at the legacy file again.                       *)
THEOREM LegacyMigrated == Spec => []LegacyIsMigrated
<1>1. LegacyInv => LegacyIsMigrated
    BY DEF LegacyInv, NoneLost, SharedOut, Share, Quiet, Ended, LegacyIsMigrated
<1> QED
    BY <1>1, LegacyInvariance, PTL

----------------------------------------------------------------------------
(* Types.  What a database holds, and what a handler has read.              *)
Notes(h) == IsFiniteSet(DOMAIN h) /\ \A e \in DOMAIN h : h[e] \in Note
TableTyped(t) == \A e \in DOMAIN t : t[e] \in Row
Shows(h) == DOMAIN h \subseteq Episodes /\ \A e \in DOMAIN h : h[e] \in Note

DataTyped(b) ==
    /\ Shaped(b) /\ b.reg \subseteq Datasets /\ b.stamp \subseteq b.reg
    /\ \A d \in Datasets : Notes(b.notes[d])
    /\ b.stats \in [Datasets -> [Grades -> Nat]]

(* What a handler l is about: an update has the tags to save, whoever asks  *)
(* for one episode has chosen its table, and got are episodes.              *)
StageFit(r, l) ==
    /\ l.stage = "bulk" <=> ask[r].op = "bulk"
    /\ l.stage = "update" => l.tags \subseteq Tags
    /\ l.stage \in {"get", "tags"} => l.file \in AllFiles /\ Target(r) \in RowsOf(l.file)
    /\ Shows(l.got)

(* What it has in hand: a bulk grade that has begun to save has read the    *)
(* annotations.                                                             *)
Saving(step, l) == step \in Writing \cup {"save"} \/ (step \in {"count", "stats"} /\ l.back = "saved")

StepFit(step, l) ==
    /\ l.stage = "bulk" /\ Saving(step, l) => Notes(l.notes)
    /\ step = "sidecar" => l.todo \subseteq DOMAIN Sidecar[l.path]
    /\ step = "stats" => l.counts \in [Grades -> Nat]
    /\ step = "sweep" => l.files \subseteq AllFiles
    /\ step = "read" =>
          /\ l.files \subseteq AllFiles
          /\ l.stage \in {"get", "tags"} => l.files = {l.file}
          /\ Notes(l.notes)
    /\ step \in Writing => l.file \in AllFiles /\ l.files \subseteq AllFiles
    /\ step \in {"edit", "write"} => TableTyped(l.table)

(* It works on a dataset that is registered, and waits for a lock of this   *)
(* or an earlier generation.                                                *)
Standing(step, l) ==
    /\ step \notin Early => l.ds \in db.reg
    /\ step \in Writing => l.lockGen \in 0 .. gen

HandTyped(r) ==
    Busy(r) => /\ my[r].path \in Datasets /\ StageFit(r, my[r])
               /\ StepFit(pc[r], my[r]) /\ Standing(pc[r], my[r])

Begun == {r \in Reqs : pc[r] # "new"}

GenTyped == gen \in Nat /\ gen <= Cardinality(Begun) /\ locks \subseteq AllFiles \X (0 .. gen)
ShownTyped == cache # None => Shows(cache)
ChartTyped == chart # None => chart \in [Grades \cup {None} -> Nat]
UnreadTyped == unread \subseteq Datasets \X Episodes
FilesTyped == \A f \in AllFiles : file[f] = Torn \/ TableTyped(file[f])

TypedInv ==
    /\ map \in Datasets \cup {None} /\ ChartTyped
    /\ aim \in [Reqs -> Datasets \cup {None}] /\ calm \in BOOLEAN
    /\ UnreadTyped /\ GenTyped /\ ShownTyped /\ FilesTyped
    /\ DataTyped(db) /\ DataTyped(disk)
    /\ \A r \in Reqs : HandTyped(r)

(* Notes and rows of a handler's making.                                    *)
LEMMA NoteIsTyped ==
    ASSUME DataTyped(db), NEW d \in Datasets, NEW e, NEW note \in Note,
           NEW b, b = SetNote(d, e, note)
    PROVE  DataTyped(b) /\ b.reg = db.reg
<1>1. b.reg = db.reg /\ b.stamp = db.stamp /\ b.stats = db.stats
    BY DEF DataTyped, Shaped, SetNote
<1>2. /\ Shaped(b) /\ \A x \in Datasets : x # d => b.notes[x] = db.notes[x]
      /\ DOMAIN b.notes[d] = DOMAIN db.notes[d] \cup {e}
      /\ \A i \in DOMAIN b.notes[d] : b.notes[d][i] = IF i = e THEN note ELSE db.notes[d][i]
    BY DEF DataTyped, Shaped, SetNote
<1>3. Notes(db.notes[d])
    BY DEF DataTyped
<1>4. IsFiniteSet(DOMAIN b.notes[d])
    BY <1>2, <1>3, FS_AddElement DEF Notes
<1>5. Notes(b.notes[d])
    BY <1>2, <1>3, <1>4 DEF Notes
<1> QED
    BY <1>1, <1>2, <1>5 DEF DataTyped

LEMMA NothingShows == Shows(EmptyNotes)
BY DEF Shows, EmptyNotes

LEMMA WhatIsAsked ==
    ASSUME LocalInv, NEW r \in Reqs, Annotator(r)
    PROVE  /\ ask[r].grade \in Grades \cup {None}
           /\ ask[r].op = "patch" => ask[r].tags \in {None} \cup SUBSET Tags
BY DEF LocalInv, Requests, Annotator

LEMMA AskedIsTyped ==
    ASSUME LocalInv, NEW r \in Reqs, Busy(r), HandTyped(r), my[r].stage \in {"update", "bulk"},
           Saving(pc[r], my[r]), NEW e
    PROVE  Asked(r, e) \in Note
<1>1. Annotator(r) /\ (my[r].stage = "bulk" <=> ask[r].op = "bulk")
    BY DEF LocalInv, Local, Purpose, Annotator, HandTyped, StageFit
<1>2. ask[r].grade \in Grades \cup {None}
    BY <1>1, WhatIsAsked
<1>3. Asked(r, e).tags \subseteq Tags
    BY <1>1 DEF Annotator, HandTyped, StageFit, StepFit, Notes, Note, Asked
<1> QED
    BY <1>2, <1>3 DEF Asked, Note, Grades

(* A handler that moves to where it fits.                                   *)
LEMMA Fits ==
    ASSUME LocalInv, NEW r \in Reqs, NEW step, NEW l, Move(r, step, l), UNCHANGED ask,
           l.path \in Datasets, StageFit(r, l), StepFit(step, l), Standing(step, l)'
    PROVE  HandTyped(r)'
<1>1. pc'[r] = step /\ my'[r] = l
    BY Moved
<1>2. StageFit(r, l)'
    BY DEF StageFit, Target
<1> QED
    BY <1>1, <1>2 DEF HandTyped, StepFit

LEMMA AnswerFits ==
    ASSUME LocalInv, NEW r \in Reqs, NEW outcome \in Ended, Answer(r, outcome)
    PROVE  HandTyped(r)'
BY Moved DEF Answer, HandTyped, Busy

LEMMA CallFits ==
    ASSUME LocalInv, NEW r \in Reqs, NEW step \in {"register", "migrate", "stamped"},
           NEW l, DOMAIN l = Fields, CallWithPath(r, step, l), UNCHANGED ask,
           StageFit(r, l), step # "register" => l.ds \in db'.reg
    PROVE  HandTyped(r)'
<1>1. CASE loaded = None
    BY <1>1, AnswerFits DEF CallWithPath, Ended
<1>2. CASE loaded # None
    <2> PICK m : m = [l EXCEPT !.path = loaded]
        OBVIOUS
    <2>1. /\ m.path = loaded /\ m.stage = l.stage /\ m.tags = l.tags /\ m.file = l.file
          /\ m.ds = l.ds /\ m.got = l.got /\ Move(r, step, m)
        BY <1>2 DEF CallWithPath, Fields, Blank
    <2>2. m.path \in Datasets
        BY <1>2, <2>1 DEF LocalInv
    <2>3. StageFit(r, m)
        BY <2>1 DEF StageFit
    <2>4. StepFit(step, m)
        BY DEF StepFit, Saving, Writing
    <2>5. Standing(step, m)'
        BY <2>1 DEF Standing, Writing, Early
    <2> QED
        BY <2>1, <2>2, <2>3, <2>4, <2>5, Fits
<1> QED
    BY <1>1, <1>2

LEMMA UpdateFits ==
    ASSUME LocalInv, NEW r \in Reqs, NEW tags, StartUpdate(r, tags), UNCHANGED ask,
           ask[r].op = "patch", Found(Target(r)) => tags \subseteq Tags
    PROVE  HandTyped(r)'
<1>1. CASE Answer(r, "error")
    BY <1>1, AnswerFits DEF Ended
<1>2. CASE Found(Target(r)) /\ CallRegister(r, [Blank EXCEPT !.stage = "update", !.tags = tags])
    <2> DEFINE l == [Blank EXCEPT !.stage = "update", !.tags = tags]
    <2>1. DOMAIN l = Fields /\ l.stage = "update" /\ l.tags = tags /\ l.got = EmptyNotes
        BY DEF Fields, Blank
    <2>2. CallWithPath(r, "register", l)
        BY <1>2 DEF CallRegister
    <2> HIDE DEF l
    <2>3. StageFit(r, l)
        BY <1>2, <2>1, NothingShows DEF StageFit
    <2> QED
        BY <2>1, <2>2, <2>3, CallFits
<1> QED
    BY <1>1, <1>2 DEF StartUpdate

LEMMA GetFits ==
    ASSUME LocalInv, map \in Datasets \cup {None}, cache = None,
           NEW r \in Reqs, NEW stage \in {"get", "tags"}, StartGet(r, stage), UNCHANGED ask,
           ask[r].op # "bulk"
    PROVE  HandTyped(r)'
<1>1. CASE Answer(r, "error")
    BY <1>1, AnswerFits DEF Ended
<1>2. CASE /\ Found(Target(r))
           /\ CallRegister(r, [Blank EXCEPT !.stage = stage, !.file = <<map, FileOf[map][Target(r)]>>])
    <2> DEFINE f == <<map, FileOf[map][Target(r)]>>
               l == [Blank EXCEPT !.stage = stage, !.file = f]
    <2>1. DOMAIN l = Fields /\ l.stage = stage /\ l.file = f /\ l.got = EmptyNotes
        BY DEF Fields, Blank
    <2>2. CallWithPath(r, "register", l)
        BY <1>2 DEF CallRegister
    <2>3. map \in Datasets /\ Target(r) \in Indices(map)
        BY <1>2 DEF Found
    <2>4. f \in AllFiles /\ Target(r) \in RowsOf(f)
        BY <2>3 DEF AllFiles, Files, RowsOf
    <2> HIDE DEF l
    <2>5. StageFit(r, l)
        BY <2>1, <2>4, NothingShows DEF StageFit
    <2> QED
        BY <2>1, <2>2, <2>5, CallFits
<1> QED
    BY <1>1, <1>2 DEF StartGet

LEMMA StartFits ==
    ASSUME LocalInv, TypedInv, NEW r \in Reqs, Start(r)
    PROVE  HandTyped(r)'
<1>1. UNCHANGED ask /\ map \in Datasets \cup {None} /\ ShownTyped
    BY StartsLeave DEF TypedInv
<1>2. ASSUME NEW stage \in {"list", "bulk"}, CallRegister(r, [Blank EXCEPT !.stage = stage]),
             stage = "bulk" <=> ask[r].op = "bulk"
      PROVE  HandTyped(r)'
    <2> DEFINE l == [Blank EXCEPT !.stage = stage]
    <2>1. DOMAIN l = Fields /\ l.stage = stage /\ l.got = EmptyNotes /\ CallWithPath(r, "register", l)
        BY <1>2 DEF Fields, Blank, CallRegister
    <2> HIDE DEF l
    <2>2. StageFit(r, l)
        BY <1>2, <2>1, NothingShows DEF StageFit
    <2> QED
        BY <1>1, <2>1, <2>2, CallFits
<1>3. CASE Load(r)
    BY <1>3, AnswerFits DEF Load, Ended
<1>4. CASE List(r)
    BY <1>2, <1>4, AnswerFits DEF List, Ended
<1>5. CASE Get(r)
    BY <1>1, <1>5, AnswerFits, GetFits DEF Get, Ended
<1>6. CASE Patch(r)
    <2>1. CASE ask[r].tags # None /\ StartUpdate(r, ask[r].tags)
        <3>1. ask[r].tags \subseteq Tags
            BY <1>6, <2>1, WhatIsAsked DEF Patch, Annotator
        <3> QED
            BY <1>1, <1>6, <2>1, <3>1, UpdateFits DEF Patch
    <2>2. CASE Target(r) \in DOMAIN cache /\ cache # None /\ StartUpdate(r, cache[Target(r)].tags)
        <3>1. cache[Target(r)].tags \subseteq Tags
            BY <1>1, <2>2 DEF ShownTyped, Shows, Note
        <3> QED
            BY <1>1, <1>6, <2>2, <3>1, UpdateFits DEF Patch
    <2>3. CASE cache = None /\ StartGet(r, "tags")
        BY <1>1, <1>6, <2>3, GetFits DEF Patch
    <2>4. CASE Answer(r, "error")
        BY <2>4, AnswerFits DEF Ended
    <2> QED
        BY <1>6, <2>1, <2>2, <2>3, <2>4 DEF Patch
<1>7. CASE Bulk(r)
    BY <1>2, <1>7 DEF Bulk
<1> QED
    BY <1>3, <1>4, <1>5, <1>6, <1>7 DEF Start

(* A handler that stays about what it is about.                             *)
LEMMA KeepFits ==
    ASSUME LocalInv, TypedInv, NEW r \in Reqs, pc[r] \in Later, NEW step, NEW l, Move(r, step, l),
           UNCHANGED <<ask, gen>>, db.reg \subseteq db'.reg,
           l.stage = my[r].stage, l.tags = my[r].tags, l.path = my[r].path, l.ds = my[r].ds,
           l.file = my[r].file \/ my[r].stage \in {"update", "bulk"},
           l.got = my[r].got \/ Shows(l.got),
           StepFit(step, l), step \in Writing => l.lockGen \in 0 .. gen
    PROVE  HandTyped(r)'
<1>1. /\ my[r].path \in Datasets /\ StageFit(r, my[r]) /\ my[r].ds \in db.reg
    BY Working DEF TypedInv, HandTyped, Standing
<1>2. StageFit(r, l)
    BY <1>1 DEF StageFit
<1>3. Standing(step, l)'
    BY <1>1 DEF Standing
<1> QED
    BY <1>1, <1>2, <1>3, Fits

LEMMA InHand ==
    ASSUME LocalInv, TypedInv, NEW r \in Reqs, pc[r] \in Later
    PROVE  /\ Busy(r) /\ DOMAIN my[r] = Fields /\ my[r].stage \in Stages
           /\ my[r].path \in Datasets /\ my[r].ds \in db.reg /\ my[r].ds \in Datasets
           /\ StageFit(r, my[r]) /\ StepFit(pc[r], my[r]) /\ HandTyped(r)
<1>1. Busy(r) /\ DOMAIN my[r] = Fields /\ my[r].stage \in Stages /\ pc[r] \notin Early
    BY Working DEF Purpose
<1> QED
    BY <1>1 DEF TypedInv, HandTyped, Standing, DataTyped

LEMMA RegisterFits ==
    ASSUME LocalInv, TypedInv, NEW r \in Reqs, Register(r) \/ Insert(r), UNCHANGED ask
    PROVE  HandTyped(r)'
<1>1. /\ DOMAIN my[r] = Fields /\ my[r].path \in Datasets /\ StageFit(r, my[r])
    BY DEF LocalInv, Shapes, TypedInv, HandTyped, Register, Insert, Busy, Ended
<1>2. CASE Registered(r, my[r].path) /\ my[r].path \in db'.reg
    <2> PICK l : l = [my[r] EXCEPT !.ds = my[r].path]
        OBVIOUS
    <2>1. /\ DOMAIN l = Fields /\ l.stage = my[r].stage /\ l.tags = my[r].tags
          /\ l.file = my[r].file /\ l.got = my[r].got /\ l.ds = my[r].path /\ CallWithPath(r, "migrate", l)
        BY <1>1, <1>2 DEF Registered, Fields, Blank
    <2>2. StageFit(r, l)
        BY <1>1, <2>1 DEF StageFit
    <2> QED
        BY <1>2, <2>1, <2>2, CallFits
<1>3. CASE Move(r, "insert", my[r])
    <2> PICK l : l = my[r]
        OBVIOUS
    <2>1. StepFit("insert", l) /\ Standing("insert", l)'
        BY DEF StepFit, Saving, Standing, Writing, Early
    <2> QED
        BY <1>1, <1>3, <2>1, Fits
<1>4. CASE Answer(r, "error")
    BY <1>4, AnswerFits DEF Ended
<1>5. \/ Registered(r, my[r].path) /\ my[r].path \in db'.reg
      \/ Move(r, "insert", my[r]) \/ Answer(r, "error")
    <2>1. CASE Register(r)
        BY <2>1 DEF Register, store
    <2>2. CASE Insert(r) /\ ~Answer(r, "error")
        <3>1. db' = [db EXCEPT !.reg = @ \cup {my[r].path}] /\ Registered(r, my[r].path)
            BY <2>2 DEF Insert
        <3>2. my[r].path \in db'.reg
            BY <3>1 DEF TypedInv, DataTyped, Shaped
        <3> QED
            BY <3>1, <3>2
    <2> QED
        BY <2>1, <2>2
<1> QED
    BY <1>2, <1>3, <1>4, <1>5

LEMMA MigratedFits ==
    ASSUME LocalInv, TypedInv, NEW r \in Reqs, pc[r] \in Later, Migrated(r),
           UNCHANGED <<ask, gen>>, db.reg \subseteq db'.reg
    PROVE  HandTyped(r)'
<1>1. /\ DOMAIN my[r] = Fields /\ my[r].stage \in Stages /\ my[r].ds \in db'.reg /\ StageFit(r, my[r])
    BY InHand
<1>2. CASE my[r].stage \in {"list", "get", "tags"}
    BY <1>1, <1>2, CallFits DEF Migrated
<1>3. CASE my[r].stage = "update"
    <2> PICK l : l = [my[r] EXCEPT !.todo = ask[r].eps]
        OBVIOUS
    <2>1. /\ l.stage = my[r].stage /\ l.tags = my[r].tags /\ l.path = my[r].path
          /\ l.ds = my[r].ds /\ l.file = my[r].file /\ l.got = my[r].got /\ Move(r, "save", l)
        BY <1>1, <1>3 DEF Migrated, Fields, Blank
    <2>2. StepFit("save", l)
        BY <1>3, <2>1 DEF StepFit, Writing
    <2> QED
        BY <2>1, <2>2, KeepFits DEF Writing
<1>4. CASE my[r].stage = "bulk"
    <2>1. Move(r, "annotations", my[r]) /\ StepFit("annotations", my[r])
        BY <1>4 DEF Migrated, StepFit, Saving, Writing
    <2> QED
        BY <2>1, KeepFits DEF Writing
<1> QED
    BY <1>1, <1>2, <1>3, <1>4 DEF Stages

(* What a handler writes to the database.                                   *)
LEMMA DataGoesOn ==
    ASSUME LocalInv, TypedInv, NEW r \in Reqs, Handler(r)
    PROVE  DataTyped(db)' /\ DataTyped(disk)' /\ db.reg \subseteq db'.reg
<1>1. DataTyped(db) /\ DataTyped(disk)
    BY DEF TypedInv
<1>2. CASE UNCHANGED store
    BY <1>1, <1>2 DEF store
<1>3. ASSUME NEW b, DataTyped(b), db.reg \subseteq b.reg, db' = b, disk' = b \/ disk' = disk
      PROVE  DataTyped(db)' /\ DataTyped(disk)' /\ db.reg \subseteq db'.reg
    BY <1>1, <1>3
<1>4. CASE Insert(r) /\ ~UNCHANGED store
    <2>1. PICK b : b = [db EXCEPT !.reg = db.reg \cup {my[r].path}] /\ db' = b /\ disk' = b
        BY <1>4 DEF Insert
    <2>2. my[r].path \in Datasets
        BY <1>4 DEF Insert, TypedInv, HandTyped, Busy, Ended
    <2>3. DataTyped(b) /\ db.reg \subseteq b.reg
        BY <1>1, <2>1, <2>2 DEF DataTyped, Shaped
    <2> QED
        BY <1>3, <2>1, <2>3
<1>5. CASE SidecarRow(r)
    <2>1. /\ pc[r] = "sidecar" /\ my[r].ds \in Datasets /\ my[r].path \in Datasets
          /\ my[r].todo \subseteq DOMAIN Sidecar[my[r].path]
        BY <1>5, InHand DEF SidecarRow, Later, Awaits, Early, StepFit
    <2>2. PICK e \in my[r].todo :
             LET row == Sidecar[my[r].path][e] IN
             /\ \/ db' = db
                \/ db' = SetNote(my[r].ds, e, [grade |-> row.grade, tags |-> row.tags, reason |-> None])
             /\ disk' = disk \/ disk' = db'
        BY <1>5 DEF SidecarRow
    <2> DEFINE row == Sidecar[my[r].path][e]
               note == [grade |-> row.grade, tags |-> row.tags, reason |-> None]
    <2>3. note \in Note
        BY <2>1, AnnotationsAssumption DEF Row, Note
    <2>4. CASE db' = db
        BY <1>1, <1>3, <2>2, <2>4
    <2>5. CASE db' = SetNote(my[r].ds, e, note)
        <3> HIDE DEF note
        <3> QED
            BY <1>1, <1>3, <2>1, <2>2, <2>3, <2>5, NoteIsTyped
    <2> QED
        BY <2>2, <2>4, <2>5
<1>6. CASE Upsert(r)
    <2>1. pc[r] = "upsert" /\ my[r].ds \in Datasets
        BY <1>6, InHand DEF Upsert, Later, Awaits, Early
    <2>2. PICK e : db' = SetNote(my[r].ds, e, AutoNote(my[r].ds, e)) /\ disk' = disk
        BY <1>6 DEF Upsert
    <2>3. AutoNote(my[r].ds, e) \in Note
        <3>1. ASSUME NEW n \in Note PROVE [n EXCEPT !.grade = "normal", !.reason = "auto"] \in Note
            BY DEF Note, Grades
        <3>2. [grade |-> "normal", tags |-> {}, reason |-> "auto"] \in Note
            BY DEF Note, Grades
        <3>3. \A i \in DOMAIN db.notes[my[r].ds] : db.notes[my[r].ds][i] \in Note
            BY <1>1, <2>1 DEF DataTyped, Notes
        <3> QED
            BY <3>1, <3>2, <3>3 DEF AutoNote
    <2> QED
        BY <1>1, <1>3, <2>1, <2>2, <2>3, NoteIsTyped
<1>7. CASE Stamp(r)
    <2>1. pc[r] = "upsert" /\ my[r].ds \in db.reg
        BY <1>7, InHand DEF Stamp, Later, Awaits, Early
    <2>2. PICK b : b = [db EXCEPT !.stamp = db.stamp \cup {my[r].ds}] /\ db' = b /\ disk' = b
        BY <1>7 DEF Stamp
    <2>3. DataTyped(b) /\ db.reg \subseteq b.reg
        BY <1>1, <2>1, <2>2 DEF DataTyped, Shaped
    <2> QED
        BY <1>3, <2>2, <2>3
<1>8. CASE Save(r)
    <2>1. /\ my[r].ds \in Datasets /\ Busy(r) /\ HandTyped(r)
          /\ my[r].stage \in {"update", "bulk"} /\ Saving(pc[r], my[r])
        BY <1>8, InHand, Working DEF Save, Later, Awaits, Early, Purpose, Saving
    <2>2. PICK e : db' = SetNote(my[r].ds, e, Asked(r, e)) /\ disk' = db'
        BY <1>8 DEF Save
    <2>3. Asked(r, e) \in Note
        BY <2>1, AskedIsTyped
    <2> QED
        BY <1>1, <1>3, <2>1, <2>2, <2>3, NoteIsTyped
<1>9. CASE Stats(r) /\ ~UNCHANGED store
    <2>1. pc[r] = "stats" /\ my[r].ds \in Datasets /\ my[r].counts \in [Grades -> Nat]
        BY <1>9, InHand DEF Stats, Later, Awaits, Early, StepFit
    <2>2. PICK b : b = [db EXCEPT !.stats[my[r].ds] = my[r].counts] /\ db' = b /\ disk' = b
        BY <1>9 DEF Stats
    <2>3. DataTyped(b) /\ db.reg \subseteq b.reg
        BY <1>1, <2>1, <2>2 DEF DataTyped, Shaped
    <2> QED
        BY <1>3, <2>2, <2>3
<1>10. CASE ~(Insert(r) \/ SidecarRow(r) \/ Upsert(r) \/ Stamp(r) \/ Save(r) \/ Stats(r))
    <2>1. UNCHANGED store
        BY <1>10 DEF Handler, Register, Migrate, Stamped, Graded, Sweep, ReadNotes, ReadFile, Count,
                     ReadTable, WriteBegin, WriteEnd, WriteRaises
    <2> QED
        BY <1>2, <2>1
<1> QED
    BY <1>2, <1>4, <1>5, <1>6, <1>7, <1>8, <1>9, <1>10

LEMMA PassFits ==
    ASSUME LocalInv, TypedInv, NEW r \in Reqs,
           Migrate(r) \/ SidecarRow(r) \/ Stamped(r) \/ Graded(r) \/ Sweep(r) \/ Upsert(r) \/ Stamp(r),
           UNCHANGED <<ask, gen>>, db.reg \subseteq db'.reg
    PROVE  HandTyped(r)'
<1>1. pc[r] \in Later
    BY DEF Migrate, SidecarRow, Stamped, Graded, Sweep, Upsert, Stamp, Later, Awaits, Early
<1>2. DOMAIN my[r] = Fields /\ StepFit(pc[r], my[r]) /\ my[r].path \in Datasets
    BY <1>1, InHand
<1> DEFINE Stays(l) == /\ l.stage = my[r].stage /\ l.tags = my[r].tags /\ l.path = my[r].path
                       /\ l.ds = my[r].ds /\ l.file = my[r].file /\ l.got = my[r].got
<1>3. ASSUME NEW step \in {"stamped", "annotations", "graded", "sweep", "upsert", "count"}, NEW l,
             Move(r, step, l), Stays(l), step = "count" => l.back # "saved",
             step = "sweep" => l.files \subseteq AllFiles
      PROVE  HandTyped(r)'
    <2>1. StepFit(step, l) /\ step \notin Writing
        BY <1>3 DEF StepFit, Saving, Writing
    <2> QED
        BY <1>1, <1>3, <2>1, KeepFits
<1>4. CASE Migrate(r)
    <2>1. CASE Migrated(r)
        BY <1>1, <2>1, MigratedFits
    <2>2. CASE Move(r, "sidecar", [my[r] EXCEPT !.todo = DOMAIN Sidecar[my[r].path]])
        <3> PICK l : l = [my[r] EXCEPT !.todo = DOMAIN Sidecar[my[r].path]]
            OBVIOUS
        <3>1. Move(r, "sidecar", l) /\ Stays(l) /\ l.todo = DOMAIN Sidecar[l.path]
            BY <1>2, <2>2 DEF Fields, Blank
        <3>2. StepFit("sidecar", l)
            BY <3>1 DEF StepFit, Saving, Writing
        <3> QED
            BY <1>1, <3>1, <3>2, KeepFits DEF Writing
    <2> QED
        BY <1>4, <2>1, <2>2 DEF Migrate
<1>5. CASE SidecarRow(r)
    <2>1. pc[r] = "sidecar" /\ my[r].todo \subseteq DOMAIN Sidecar[my[r].path]
        BY <1>2, <1>5 DEF SidecarRow, StepFit
    <2>2. PICK todo : /\ todo \subseteq my[r].todo
                      /\ \/ Move(r, "sidecar", [my[r] EXCEPT !.todo = todo])
                         \/ Move(r, "count", [my[r] EXCEPT !.todo = {}, !.back = "migrated"])
        BY <1>5 DEF SidecarRow
    <2>3. CASE Move(r, "sidecar", [my[r] EXCEPT !.todo = todo])
        <3> PICK l : l = [my[r] EXCEPT !.todo = todo]
            OBVIOUS
        <3>1. Move(r, "sidecar", l) /\ Stays(l) /\ l.todo = todo
            BY <1>2, <2>3 DEF Fields, Blank
        <3>2. StepFit("sidecar", l)
            BY <2>1, <2>2, <3>1 DEF StepFit, Saving, Writing
        <3> QED
            BY <1>1, <3>1, <3>2, KeepFits DEF Writing
    <2>4. CASE Move(r, "count", [my[r] EXCEPT !.todo = {}, !.back = "migrated"])
        <3> PICK l : l = [my[r] EXCEPT !.todo = {}, !.back = "migrated"]
            OBVIOUS
        <3>1. Move(r, "count", l) /\ Stays(l) /\ l.back = "migrated"
            BY <1>2, <2>4 DEF Fields, Blank
        <3> QED
            BY <1>3, <3>1
    <2> QED
        BY <2>2, <2>3, <2>4
<1>6. CASE Stamped(r)
    <2>1. PICK step \in {"annotations", "graded"} : Move(r, step, my[r])
        BY <1>6 DEF Stamped
    <2> QED
        BY <1>3, <2>1
<1>7. CASE Graded(r)
    <2>1. PICK graded : \/ Answer(r, "error")
                        \/ /\ loaded # None
                           /\ Move(r, "sweep", [my[r] EXCEPT !.files = Files(loaded), !.graded = graded])
        BY <1>7 DEF Graded
    <2> PICK l : l = [my[r] EXCEPT !.files = Files(loaded), !.graded = graded]
        OBVIOUS
    <2>2. Stays(l) /\ l.files = Files(loaded)
        BY <1>2 DEF Fields, Blank
    <2>3. loaded # None => Files(loaded) \subseteq AllFiles
        BY DEF LocalInv, AllFiles
    <2> HIDE DEF Stays
    <2> QED
        BY <1>3, <2>1, <2>2, <2>3, AnswerFits DEF Ended
<1>8. CASE Sweep(r)
    <2>1. PICK files, severe :
             \/ Move(r, "annotations", [my[r] EXCEPT !.files = {}])
             \/ /\ files \subseteq my[r].files
                /\ Move(r, "sweep", [my[r] EXCEPT !.files = files, !.severe = severe])
             \/ Move(r, "upsert", [my[r] EXCEPT !.files = {}, !.todo = severe])
        BY <1>8 DEF Sweep
    <2>2. /\ Stays([my[r] EXCEPT !.files = {}])
          /\ Stays([my[r] EXCEPT !.files = files, !.severe = severe])
          /\ [my[r] EXCEPT !.files = files, !.severe = severe].files = files
          /\ Stays([my[r] EXCEPT !.files = {}, !.todo = severe])
        BY <1>2 DEF Fields, Blank
    <2>3. my[r].files \subseteq AllFiles
        BY <1>2, <1>8 DEF Sweep, StepFit
    <2> HIDE DEF Stays
    <2> QED
        BY <1>3, <2>1, <2>2, <2>3
<1>9. CASE Upsert(r)
    <2>1. PICK todo : Move(r, "upsert", [my[r] EXCEPT !.todo = todo])
        BY <1>2, <1>9 DEF Upsert, Fields, Blank
    <2>2. Stays([my[r] EXCEPT !.todo = todo])
        BY <1>2 DEF Fields, Blank
    <2> QED
        BY <1>3, <2>1, <2>2
<1>10. CASE Stamp(r)
    <2> PICK l : l = [my[r] EXCEPT !.back = "graded", !.graded = {}, !.severe = {}]
        OBVIOUS
    <2>1. Move(r, "count", l) /\ Stays(l) /\ l.back = "graded"
        BY <1>2, <1>10 DEF Stamp, Fields, Blank
    <2> QED
        BY <1>3, <2>1
<1> QED
    BY <1>4, <1>5, <1>6, <1>7, <1>8, <1>9, <1>10

(* What is read from a table, and merged with the notes, can be shown.      *)
Got(f, notes, old) ==
    [e \in DOMAIN old \cup DOMAIN file[f] |->
        IF e \in DOMAIN file[f] THEN Merge(file[f], notes, e) ELSE old[e]]

LEMMA GotShows ==
    ASSUME TablesInv, TypedInv, NEW f \in AllFiles, file[f] # Torn, NEW notes, Notes(notes),
           NEW old, Shows(old)
    PROVE  Shows(Got(f, notes, old)) /\ RowsOf(f) \subseteq DOMAIN Got(f, notes, old)
<1>1. DOMAIN file[f] = RowsOf(f) /\ TableTyped(file[f])
    BY DEF TablesInv, TypedInv, FilesTyped
<1>2. RowsOf(f) \subseteq Episodes
    BY DEF RowsOf, AllFiles, Files, Episodes
<1>3. \A e \in DOMAIN file[f] : Merge(file[f], notes, e) \in Note
    BY <1>1 DEF Merge, Notes, TableTyped, Row, Note
<1> QED
    BY <1>1, <1>2, <1>3 DEF Got, Shows

LEMMA ReadFits ==
    ASSUME LocalInv, TablesInv, TypedInv, NEW r \in Reqs, ReadNotes(r) \/ ReadFile(r),
           UNCHANGED <<ask, gen>>, db.reg \subseteq db'.reg
    PROVE  HandTyped(r)'
<1>1. pc[r] \in Later /\ pc[r] \in {"annotations", "read"}
    BY DEF ReadNotes, ReadFile, Later, Awaits, Early
<1>2. /\ DOMAIN my[r] = Fields /\ my[r].ds \in Datasets /\ StageFit(r, my[r]) /\ StepFit(pc[r], my[r])
    BY <1>1, InHand
<1> DEFINE Stays(l) == /\ l.stage = my[r].stage /\ l.tags = my[r].tags /\ l.path = my[r].path
                       /\ l.ds = my[r].ds /\ l.file = my[r].file /\ l.got = my[r].got
<1>3. CASE ReadNotes(r)
    <2>1. my[r].stage \in {"bulk", "get", "tags", "list"}
        BY <1>1, <1>3, Working DEF ReadNotes, Purpose, Stages, Grading
    <2>2. Notes(db.notes[my[r].ds])
        BY <1>2 DEF TypedInv, DataTyped
    <2> PICK l : l = [my[r] EXCEPT !.notes = db.notes[my[r].ds]]
        OBVIOUS
    <2>3. Stays(l) /\ Notes(l.notes) /\ DOMAIN l = Fields
        BY <1>2, <2>2 DEF Fields, Blank
    <2>4. PICK files : 
             \/ Move(r, "save", [l EXCEPT !.todo = ask[r].eps])
             \/ /\ Move(r, "read", [l EXCEPT !.files = files]) /\ files \subseteq AllFiles
                /\ l.stage \in {"get", "tags"} => files = {l.file}
             \/ Answer(r, "error")
        <3>1. CASE my[r].stage = "bulk"
            BY <1>3, <2>3, <3>1 DEF ReadNotes
        <3>2. CASE my[r].stage \in {"get", "tags"}
            <4>1. Move(r, "read", [l EXCEPT !.files = {l.file}])
                BY <1>3, <2>3, <3>2 DEF ReadNotes
            <4>2. {l.file} \subseteq AllFiles
                BY <1>2, <2>3, <3>2 DEF StageFit
            <4> QED
                BY <4>1, <4>2
        <3>3. CASE my[r].stage = "list"
            <4>1. Answer(r, "error") \/ (loaded # None /\ Move(r, "read", [l EXCEPT !.files = Files(loaded)]))
                BY <1>3, <2>3, <3>3 DEF ReadNotes
            <4>2. loaded # None => Files(loaded) \subseteq AllFiles
                BY DEF LocalInv, AllFiles
            <4> QED
                BY <2>3, <3>3, <4>1, <4>2
        <3> QED
            BY <2>1, <3>1, <3>2, <3>3
    <2>5. CASE Move(r, "save", [l EXCEPT !.todo = ask[r].eps])
        <3> PICK m : m = [l EXCEPT !.todo = ask[r].eps]
            OBVIOUS
        <3>1. Move(r, "save", m) /\ Stays(m) /\ Notes(m.notes)
            BY <2>3, <2>5 DEF Fields, Blank
        <3>2. StepFit("save", m)
            BY <3>1 DEF StepFit, Writing
        <3> QED
            BY <1>1, <3>1, <3>2, KeepFits DEF Writing
    <2>6. CASE /\ Move(r, "read", [l EXCEPT !.files = files]) /\ files \subseteq AllFiles
               /\ l.stage \in {"get", "tags"} => files = {l.file}
        <3> PICK m : m = [l EXCEPT !.files = files]
            OBVIOUS
        <3>1. Move(r, "read", m) /\ Stays(m) /\ Notes(m.notes) /\ m.files = files
            BY <2>3, <2>6 DEF Fields, Blank
        <3>2. StepFit("read", m)
            BY <2>3, <2>6, <3>1 DEF StepFit, Saving, Writing
        <3> QED
            BY <1>1, <3>1, <3>2, KeepFits DEF Writing
    <2> QED
        BY <2>4, <2>5, <2>6, AnswerFits DEF Ended
<1>4. CASE ReadFile(r)
    <2>1. /\ my[r].files \subseteq AllFiles /\ Notes(my[r].notes) /\ Shows(my[r].got)
          /\ my[r].stage \in {"get", "tags"} =>
                my[r].files = {my[r].file} /\ Target(r) \in RowsOf(my[r].file)
        BY <1>2, <1>4 DEF ReadFile, StepFit, StageFit
    <2>2. PICK f, got :
             \/ Answer(r, "error")
             \/ /\ f \in my[r].files /\ file[f] # Torn /\ got = Got(f, my[r].notes, my[r].got)
                /\ \/ Move(r, "read", [my[r] EXCEPT !.files = my[r].files \ {f}, !.got = got])
                      /\ my[r].files \ {f} # {}
                   \/ Answer(r, "ok")
                   \/ my[r].stage = "tags" /\ StartUpdate(r, got[Target(r)].tags)
        BY <1>4 DEF ReadFile, Got
    <2>3. CASE Answer(r, "error") \/ Answer(r, "ok")
        BY <2>3, AnswerFits DEF Ended
    <2>4. CASE /\ f \in my[r].files /\ file[f] # Torn /\ got = Got(f, my[r].notes, my[r].got)
               /\ \/ Move(r, "read", [my[r] EXCEPT !.files = my[r].files \ {f}, !.got = got])
                     /\ my[r].files \ {f} # {}
                  \/ my[r].stage = "tags" /\ StartUpdate(r, got[Target(r)].tags)
        <3>1. Shows(got) /\ RowsOf(f) \subseteq DOMAIN got
            BY <2>1, <2>4, GotShows
        <3>2. CASE /\ Move(r, "read", [my[r] EXCEPT !.files = my[r].files \ {f}, !.got = got])
                   /\ my[r].files \ {f} # {}
            <4> PICK m : m = [my[r] EXCEPT !.files = my[r].files \ {f}, !.got = got]
                OBVIOUS
            <4>1. /\ Move(r, "read", m) /\ m.stage = my[r].stage /\ m.tags = my[r].tags
                  /\ m.path = my[r].path /\ m.ds = my[r].ds /\ m.file = my[r].file
                  /\ m.notes = my[r].notes /\ m.files = my[r].files \ {f} /\ m.got = got
                BY <1>2, <3>2 DEF Fields, Blank
            <4>2. m.stage \notin {"get", "tags"}
                BY <2>1, <3>2, <4>1
            <4>3. StepFit("read", m)
                BY <2>1, <4>1, <4>2 DEF StepFit, Saving, Writing
            <4> QED
                BY <1>1, <3>1, <4>1, <4>3, KeepFits DEF Writing
        <3>3. CASE my[r].stage = "tags" /\ StartUpdate(r, got[Target(r)].tags)
            <4>1. Target(r) \in DOMAIN got
                BY <2>1, <2>4, <3>1, <3>3
            <4>2. got[Target(r)].tags \subseteq Tags
                BY <3>1, <4>1 DEF Shows, Note
            <4>3. ask[r].op = "patch"
                BY <1>1, <3>3, Working DEF Purpose, Twofold
            <4> QED
                BY <3>3, <4>2, <4>3, UpdateFits
        <3> QED
            BY <2>4, <3>2, <3>3
    <2> QED
        BY <2>2, <2>3, <2>4
<1> QED
    BY <1>3, <1>4

LEMMA NextTableFits ==
    ASSUME LocalInv, TypedInv, NEW r \in Reqs, NEW files, NextTable(r, files), files \subseteq AllFiles,
           pc[r] \in Later, Saving(pc[r], my[r]), my[r].stage \in {"update", "bulk"},
           UNCHANGED <<ask, gen>>, db.reg \subseteq db'.reg
    PROVE  HandTyped(r)'
<1>1. /\ DOMAIN my[r] = Fields /\ StepFit(pc[r], my[r]) /\ StageFit(r, my[r])
    BY InHand
<1>2. CASE Finish(r)
    <2>1. Answer(r, "ok") \/ Answer(r, "error")
          \/ (cache = None /\ ask[r].op # "bulk" /\ StartGet(r, "get"))
        BY <1>2 DEF Finish
    <2>2. map \in Datasets \cup {None}
        BY DEF TypedInv
    <2> QED
        BY <2>1, <2>2, GetFits, AnswerFits DEF Ended
<1>3. ASSUME NEW f \in files,
             Move(r, "lock", [my[r] EXCEPT !.files = files \ {f}, !.file = f, !.lockGen = gen,
                                           !.table = None])
      PROVE  HandTyped(r)'
    <2> PICK l : l = [my[r] EXCEPT !.files = files \ {f}, !.file = f, !.lockGen = gen, !.table = None]
        OBVIOUS
    <2>1. /\ l.file = f /\ l.files = files \ {f} /\ l.lockGen = gen
          /\ l.stage = my[r].stage /\ l.tags = my[r].tags /\ l.notes = my[r].notes
        BY <1>1 DEF Fields, Blank
    <2>2. l.path = my[r].path /\ l.ds = my[r].ds /\ l.got = my[r].got /\ Move(r, "lock", l)
        BY <1>1, <1>3 DEF Fields, Blank
    <2>3. my[r].stage = "bulk" => Notes(l.notes)
        BY <1>1, <2>1 DEF StepFit
    <2>4. StepFit("lock", l)
        BY <2>1, <2>3 DEF StepFit
    <2>5. l.lockGen \in 0 .. gen
        BY <2>1 DEF TypedInv, GenTyped
    <2> QED
        BY <2>1, <2>2, <2>4, <2>5, KeepFits
<1> QED
    BY <1>2, <1>3 DEF NextTable

LEMMA SaveFits ==
    ASSUME LocalInv, RouteInv, TypedInv, NEW r \in Reqs, Save(r) \/ Count(r) \/ Stats(r),
           UNCHANGED <<ask, gen>>, db.reg \subseteq db'.reg
    PROVE  HandTyped(r)'
<1>1. pc[r] \in Later /\ pc[r] \in {"save", "count", "stats"}
    BY DEF Save, Count, Stats, Later, Awaits, Early
<1>2. /\ DOMAIN my[r] = Fields /\ my[r].ds \in Datasets /\ StepFit(pc[r], my[r])
      /\ Purpose(r) /\ Busy(r)
    BY <1>1, InHand, Working
<1>3. CASE Save(r)
    <2>1. my[r].stage = "bulk" => Notes(my[r].notes)
        BY <1>2, <1>3 DEF Save, StepFit, Saving
    <2>2. PICK todo : \/ Move(r, "save", [my[r] EXCEPT !.todo = todo])
                      \/ Move(r, "count", [my[r] EXCEPT !.todo = {}, !.back = "saved"])
        BY <1>3 DEF Save
    <2>3. CASE Move(r, "save", [my[r] EXCEPT !.todo = todo])
        <3> PICK l : l = [my[r] EXCEPT !.todo = todo]
            OBVIOUS
        <3>1. /\ Move(r, "save", l) /\ l.stage = my[r].stage /\ l.tags = my[r].tags
              /\ l.path = my[r].path /\ l.ds = my[r].ds /\ l.file = my[r].file
              /\ l.notes = my[r].notes /\ l.got = my[r].got
            BY <1>2, <2>3 DEF Fields, Blank
        <3>2. StepFit("save", l)
            BY <2>1, <3>1 DEF StepFit, Writing
        <3> QED
            BY <1>1, <3>1, <3>2, KeepFits DEF Writing
    <2>4. CASE Move(r, "count", [my[r] EXCEPT !.todo = {}, !.back = "saved"])
        <3> PICK l : l = [my[r] EXCEPT !.todo = {}, !.back = "saved"]
            OBVIOUS
        <3>1. /\ Move(r, "count", l) /\ l.stage = my[r].stage /\ l.tags = my[r].tags
              /\ l.path = my[r].path /\ l.ds = my[r].ds /\ l.file = my[r].file
              /\ l.notes = my[r].notes /\ l.got = my[r].got
            BY <1>2, <2>4 DEF Fields, Blank
        <3>2. StepFit("count", l)
            BY <2>1, <3>1 DEF StepFit, Writing
        <3> QED
            BY <1>1, <3>1, <3>2, KeepFits DEF Writing
    <2> QED
        BY <2>2, <2>3, <2>4
<1>4. CASE Count(r)
    <2> DEFINE tally == [g \in Grades |->
                           Cardinality({e \in DOMAIN db.notes[my[r].ds] : db.notes[my[r].ds][e].grade = g})]
    <2>1. tally \in [Grades -> Nat]
        <3>1. IsFiniteSet(DOMAIN db.notes[my[r].ds])
            BY <1>2 DEF TypedInv, DataTyped, Notes
        <3>2. \A S \in SUBSET DOMAIN db.notes[my[r].ds] : Cardinality(S) \in Nat
            BY <3>1, FS_Subset, FS_CardinalityType
        <3> QED
            BY <3>2
    <2>2. pc[r] = "count" /\ Move(r, "stats", [my[r] EXCEPT !.counts = tally])
        BY <1>4 DEF Count
    <2> PICK l : l = [my[r] EXCEPT !.counts = tally]
        OBVIOUS
    <2> HIDE DEF tally
    <2>3. /\ Move(r, "stats", l) /\ l.stage = my[r].stage /\ l.tags = my[r].tags
          /\ l.path = my[r].path /\ l.ds = my[r].ds /\ l.file = my[r].file
        BY <1>2, <2>2 DEF Fields, Blank
    <2>4. l.notes = my[r].notes /\ l.got = my[r].got /\ l.back = my[r].back /\ l.counts = tally
        BY <1>2 DEF Fields, Blank
    <2>5. StepFit("stats", l)
        BY <1>2, <2>1, <2>2, <2>3, <2>4 DEF StepFit, Saving, Writing
    <2> QED
        BY <1>1, <2>3, <2>4, <2>5, KeepFits DEF Writing
<1>5. CASE Stats(r)
    <2>1. pc[r] = "stats" /\ my[r].back \in {"migrated", "graded", "saved"}
        BY <1>2, <1>5 DEF Stats, Purpose
    <2>2. CASE Answer(r, "error")
        BY <2>2, AnswerFits DEF Ended
    <2>3. CASE Migrated(r)
        BY <1>1, <2>3, MigratedFits
    <2>4. CASE Move(r, "annotations", my[r])
        <3>1. StepFit("annotations", my[r])
            BY DEF StepFit, Saving, Writing
        <3> QED
            BY <1>1, <2>4, <3>1, KeepFits DEF Writing
    <2>5. CASE my[r].back = "saved" /\ WriteBack(r)
        <3>1. my[r].stage \in {"update", "bulk"} /\ Saving(pc[r], my[r])
            BY <1>2, <2>1, <2>5 DEF RouteInv, Route, Saving
        <3> DEFINE files == IF map = None THEN {}
                            ELSE {<<map, FileOf[map][e]>> : e \in ask[r].eps \cap Indices(map)}
        <3>2. NextTable(r, files)
            BY <2>5 DEF WriteBack
        <3>3. files \subseteq AllFiles
            BY DEF TypedInv, AllFiles, Files
        <3> HIDE DEF files
        <3> QED
            BY <1>1, <3>1, <3>2, <3>3, NextTableFits
    <2> QED
        BY <1>5, <2>1, <2>2, <2>3, <2>4, <2>5 DEF Stats, Refreshed
<1> QED
    BY <1>3, <1>4, <1>5

LEMMA WriteFits ==
    ASSUME LocalInv, RouteInv, TypedInv, NEW r \in Reqs,
           ReadTable(r) \/ WriteBegin(r) \/ WriteEnd(r) \/ WriteRaises(r),
           UNCHANGED <<ask, gen>>, db.reg \subseteq db'.reg
    PROVE  HandTyped(r)'
<1>1. pc[r] \in Later /\ pc[r] \in Writing
    BY DEF ReadTable, WriteBegin, WriteEnd, WriteRaises, Later, Awaits, Early, Writing
<1>2. /\ DOMAIN my[r] = Fields /\ StepFit(pc[r], my[r]) /\ Standing(pc[r], my[r])
      /\ my[r].stage \in {"update", "bulk"} /\ Saving(pc[r], my[r])
    BY <1>1, InHand DEF RouteInv, Route, Saving, HandTyped
<1>3. CASE ReadTable(r)
    <2>1. CASE Answer(r, "error")
        BY <2>1, AnswerFits DEF Ended
    <2>2. CASE file[my[r].file] # Torn /\ Move(r, "edit", [my[r] EXCEPT !.table = file[my[r].file]])
        <3> PICK l : l = [my[r] EXCEPT !.table = file[my[r].file]]
            OBVIOUS
        <3>1. /\ Move(r, "edit", l) /\ l.stage = my[r].stage /\ l.tags = my[r].tags
              /\ l.path = my[r].path /\ l.ds = my[r].ds /\ l.file = my[r].file
            BY <1>2, <2>2 DEF Fields, Blank
        <3>2. /\ l.notes = my[r].notes /\ l.got = my[r].got /\ l.table = file[my[r].file]
              /\ l.files = my[r].files /\ l.lockGen = my[r].lockGen
            BY <1>2 DEF Fields, Blank
        <3>3. TableTyped(l.table)
            BY <1>1, <1>2, <2>2, <3>2 DEF StepFit, TypedInv, FilesTyped
        <3>4. StepFit("edit", l)
            BY <1>1, <1>2, <3>1, <3>2, <3>3 DEF StepFit
        <3> QED
            BY <1>1, <1>2, <3>1, <3>2, <3>4, KeepFits DEF Standing
    <2> QED
        BY <1>3, <2>1, <2>2 DEF ReadTable
<1>4. CASE WriteBegin(r)
    <2>1. Move(r, "write", my[r]) /\ StepFit("write", my[r])
        BY <1>2, <1>4 DEF WriteBegin, StepFit, Saving, Writing
    <2> QED
        BY <1>1, <1>2, <2>1, KeepFits DEF Standing
<1>5. CASE WriteEnd(r)
    <2>1. NextTable(r, my[r].files) /\ my[r].files \subseteq AllFiles
        BY <1>1, <1>2, <1>5 DEF WriteEnd, StepFit
    <2> QED
        BY <1>1, <1>2, <2>1, NextTableFits
<1>6. CASE WriteRaises(r)
    BY <1>6, AnswerFits DEF WriteRaises, Ended
<1> QED
    BY <1>3, <1>4, <1>5, <1>6

(* What the service shows to everybody, and what is in the tables.          *)
LEMMA ShownGoesOn ==
    ASSUME LocalInv, RouteInv, TablesInv, TypedInv, NEW r \in Reqs, Handler(r)
    PROVE  ShownTyped' /\ ChartTyped'
<1>1. ShownTyped /\ ChartTyped
    BY DEF TypedInv
<1>2. CASE UNCHANGED caches
    BY <1>1, <1>2 DEF caches, ShownTyped, ChartTyped
<1>3. ASSUME Finish(r), pc[r] \in Later, Saving(pc[r], my[r]), my[r].stage \in {"update", "bulk"}
      PROVE  ShownTyped' /\ ChartTyped'
    <2>1. \A e : Asked(r, e) \in Note
        BY <1>3, InHand, AskedIsTyped
    <2>2. CASE UNCHANGED cache
        BY <1>1, <1>3, <2>2 DEF Finish, ShownTyped, ChartTyped
    <2>3. CASE ~UNCHANGED cache
        <3>1. PICK hit, patched :
                 /\ cache' = [e \in DOMAIN cache |-> IF e \in hit THEN patched[e] ELSE cache[e]]
                 /\ \A e \in DOMAIN cache : e \in hit => patched[e] \in Note
                 /\ cache # None /\ chart' = None
            <4> DEFINE hit == IF cache = None THEN {} ELSE ask[r].eps \cap DOMAIN cache
                       patched == [e \in DOMAIN cache |->
                                     IF ask[r].op = "patch" THEN Asked(r, e)
                                     ELSE [Asked(r, e) EXCEPT !.tags = cache[e].tags]]
            <4>1. cache' = [e \in DOMAIN cache |-> IF e \in hit THEN patched[e] ELSE cache[e]]
                  /\ hit # {} /\ chart' = None
                BY <1>3, <2>3 DEF Finish
            <4>2. ASSUME NEW n \in Note, NEW e \in DOMAIN cache, cache # None
                  PROVE  [n EXCEPT !.tags = cache[e].tags] \in Note
                <5>1. cache[e] \in Note
                    BY <1>1, <4>2 DEF ShownTyped, ChartTyped, Shows
                <5>2. cache[e].tags \in SUBSET Tags
                    BY <5>1 DEF Note
                <5> QED
                    BY <5>2 DEF Note
            <4>3. cache # None
                BY <4>1
            <4>4. \A e \in DOMAIN cache : patched[e] \in Note
                BY <2>1, <4>2, <4>3
            <4> QED
                BY <4>1, <4>3, <4>4
        <3> QED
            BY <1>1, <3>1 DEF ShownTyped, ChartTyped, Shows
    <2> QED
        BY <2>2, <2>3
<1>4. CASE ReadFile(r)
    <2>1. pc[r] \in Later /\ pc[r] = "read"
        BY <1>4 DEF ReadFile, Later, Awaits, Early
    <2>2. my[r].files \subseteq AllFiles /\ Notes(my[r].notes) /\ Shows(my[r].got)
        BY <2>1, InHand DEF StepFit, StageFit
    <2>3. PICK f : /\ f \in my[r].files
                   /\ \/ UNCHANGED caches
                      \/ file[f] # Torn /\ cache' = Got(f, my[r].notes, my[r].got) /\ UNCHANGED chart
        BY <1>4 DEF ReadFile, Got
    <2> QED
        BY <1>1, <1>2, <2>2, <2>3, GotShows DEF ShownTyped, ChartTyped
<1>5. CASE Stats(r)
    <2>1. pc[r] \in Later /\ pc[r] = "stats"
        BY <1>5 DEF Stats, Later, Awaits, Early
    <2>2. my[r].back \in {"migrated", "graded", "saved"}
        BY <2>1, Working DEF Purpose
    <2>3. \/ UNCHANGED caches \/ (chart' = None /\ UNCHANGED cache)
          \/ my[r].back = "saved" /\ Finish(r)
        BY <1>5, <2>2 DEF Stats, Refreshed, WriteBack, NextTable
    <2>4. my[r].back = "saved" => my[r].stage \in {"update", "bulk"} /\ Saving(pc[r], my[r])
        BY <2>1, Working DEF RouteInv, Route, Saving
    <2> QED
        BY <1>1, <1>2, <1>3, <2>1, <2>3, <2>4 DEF ShownTyped, ChartTyped
<1>6. CASE WriteEnd(r)
    <2>1. pc[r] \in Later /\ pc[r] = "write"
        BY <1>6 DEF WriteEnd, Later, Awaits, Early
    <2>2. my[r].stage \in {"update", "bulk"} /\ Saving(pc[r], my[r])
        BY <2>1, Working DEF RouteInv, Route, Saving, Writing
    <2>3. UNCHANGED caches \/ Finish(r)
        BY <1>6 DEF WriteEnd, NextTable
    <2> QED
        BY <1>2, <1>3, <2>1, <2>2, <2>3
<1>7. CASE ~(ReadFile(r) \/ Stats(r) \/ WriteEnd(r))
    <2>1. UNCHANGED caches
        BY <1>7 DEF Handler, Register, Insert, Migrate, SidecarRow, Stamped, Graded, Sweep, Upsert, Stamp,
                    ReadNotes, Save, Count, ReadTable, WriteBegin, WriteRaises, memory
    <2> QED
        BY <1>2, <2>1
<1> QED
    BY <1>4, <1>5, <1>6, <1>7

LEMMA FilesGoOn ==
    ASSUME LocalInv, RouteInv, TablesInv, TypedInv, NEW r \in Reqs, Handler(r)
    PROVE  FilesTyped'
<1>1. FilesTyped /\ DOMAIN file = AllFiles
    BY DEF TypedInv, TablesInv
<1>2. CASE UNCHANGED file
    BY <1>1, <1>2 DEF FilesTyped
<1>3. CASE WriteBegin(r)
    BY <1>1, <1>3 DEF WriteBegin, FilesTyped
<1>4. CASE WriteEnd(r)
    <2> DEFINE old == my[r].table
               rows == [e \in DOMAIN old |->
                          IF e \in {i \in DOMAIN old : i \in ask[r].eps}
                          THEN [grade |-> Asked(r, e).grade, tags |-> Asked(r, e).tags]
                          ELSE old[e]]
    <2>1. file' = [file EXCEPT ![my[r].file] = rows]
        BY <1>4 DEF WriteEnd
    <2>2. pc[r] \in Later /\ pc[r] = "write"
        BY <1>4 DEF WriteEnd, Later, Awaits, Early
    <2>3. my[r].stage \in {"update", "bulk"} /\ Saving(pc[r], my[r]) /\ TableTyped(old)
        BY <2>2, InHand, Working DEF RouteInv, Route, Saving, Writing, StepFit
    <2>4. \A e : Asked(r, e) \in Note
        BY <2>2, <2>3, InHand, AskedIsTyped
    <2>5. \A n \in Note : [grade |-> n.grade, tags |-> n.tags] \in Row
        BY DEF Note, Row
    <2>6. TableTyped(rows)
        BY <2>3, <2>4, <2>5 DEF TableTyped
    <2> HIDE DEF rows
    <2> QED
        BY <1>1, <2>1, <2>6 DEF FilesTyped
<1>5. CASE ~(WriteBegin(r) \/ WriteEnd(r))
    <2>1. UNCHANGED file
        BY <1>5 DEF Handler, Register, Insert, Migrate, SidecarRow, Stamped, Graded, Sweep, Upsert, Stamp,
                    ReadNotes, ReadFile, Save, Count, Stats, ReadTable, WriteRaises, tables
    <2> QED
        BY <1>2, <2>1
<1> QED
    BY <1>3, <1>4, <1>5

(* Every load begins once, and makes one generation of locks.               *)
LEMMA GenGoesOn ==
    ASSUME LocalInv, TypedInv, NEW r \in Reqs, Start(r) \/ Handler(r)
    PROVE  GenTyped'
<1>1. GenTyped /\ IsFiniteSet(Begun) /\ IsFiniteSet(Begun') /\ Begun \subseteq Begun'
    <2>1. \A q \in Reqs : pc[q] # "new" => pc'[q] # "new"
        BY AllMove DEF Moving, Move, LocalInv, Shapes
    <2> QED
        BY <2>1, AnnotationsAssumption, FS_Subset DEF TypedInv, Begun
<1>2. Cardinality(Begun) <= Cardinality(Begun') /\ Cardinality(Begun) \in Nat /\ Cardinality(Begun') \in Nat
    BY <1>1, FS_Subset, FS_CardinalityType
<1>3. CASE Load(r)
    <2>1. r \notin Begun /\ r \in Begun' /\ gen' = gen + 1 /\ UNCHANGED locks
        BY <1>3, AllMove DEF Load, Moving, Move, LocalInv, Shapes, Begun, tables
    <2>2. Cardinality(Begun \cup {r}) = Cardinality(Begun) + 1
        BY <1>1, <2>1, FS_AddElement
    <2>3. Cardinality(Begun \cup {r}) <= Cardinality(Begun')
        BY <1>1, <2>1, FS_Subset
    <2>4. gen' \in Nat /\ gen' <= Cardinality(Begun')
        BY <1>1, <1>2, <2>1, <2>2, <2>3 DEF GenTyped
    <2>5. 0 .. gen \subseteq 0 .. gen'
        BY <1>1, <2>1 DEF GenTyped
    <2> QED
        BY <1>1, <2>1, <2>4, <2>5 DEF GenTyped
<1>4. CASE UNCHANGED gen /\ locks' \subseteq locks
    BY <1>1, <1>2, <1>4 DEF GenTyped
<1>5. CASE ReadTable(r)
    <2>1. pc[r] \in Later /\ pc[r] = "lock"
        BY <1>5 DEF ReadTable, Later, Awaits, Early
    <2>2. my[r].file \in AllFiles /\ my[r].lockGen \in 0 .. gen
        BY <2>1, InHand DEF StepFit, Writing, HandTyped, Standing
    <2>3. UNCHANGED gen /\ locks' \subseteq locks \cup {<<my[r].file, my[r].lockGen>>}
        BY <1>5 DEF ReadTable, memory
    <2> QED
        BY <1>1, <1>2, <2>2, <2>3 DEF GenTyped
<1>6. CASE Handler(r) /\ ~ReadTable(r)
    <2>1. WriteEnd(r) \/ WriteRaises(r) => locks' \subseteq locks
        BY DEF WriteEnd, WriteRaises
    <2> QED
        BY <1>4, <1>6, <2>1, HandlersLeave
<1> QED
    BY <1>3, <1>4, <1>5, <1>6, StartsLeave

LEMMA HandlersFit ==
    ASSUME LocalInv, RouteInv, TablesInv, TypedInv, NEW r \in Reqs, Handler(r)
    PROVE  HandTyped(r)'
<1>1. UNCHANGED <<ask, gen>> /\ db.reg \subseteq db'.reg
    BY HandlersLeave, DataGoesOn
<1> QED
    BY <1>1, RegisterFits, PassFits, ReadFits, SaveFits, WriteFits DEF Handler

(* A pass passes over nothing but severe episodes of its tables.            *)
LEMMA PassedIsTyped ==
    ASSUME LocalInv, TypedInv, NEW r \in Reqs, Sweep(r)
    PROVE  UnreadTyped'
<1>1. pc[r] \in Later /\ my[r].ds \in Datasets /\ my[r].files \subseteq AllFiles
    <2>1. pc[r] \in Later
        BY DEF Sweep, Later, Awaits, Early
    <2> QED
        BY <2>1, InHand, Working DEF Sweep, StepFit
<1>2. UnreadTyped
    BY DEF TypedInv
<1> DEFINE By(f, passed) ==
             unread' = unread \/ unread' = unread \cup ({my[r].ds} \X (passed \cap Severe[f[1]]))
<1>3. \E f \in AllFiles : \E passed : By(f, passed)
    <2>1. PICK f \in my[r].files :
             \/ unread' = unread
             \/ \E found : unread' = unread \cup
                    ({my[r].ds} \X (((DOMAIN file[f] \ my[r].graded) \cap Severe[f[1]]) \ found))
        BY Zenon DEF Sweep
    <2>2. ASSUME NEW found,
                 unread' = unread \cup
                    ({my[r].ds} \X (((DOMAIN file[f] \ my[r].graded) \cap Severe[f[1]]) \ found))
          PROVE  \E passed :
                    unread' = unread \cup ({my[r].ds} \X (passed \cap Severe[f[1]]))
        <3>1. ((DOMAIN file[f] \ my[r].graded) \cap Severe[f[1]]) \ found
                 = ((DOMAIN file[f] \ my[r].graded) \ found) \cap Severe[f[1]]
            OBVIOUS
        <3> QED
            BY <2>2, <3>1
    <2>3. f \in AllFiles
        BY <1>1, <2>1
    <2>4. \E passed : By(f, passed)
        BY <2>1, <2>2, Zenon
    <2> HIDE DEF By
    <2> QED
        BY <2>3, <2>4, Zenon
<1> HIDE DEF By
<1>4. PICK f \in AllFiles : \E passed : By(f, passed)
    BY <1>3, Zenon
<1>5. PICK passed : By(f, passed)
    BY <1>4, Zenon
<1>6. Severe[f[1]] \subseteq Episodes
    <2>1. f[1] \in Datasets
        BY DEF AllFiles, Files
    <2> QED
        BY <2>1, AnnotationsAssumption DEF Episodes
<1> QED
    BY <1>1, <1>2, <1>6, <1>5 DEF By, UnreadTyped

LEMMA TypedInit == Init => TypedInv
<1> SUFFICES ASSUME Init PROVE TypedInv
    OBVIOUS
<1>1. Begun = {} /\ Cardinality(Begun) = 0
    BY FS_EmptySet DEF Init, Begun
<1>2. DataTyped(db) /\ DataTyped(disk)
    BY FS_EmptySet DEF Init, DataTyped, Shaped, Notes, EmptyNotes
<1>3. FilesTyped
    <2>1. \A f \in AllFiles : TableTyped(Ungraded(f[1], f))
        BY DEF TableTyped, Ungraded, Row
    <2> QED
        BY <2>1 DEF Init, FilesTyped
<1>4. GenTyped
    BY <1>1 DEF Init, GenTyped
<1>5. \A r \in Reqs : HandTyped(r)
    BY DEF Init, HandTyped, Busy
<1> QED
    BY <1>2, <1>3, <1>4, <1>5 DEF Init, TypedInv, UnreadTyped, ShownTyped, ChartTyped

LEMMA TypedStep ==
    LocalInv /\ RouteInv /\ TablesInv /\ TypedInv /\ [Next]_vars => TypedInv'
<1> SUFFICES ASSUME LocalInv, RouteInv, TablesInv, TypedInv, [Next]_vars PROVE TypedInv'
    OBVIOUS
<1>1. CASE UNCHANGED vars
    BY <1>1
       DEF vars, caches, TypedInv, UnreadTyped, GenTyped, Begun, ShownTyped, ChartTyped, FilesTyped, HandTyped, Busy, StageFit,
           Target, StepFit, Standing
<1>2. CASE Crash
    <2>1. UNCHANGED <<file, aim, calm, unread>> /\ DataTyped(db)' /\ DataTyped(disk)'
        BY <1>2 DEF Crash, given, TypedInv
    <2>2. \A r \in Reqs : HandTyped(r)'
        BY <1>2 DEF Crash, HandTyped, Busy, Ended
    <2>3. GenTyped'
        <3>1. IsFiniteSet(Begun')
            BY AnnotationsAssumption, FS_Subset DEF Begun
        <3> QED
            BY <1>2, <3>1, FS_CardinalityType DEF Crash, GenTyped
    <2> QED
        BY <1>2, <2>1, <2>2, <2>3 DEF Crash, TypedInv, UnreadTyped, ShownTyped, ChartTyped, FilesTyped
<1>3. ASSUME NEW r \in Reqs, Start(r) PROVE TypedInv'
    <2>1. UNCHANGED <<ask, db, disk, file>> /\ GenTyped'
        BY <1>3, StartsLeave, GenGoesOn
    <2>2. HandTyped(r)'
        BY <1>3, StartFits
    <2>3. /\ map' \in Datasets \cup {None} /\ ChartTyped' /\ ShownTyped'
          /\ aim' \in [Reqs -> Datasets \cup {None}] /\ calm' \in BOOLEAN
        <3>1. CASE Load(r)
            <4>1. ask[r].dataset \in Datasets
                BY <3>1 DEF Load, LocalInv, Requests
            <4> QED
                BY <3>1, <4>1 DEF Load, TypedInv, ShownTyped, ChartTyped
        <3>2. CASE List(r) \/ Get(r) \/ Patch(r) \/ Bulk(r)
            <4>1. UNCHANGED <<memory, calm>> /\ aim' = [aim EXCEPT ![r] = loaded]
                BY <3>2 DEF List, Get, Patch, Bulk
            <4> QED
                BY <4>1 DEF memory, caches, LocalInv, TypedInv, ShownTyped, ChartTyped
        <3> QED
            BY <1>3, <3>1, <3>2 DEF Start
    <2>4. ASSUME NEW q \in Reqs, q # r PROVE HandTyped(q)'
        <3>1. pc'[q] = pc[q] /\ my'[q] = my[q] /\ HandTyped(q) /\ gen \in Nat
            BY <1>3, <2>4, OthersWait DEF TypedInv, GenTyped
        <3>2. gen' \in Nat /\ gen' >= gen
            BY <1>3, <3>1, StartsLeave DEF Load
        <3>3. 0 .. gen \subseteq 0 .. gen'
            BY <3>1, <3>2
        <3> QED
            BY <2>1, <3>1, <3>3 DEF HandTyped, Busy, StageFit, Target, StepFit, Standing
    <2>5. UNCHANGED unread
        BY <1>3 DEF Start, Load, List, Get, Patch, Bulk
    <2> QED
        BY <2>1, <2>2, <2>3, <2>4, <2>5 DEF TypedInv, UnreadTyped, FilesTyped
<1>4. ASSUME NEW r \in Reqs, Handler(r) PROVE TypedInv'
    <2>1. /\ UNCHANGED <<map, gen, ask, aim, calm>> /\ GenTyped' /\ ShownTyped' /\ ChartTyped'
          /\ FilesTyped' /\ DataTyped(db)' /\ DataTyped(disk)' /\ db.reg \subseteq db'.reg
        BY <1>4, HandlersLeave, GenGoesOn, ShownGoesOn, FilesGoOn, DataGoesOn
    <2>2. ASSUME NEW q \in Reqs PROVE HandTyped(q)'
        <3>1. CASE q = r
            BY <1>4, <3>1, HandlersFit
        <3>2. CASE q # r
            <4>1. pc'[q] = pc[q] /\ my'[q] = my[q] /\ HandTyped(q)
                BY <1>4, <3>2, OthersWait DEF TypedInv
            <4> QED
                BY <2>1, <4>1 DEF HandTyped, Busy, StageFit, Target, StepFit, Standing
        <3> QED
            BY <3>1, <3>2
    <2>3. UnreadTyped'
        <3>1. CASE Sweep(r)
            BY <3>1, PassedIsTyped
        <3>2. CASE ~Sweep(r)
            BY <1>4, <3>2, UnreadStays DEF TypedInv, UnreadTyped
        <3> QED
            BY <3>1, <3>2
    <2> QED
        BY <2>1, <2>2, <2>3 DEF TypedInv
<1> QED
    BY <1>1, <1>2, <1>3, <1>4 DEF Next

(* What the handlers have in hand fits what they are about, and what they   *)
(* write is a note, a row or a count.                                       *)
THEOREM TypedInvariance == Spec => []TypedInv
<1>1. LocalInv /\ RouteInv /\ TablesInv /\ TypedInv /\ [Next]_vars => TypedInv'
    BY TypedStep
<1>2. Spec => []TablesInv
    BY StampInvariance, PTL
<1> QED
    BY <1>1, <1>2, TypedInit, LocalInvariance, RouteInvariance, PTL DEF Spec

LEMMA TypesFit == LocalInv /\ TypedInv => TypeOK
<1> SUFFICES ASSUME LocalInv, TypedInv PROVE TypeOK
    OBVIOUS
<1>1. gen \in 0 .. Cardinality(Reqs)
    <2>1. Cardinality(Begun) <= Cardinality(Reqs) /\ IsFiniteSet(Begun)
        BY AnnotationsAssumption, FS_Subset DEF Begun
    <2>2. Cardinality(Begun) \in Nat /\ Cardinality(Reqs) \in Nat
        BY <2>1, AnnotationsAssumption, FS_CardinalityType
    <2> QED
        BY <2>1, <2>2 DEF TypedInv, GenTyped
<1>2. \A b \in {db, disk} :
         /\ b.reg \subseteq Datasets /\ b.stamp \subseteq b.reg
         /\ \A d \in Datasets : \A e \in DOMAIN b.notes[d] : b.notes[d][e] \in Note
         /\ b.stats \in [Datasets -> [Grades -> Nat]]
    BY DEF TypedInv, DataTyped, Notes
<1> QED
    BY <1>1, <1>2 DEF TypedInv, UnreadTyped, GenTyped, ShownTyped, ChartTyped, FilesTyped, Shows, TableTyped, LocalInv, Shapes, TypeOK

(* The types: a request never saves what is no annotation, the database     *)
(* knows the datasets it has stamped, and no more generations of locks are  *)
(* made than there are requests.                                            *)
THEOREM Types == Spec => []TypeOK
BY TypesFit, TypedInvariance, LocalInvariance, PTL
=============================================================================
