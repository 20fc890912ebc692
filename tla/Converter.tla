------------------------------ MODULE Converter ------------------------------
(***************************************************************************)
(* The converter's control: the handlers of backend/converter/router.py    *)
(* that start, stop, build and watch one docker container, as they wait    *)
(* for the docker commands of converter/service.py.                        *)
(*                                                                         *)
(* A handler launches a command with _run and awaits it.  The command does *)
(* its work at some moment in between, and the handler hears of it later,  *)
(* or gives up after a timeout and kills the command, whether or not it    *)
(* had done its work.  Docker owns the container: it has one name, so at   *)
(* most one exists, and it ends by itself.  What a command that was killed *)
(* has asked the daemon for is done by then or never done.                 *)
(***************************************************************************)
EXTENDS Naturals, FiniteSets

CONSTANTS
    Reqs,           \* requests to the server
    Asks,           \* what each may ask for: a set of functions to Ops
    MaxCrashes,     \* bound: how often the server dies
    None

Ops == {"start", "stop", "status", "build", "logs", "none"}     \* none: never sent
Commands == {"info", "inspect", "rm", "run", "down"}    \* those with a timeout
Ended == {"ok", "busy", "refused", "nodocker", "failed", "lost"}
Final == {"ok", "failed", "missing", "created", "running", "exited", "ended"}

ASSUME ConverterAssumption ==
    /\ Asks \subseteq [Reqs -> Ops]
    /\ MaxCrashes \in Nat
    /\ None \notin Reqs \cup Commands \cup Final \cup {"logs", "attached", "half"}

VARIABLES
    box,        \* the container: its state and the request that created it
    cli,        \* cli[r]: the docker command r waits for, and what came of it
    pc,         \* pc[r]: the await a handler is in, or how it ended
    bad,        \* requests whose removal of the container went wrong
    attached,   \* attached[r]: the container that a log stream follows
    gone,       \* log streams whose client has left
    task,       \* task[r]: the background task of an accepted build
    lock,       \* _build_lock: the build that holds it
    last,       \* _last_build_result: the build it is of
    ask,        \* ask[r]: what r asks for
    before,     \* history: what was over for good when r began
    blind,      \* history: starts that could not see the container
    owed,       \* history: accepted builds since the last result
    hurt,       \* history: has a build been lost or raised?
    crashes

docker == <<box, cli>>
builds == <<task, lock, last, owed, hurt>>
given == <<ask, crashes>>
vars == <<docker, pc, bad, attached, gone, builds, given, before, blind>>

Idle == [run |-> None, out |-> None]
Half == "half"      \* compose run has created the container, not started it
NoBox == [state |-> "none", by |-> None]

(* A docker command runs only while its handler waits for it, unless the    *)
(* server has died: none is left behind.                                    *)
CallsOK ==
    /\ cli \in [Reqs -> [run : Commands \cup {"logs", None},
                         out : Final \cup {"attached", Half, None}]]
    /\ pc \in [Reqs -> {"new", "stream"} \cup Commands \cup Ended]
    /\ \A r \in Reqs :
         /\ pc[r] \in Commands => cli[r].run = pc[r]
         /\ pc[r] = "stream" => cli[r].run = "logs"
         /\ pc[r] \in (Ended \ {"lost"}) \cup {"new"} => cli[r] = Idle

BoxOK ==
    /\ box \in [state : {"none", "created", "running", "exited"}, by : Reqs \cup {None}]
    /\ attached \in [Reqs -> Reqs \cup {None}]

BuildsOK ==
    /\ task \in [Reqs -> {"none", "queued", "building", "done", "refused", "raised", "lost"}]
    /\ lock \in Reqs \cup {None} /\ last \in Reqs \cup {None}
    /\ owed \subseteq Reqs /\ hurt \in BOOLEAN /\ crashes \in 0 .. MaxCrashes

GivenOK ==
    /\ ask \in [Reqs -> Ops]
    /\ before \in [Reqs -> SUBSET Reqs]
    /\ bad \subseteq Reqs /\ gone \subseteq Reqs /\ blind \subseteq Reqs

TypeOK == CallsOK /\ BoxOK /\ BuildsOK /\ GivenOK

(* The server starts beside whatever container an earlier one has left.     *)
Init ==
    /\ box \in [state : {"created", "running", "exited"}, by : {None}] \cup {NoBox}
    /\ cli = [r \in Reqs |-> Idle]
    /\ pc = [r \in Reqs |-> "new"]
    /\ bad = {} /\ gone = {} /\ blind = {}
    /\ attached = [r \in Reqs |-> None]
    /\ task = [r \in Reqs |-> "none"]
    /\ lock = None /\ last = None
    /\ ask \in Asks
    /\ before = [r \in Reqs |-> {}]
    /\ owed = {} /\ hurt = FALSE /\ crashes = 0

----------------------------------------------------------------------------
(* Docker's side of a command.                                              *)
Pending(r, command) == cli[r] = [run |-> command, out |-> None]
Says(r, out) == cli' = [cli EXCEPT ![r] = [run |-> cli[r].run, out |-> out]]
Alone == UNCHANGED <<pc, bad, attached, gone, builds, given, before, blind>>

Inspects(r) ==
    /\ Pending(r, "inspect")
    /\ Says(r, IF box.state = "none" THEN "missing" ELSE box.state)
    /\ UNCHANGED box /\ Alone

Removes(r) ==
    /\ Pending(r, "rm")
    /\ Says(r, IF box.state = "none" THEN "missing" ELSE "ok")
    /\ box' = NoBox
    /\ Alone

(* compose run creates the container, unless its name is taken, and starts  *)
(* it, unless it has been removed in between.                               *)
Creates(r) ==
    /\ Pending(r, "run")
    /\ IF box.state = "none"
       THEN Says(r, Half) /\ box' = [state |-> "created", by |-> r]
       ELSE Says(r, "failed") /\ UNCHANGED box
    /\ Alone

Starts(r) ==
    /\ cli[r] = [run |-> "run", out |-> Half]
    /\ IF box = [state |-> "created", by |-> r]
       THEN Says(r, "ok") /\ box' = [state |-> "running", by |-> r]
       ELSE Says(r, "failed") /\ UNCHANGED box
    /\ Alone

(* compose down may or may not take the one-off container with it.          *)
Downs(r) ==
    /\ Pending(r, "down") /\ Says(r, "ok")
    /\ box' \in {box, NoBox}
    /\ Alone

(* docker logs -f follows a container that runs, until it does not.         *)
Attaches(r) ==
    /\ Pending(r, "logs")
    /\ IF box.state = "running"
       THEN Says(r, "attached") /\ attached' = [attached EXCEPT ![r] = box.by]
       ELSE Says(r, "ended") /\ UNCHANGED attached
    /\ UNCHANGED <<box, pc, bad, gone, builds, given, before, blind>>

Detaches(r) ==
    /\ cli[r] = [run |-> "logs", out |-> "attached"]
    /\ box # [state |-> "running", by |-> attached[r]]
    /\ Says(r, "ended")
    /\ UNCHANGED box /\ Alone

(* The converter is done with its task, or dies.                            *)
Exits ==
    /\ box.state = "running"
    /\ box' = [state |-> "exited", by |-> box.by]
    /\ UNCHANGED cli /\ Alone

Docker(r) ==
    Inspects(r) \/ Removes(r) \/ Creates(r) \/ Starts(r) \/ Downs(r)

----------------------------------------------------------------------------
(* The server's side.                                                       *)
Launch(r, command) ==
    /\ cli' = [cli EXCEPT ![r] = [run |-> command, out |-> None]]
    /\ pc' = [pc EXCEPT ![r] = IF command = "logs" THEN "stream" ELSE command]

Answer(r, outcome) ==
    /\ cli' = [cli EXCEPT ![r] = Idle]
    /\ pc' = [pc EXCEPT ![r] = outcome]

(* A request that cannot act on the container any more: the command of one  *)
(* that died with the server runs on without it.                            *)
Over(r) == pc[r] \in Ended /\ (cli[r].run = None \/ cli[r].out \in Final)

Begin(r) ==
    /\ pc[r] = "new" /\ ask[r] # "none"
    /\ Launch(r, CASE ask[r] = "stop" -> "rm" [] ask[r] = "logs" -> "inspect" [] OTHER -> "info")
    /\ before' = [before EXCEPT ![r] = {q \in Reqs : Over(q)}]
    /\ UNCHANGED <<box, bad, attached, gone, builds, given, blind>>

(* Mutant: a command is awaited without a timeout.                          *)
HeardInTheEnd(r) ==
    IF cli[r].run = "info" THEN {"ok", "failed"}
    ELSE IF cli[r].out \in Final THEN {cli[r].out} ELSE {}

(* What _run returns: what came of the command, or a return code that is    *)
(* not 0, because the command failed, there is no such command, or its time *)
(* is over.  What docker info says depends on nothing here.                 *)
Heard(r) ==
    {"failed"} \cup
    IF cli[r].run = "info" THEN {"ok"}
    ELSE IF cli[r].out \in Final THEN {cli[r].out} ELSE {}

(* An accepted build has answered; its task runs when the loop comes to it. *)
Accept(r) ==
    /\ Answer(r, "ok")
    /\ task' = [task EXCEPT ![r] = "queued"]
    /\ owed' = owed \cup {r}
    /\ UNCHANGED <<lock, last, hurt>>

(* check_docker, and what each handler does next.                           *)
Checked(r) ==
    /\ pc[r] = "info"
    /\ \E heard \in Heard(r) :
         \/ /\ heard # "ok"
            /\ Answer(r, IF ask[r] = "status" THEN "ok" ELSE "nodocker") /\ UNCHANGED builds
         \/ /\ heard = "ok" /\ ask[r] = "build"
            /\ IF lock # None THEN Answer(r, "busy") /\ UNCHANGED builds ELSE Accept(r)
         \/ /\ heard = "ok" /\ ask[r] = "status"
            /\ IF lock # None THEN Answer(r, "ok") ELSE Launch(r, "inspect")
            /\ UNCHANGED builds
         \/ heard = "ok" /\ ask[r] = "start" /\ Launch(r, "inspect") /\ UNCHANGED builds
    /\ UNCHANGED <<box, bad, attached, gone, given, before, blind>>

(* An inspection that failed reads as a container that is stopped.          *)
State(heard) ==
    IF heard \in {"failed", "missing", "exited"} THEN "stopped" ELSE heard

(* Mutant: a container that runs can be restarted.                          *)
GoOnAny(r, state) == Launch(r, "rm")

(* start_converter, when it knows the state.                                *)
GoOn(r, state) ==
    \/ state = "running" /\ Answer(r, "busy")
    \/ state = "stopped" /\ Launch(r, "rm")
    \/ state \notin {"running", "stopped"} /\ Answer(r, "refused")

Inspected(r) ==
    /\ pc[r] = "inspect"
    /\ \E heard \in Heard(r) :
         /\ blind' = IF heard = "failed" THEN blind \cup {r} ELSE blind
         /\ \/ ask[r] = "start" /\ GoOn(r, State(heard))
            \/ ask[r] = "status" /\ Answer(r, "ok")
            \/ /\ ask[r] = "logs"
               /\ IF State(heard) = "running" THEN Launch(r, "logs") ELSE Answer(r, "ok")
    /\ UNCHANGED <<box, bad, attached, gone, builds, given, before>>

(* Mutant: a stop does not look at what came of the removal, either.        *)
RemovedAnyhow(r) ==
    /\ pc[r] = "rm"
    /\ \E heard \in Heard(r) :
         /\ Launch(r, IF ask[r] = "start" THEN "run" ELSE "down")
         /\ UNCHANGED bad
    /\ UNCHANGED <<box, attached, gone, builds, given, before, blind>>

(* A start does not look at what came of the removal; a stop remembers it   *)
(* and goes on.                                                             *)
Removed(r) ==
    /\ pc[r] = "rm"
    /\ \E heard \in Heard(r) :
         /\ Launch(r, IF ask[r] = "start" THEN "run" ELSE "down")
         /\ bad' = IF heard \in {"ok", "missing"} THEN bad ELSE bad \cup {r}
    /\ UNCHANGED <<box, attached, gone, builds, given, before, blind>>

(* Mutant: the return code of compose run is not looked at.                 *)
RanAnyhow(r) ==
    /\ pc[r] = "run"
    /\ \E heard \in Heard(r) : Answer(r, "ok")
    /\ UNCHANGED <<box, bad, attached, gone, builds, given, before, blind>>

Ran(r) ==
    /\ pc[r] = "run"
    /\ \E heard \in Heard(r) : Answer(r, IF heard = "ok" THEN "ok" ELSE "failed")
    /\ UNCHANGED <<box, bad, attached, gone, builds, given, before, blind>>

Downed(r) ==
    /\ pc[r] = "down"
    /\ \E heard \in Heard(r) :
         Answer(r, IF heard = "ok" /\ r \notin bad THEN "ok" ELSE "failed")
    /\ UNCHANGED <<box, bad, attached, gone, builds, given, before, blind>>

(* The log stream: it ends with its container, or with a line for a client  *)
(* that has left.  Nobody looks for the client before there is a line.      *)
StreamEnds(r) ==
    /\ pc[r] = "stream" /\ cli[r].out = "ended"
    /\ Answer(r, "ok")
    /\ UNCHANGED <<box, bad, attached, gone, builds, given, before, blind>>

Leaves(r) ==
    /\ pc[r] = "stream" /\ r \notin gone
    /\ gone' = gone \cup {r}
    /\ UNCHANGED <<docker, pc, bad, attached, builds, given, before, blind>>

(* Mutant: the log process is not killed when the client has left.          *)
LineForNobodyLeft(r) ==
    /\ pc[r] = "stream" /\ r \in gone
    /\ cli[r].out = "attached" /\ box = [state |-> "running", by |-> attached[r]]
    /\ pc' = [pc EXCEPT ![r] = "ok"]
    /\ UNCHANGED <<docker, bad, attached, gone, builds, given, before, blind>>

(* The line cannot be sent, and the log process is killed.                  *)
LineForNobody(r) ==
    /\ pc[r] = "stream" /\ r \in gone
    /\ cli[r].out = "attached" /\ box = [state |-> "running", by |-> attached[r]]
    /\ Answer(r, "ok")
    /\ UNCHANGED <<box, bad, attached, gone, builds, given, before, blind>>

----------------------------------------------------------------------------
(* Mutant: only the handler asks for the lock.                              *)
TaskRunsUnlocked(r) ==
    /\ task[r] = "queued"
    /\ task' = [task EXCEPT ![r] = "building"] /\ lock' = r
    /\ UNCHANGED <<docker, pc, bad, attached, gone, last, owed, hurt, given, before, blind>>

(* build_image: RuntimeError, which nobody sees, or the lock.               *)
TaskRuns(r) ==
    /\ task[r] = "queued"
    /\ \/ lock # None /\ task' = [task EXCEPT ![r] = "refused"] /\ UNCHANGED lock
       \/ lock = None /\ task' = [task EXCEPT ![r] = "building"] /\ lock' = r
    /\ UNCHANGED <<docker, pc, bad, attached, gone, last, owed, hurt, given, before, blind>>

(* Mutant: a build that fails leaves no result.                             *)
BuildEndsQuietly(r) ==
    /\ task[r] = "building"
    /\ task' = [task EXCEPT ![r] = "done"] /\ lock' = None
    /\ \/ last' = r /\ owed' = {}
       \/ UNCHANGED <<last, owed>>
    /\ UNCHANGED <<docker, pc, bad, attached, gone, hurt, given, before, blind>>

(* The lock is released and the result set without an await in between.     *)
BuildEnds(r) ==
    /\ task[r] = "building"
    /\ task' = [task EXCEPT ![r] = "done"] /\ lock' = None
    /\ last' = r /\ owed' = {}
    /\ UNCHANGED <<docker, pc, bad, attached, gone, hurt, given, before, blind>>

(* Mutant: the lock is not released by an exception.                        *)
BuildRaisesLocked(r) ==
    /\ task[r] = "building"
    /\ task' = [task EXCEPT ![r] = "raised"]
    /\ hurt' = TRUE
    /\ UNCHANGED <<docker, pc, bad, attached, gone, lock, last, owed, given, before, blind>>

(* No docker, or its output cannot be had: no result, and nobody sees it.   *)
BuildRaises(r) ==
    /\ task[r] = "building"
    /\ task' = [task EXCEPT ![r] = "raised"] /\ lock' = None
    /\ hurt' = TRUE
    /\ UNCHANGED <<docker, pc, bad, attached, gone, last, owed, given, before, blind>>

(* The server dies.  Docker, and the commands it had launched, live on.     *)
Crash ==
    /\ crashes < MaxCrashes /\ crashes' = crashes + 1
    /\ pc' = [r \in Reqs |-> IF pc[r] \in Ended \cup {"new"} THEN pc[r] ELSE "lost"]
    /\ task' = [r \in Reqs |-> IF task[r] \in {"queued", "building"} THEN "lost" ELSE task[r]]
    /\ hurt' = (hurt \/ task' # task)
    /\ lock' = None /\ last' = None
    /\ UNCHANGED <<docker, bad, attached, gone, ask, owed, before, blind>>

----------------------------------------------------------------------------
Handler(r) ==
    Checked(r) \/ Inspected(r) \/ Removed(r) \/ Ran(r) \/ Downed(r) \/ StreamEnds(r)
Build(r) == TaskRuns(r) \/ BuildEnds(r) \/ BuildRaises(r)
Logs(r) == Attaches(r) \/ Detaches(r)

Next ==
    \/ \E r \in Reqs : \/ Begin(r) \/ Handler(r) \/ Docker(r) \/ Logs(r)
                       \/ Leaves(r) \/ LineForNobody(r) \/ Build(r)
    \/ Exits \/ Crash

Spec == Init /\ [][Next]_vars

(* The event loop resumes every handler whose command or whose time is      *)
(* over, whether or not docker ever answers; a build, which has no timeout, *)
(* is assumed to end, and the log process to notice its container's end.    *)
FairSpec ==
    Spec /\ \A r \in Reqs : WF_vars(Handler(r)) /\ WF_vars(Build(r)) /\ WF_vars(Logs(r))

----------------------------------------------------------------------------
(* Properties *)

(* One build of this server runs at a time, and it holds the lock, although *)
(* handlers that ask for the lock one after the other may both be told that *)
(* their build has started.                                                 *)
OneBuild == \A r \in Reqs : task[r] = "building" <=> lock = r

(* Once no build waits or runs, every build that was accepted has been      *)
(* followed by a result, its own or that of the build it gave way to; only  *)
(* a build that raised, or died with the server, leaves its clients with    *)
(* "no_build" or with an older result.                                      *)
AcceptedIsReported ==
    ~hurt /\ (\A r \in Reqs : task[r] \notin {"queued", "building"}) =>
        owed = {} /\ (last = None => \A r \in Reqs : task[r] # "done" \/ crashes > 0)

(* A container that outlives a stop answered with success was created by a  *)
(* start that was not over when the stop began: one that overlaps it, comes *)
(* later, or runs on without the server that launched it.                   *)
StoppedIsGone ==
    \A r \in Reqs : pc[r] = "ok" /\ ask[r] = "stop" /\ box.state # "none" =>
        box.by # None /\ box.by \notin before[r]

(* The container of a start answered with success is there, running or at   *)
(* its end, if every other start or stop has not begun or was over before.  *)
StartedIsThere ==
    \A r \in Reqs : pc[r] = "ok" /\ ask[r] = "start" =>
        \/ box.by = r /\ box.state \in {"running", "exited"}
        \/ \E q \in Reqs \ {r} :
             ask[q] \in {"start", "stop"} /\ pc[q] # "new" /\ q \notin before[r]

(* A start removes a container that runs only when docker did not tell it   *)
(* of the container, or when another start created it meanwhile.            *)
StartSparesTheRunning ==
    [][\A r \in Reqs :
         box.state = "running" /\ ask[r] = "start" /\ Pending(r, "rm") /\ cli'[r].out = "ok"
         => r \in blind \/ (box.by # None /\ box.by \notin before[r])]_vars

(* Every handler is answered, even when docker hangs for ever; and when the *)
(* container is gone for good, so is every log stream.                      *)
RequestsEnd ==
    /\ \A r \in Reqs : pc[r] \in Commands ~> pc[r] \notin Commands
    /\ <>[](box.state # "running") => <>[](\A r \in Reqs : pc[r] # "stream")

(* Whatever becomes of a build, the lock is free again and again: no build  *)
(* is refused for ever, and the status shows the container again.           *)
LockIsReleased == []<>(lock = None)
=============================================================================
