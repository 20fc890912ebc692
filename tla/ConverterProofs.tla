--------------------------- MODULE ConverterProofs ---------------------------
(***************************************************************************)
(* Proofs about Converter for any requests, whatever they ask for, and any *)
(* number of crashes: all the safety properties that its run checks.        *)
(***************************************************************************)
EXTENDS Converter, TLAPS

(* What a handler is told when it is told anything. *)
Outcomes == Ended \ {"lost"}

(* An answer ends a handler, and leaves no command behind.                  *)
LEMMA AnswerKeeps ==
    ASSUME CallsOK, NEW r \in Reqs, NEW outcome \in Outcomes, Answer(r, outcome)
    PROVE  CallsOK'
<1> USE DEF CallsOK, Idle, Outcomes
<1>1. cli' \in [Reqs -> [run : Commands \cup {"logs", None},
                         out : Final \cup {"attached", Half, None}]]
    BY DEF Answer
<1>2. pc' \in [Reqs -> {"new", "stream"} \cup Commands \cup Ended]
    BY DEF Answer
<1>3. ASSUME NEW q \in Reqs
      PROVE  /\ pc'[q] \in Commands => cli'[q].run = pc'[q]
             /\ pc'[q] = "stream" => cli'[q].run = "logs"
             /\ pc'[q] \in (Ended \ {"lost"}) \cup {"new"} => cli'[q] = Idle
    <2>1. CASE q = r
        BY <2>1 DEF Answer, Commands, Ended
    <2>2. CASE q # r
        BY <2>2 DEF Answer
    <2> QED
        BY <2>1, <2>2
<1> QED
    BY <1>1, <1>2, <1>3

(* A command that is launched is waited for.                                *)
LEMMA LaunchKeeps ==
    ASSUME CallsOK, NEW r \in Reqs, NEW command \in Commands \cup {"logs"}, Launch(r, command)
    PROVE  CallsOK'
<1> USE DEF CallsOK
<1>1. cli' \in [Reqs -> [run : Commands \cup {"logs", None},
                         out : Final \cup {"attached", Half, None}]]
    BY DEF Launch
<1>2. pc' \in [Reqs -> {"new", "stream"} \cup Commands \cup Ended]
    BY DEF Launch
<1>3. ASSUME NEW q \in Reqs
      PROVE  /\ pc'[q] \in Commands => cli'[q].run = pc'[q]
             /\ pc'[q] = "stream" => cli'[q].run = "logs"
             /\ pc'[q] \in (Ended \ {"lost"}) \cup {"new"} => cli'[q] = Idle
    <2>1. CASE q = r
        BY <2>1 DEF Launch, Commands, Ended
    <2>2. CASE q # r
        BY <2>2 DEF Launch
    <2> QED
        BY <2>1, <2>2
<1> QED
    BY <1>1, <1>2, <1>3

(* What docker says of a command that runs changes nothing but the output.  *)
LEMMA SayKeeps ==
    ASSUME CallsOK, NEW r \in Reqs, cli[r].run # None,
           NEW out \in Final \cup {"attached", Half}, Says(r, out), UNCHANGED pc
    PROVE  CallsOK'
<1> USE DEF CallsOK
<1>1. cli' \in [Reqs -> [run : Commands \cup {"logs", None},
                         out : Final \cup {"attached", Half, None}]]
    BY DEF Says
<1>2. cli'[r].run = cli[r].run /\ cli[r] # Idle
    BY DEF Says, Idle
<1>3. ASSUME NEW q \in Reqs
      PROVE  /\ pc'[q] \in Commands => cli'[q].run = pc'[q]
             /\ pc'[q] = "stream" => cli'[q].run = "logs"
             /\ pc'[q] \in (Ended \ {"lost"}) \cup {"new"} => cli'[q] = Idle
    <2>1. CASE q = r
        BY <1>2, <2>1
    <2>2. CASE q # r
        BY <2>2 DEF Says
    <2> QED
        BY <2>1, <2>2
<1> QED
    BY <1>1, <1>3

----------------------------------------------------------------------------
LEMMA InitTypes == Init => TypeOK
<1> SUFFICES ASSUME Init PROVE TypeOK
    OBVIOUS
<1> USE ConverterAssumption DEF Init, Idle, NoBox, Commands, Ended, Final, Half, Ops
<1>1. CallsOK
    BY DEF CallsOK
<1>2. BoxOK
    BY DEF BoxOK
<1>3. BuildsOK
    <2>1. task \in [Reqs -> {"none", "queued", "building", "done", "refused", "raised", "lost"}]
        OBVIOUS
    <2>2. 0 \in 0 .. MaxCrashes
        BY ConverterAssumption
    <2>3. hurt \in BOOLEAN
        BY Zenon
    <2>4. /\ crashes \in 0 .. MaxCrashes /\ owed \subseteq Reqs
          /\ lock \in Reqs \cup {None} /\ last \in Reqs \cup {None}
        BY <2>2, Zenon
    <2> QED
        BY <2>1, <2>3, <2>4, Zenon DEF BuildsOK
<1>4. GivenOK
    BY DEF GivenOK
<1> QED
    BY <1>1, <1>2, <1>3, <1>4 DEF TypeOK

(* A step of docker on behalf of r, and a step of the log stream of r.      *)
LEMMA DockerTypes ==
    ASSUME TypeOK, NEW r \in Reqs, Docker(r) \/ Logs(r) \/ LineForNobody(r) \/ Leaves(r)
    PROVE  TypeOK'
<1> USE DEF TypeOK
<1>1. UNCHANGED <<builds, given, bad, before, blind>> /\ gone' \in {gone, gone \cup {r}}
    BY DEF Docker, Inspects, Removes, Creates, Starts, Downs, Logs, Attaches, Detaches,
           LineForNobody, Leaves, Alone
<1>2. BuildsOK' /\ GivenOK'
    BY <1>1 DEF BuildsOK, GivenOK, builds, given
<1>3. BoxOK'
    <2>1. box' \in [state : {"none", "created", "running", "exited"}, by : Reqs \cup {None}]
        BY DEF BoxOK, Docker, Inspects, Removes, Creates, Starts, Downs, Logs, Attaches, Detaches,
               LineForNobody, Leaves, Alone, docker, NoBox
    <2>2. attached' \in [Reqs -> Reqs \cup {None}]
        BY DEF BoxOK, Docker, Inspects, Removes, Creates, Starts, Downs, Logs, Attaches, Detaches,
               LineForNobody, Leaves, Alone
    <2> QED
        BY <2>1, <2>2 DEF BoxOK
<1>4. CallsOK'
    <2>1. CASE LineForNobody(r)
        BY <2>1, AnswerKeeps DEF LineForNobody, Outcomes, Ended
    <2>2. CASE Leaves(r)
        BY <2>2 DEF Leaves, CallsOK, docker
    <2>3. CASE Docker(r) \/ Logs(r)
        <3>1. /\ cli[r].run \in Commands \cup {"logs"} /\ UNCHANGED pc
              /\ \E out \in Final \cup {"attached", Half} : Says(r, out)
            <4>1. box.state # "none" => box.state \in Final
                BY DEF BoxOK, Final
            <4> QED
                BY <2>3, <4>1 DEF Docker, Inspects, Removes, Creates, Starts, Downs, Logs, Attaches,
                       Detaches, Alone, Pending, Commands, Final, Half
        <3> QED
            BY <3>1, SayKeeps, ConverterAssumption
    <2> QED
        BY <2>1, <2>2, <2>3
<1> QED
    BY <1>2, <1>3, <1>4

(* A step of a handler: an answer or the next command.                      *)
LEMMA HandlerTypes ==
    ASSUME TypeOK, NEW r \in Reqs, Begin(r) \/ Handler(r)
    PROVE  TypeOK'
<1> USE DEF TypeOK
<1>1. UNCHANGED <<box, attached, gone, given>>
    BY DEF Begin, Handler, Checked, Inspected, Removed, Ran, Downed, StreamEnds
<1>2. UNCHANGED builds \/ Accept(r)
    BY DEF Begin, Handler, Checked, Inspected, Removed, Ran, Downed, StreamEnds
<1>3. BuildsOK'
    BY <1>1, <1>2 DEF BuildsOK, Accept, builds, given
<1>4. /\ bad' \in {bad, bad \cup {r}} /\ blind' \in {blind, blind \cup {r}}
      /\ before' = before \/ before' = [before EXCEPT ![r] = {q \in Reqs : Over(q)}]
    BY DEF Begin, Handler, Checked, Inspected, Removed, Ran, Downed, StreamEnds
<1>5. GivenOK'
    BY <1>1, <1>4 DEF GivenOK, given
<1>6. \/ \E outcome \in Outcomes : Answer(r, outcome)
      \/ \E command \in Commands \cup {"logs"} : Launch(r, command)
    <2> USE DEF Outcomes, Ended, Commands
    <2>1. CASE Begin(r)
        BY <2>1 DEF Begin
    <2>2. CASE Checked(r)
        BY <2>2 DEF Checked, Accept
    <2>3. CASE Inspected(r)
        BY <2>3 DEF Inspected, GoOn
    <2>4. CASE Removed(r) \/ Ran(r) \/ Downed(r) \/ StreamEnds(r)
        BY <2>4 DEF Removed, Ran, Downed, StreamEnds
    <2> QED
        BY <2>1, <2>2, <2>3, <2>4 DEF Handler
<1>7. CallsOK'
    BY <1>6, AnswerKeeps, LaunchKeeps
<1> QED
    BY <1>1, <1>3, <1>5, <1>7 DEF BoxOK

LEMMA CrashTypes == TypeOK /\ Crash => TypeOK'
<1> SUFFICES ASSUME TypeOK, Crash PROVE TypeOK'
    OBVIOUS
<1> USE DEF TypeOK, Crash
<1>1. CallsOK'
    <2>1. pc' \in [Reqs -> {"new", "stream"} \cup Commands \cup Ended]
        BY DEF CallsOK, Ended
    <2>2. \A q \in Reqs : pc'[q] = "lost" \/ (pc'[q] = pc[q] /\ pc[q] \in Ended \cup {"new"})
        BY DEF CallsOK
    <2> QED
        BY <2>1, <2>2 DEF CallsOK, docker, Commands, Ended
<1>2. BoxOK'
    BY DEF BoxOK, docker
<1>3. BuildsOK'
    <2>1. task' \in [Reqs -> {"none", "queued", "building", "done", "refused", "raised", "lost"}]
        BY DEF BuildsOK
    <2>2. hurt' \in BOOLEAN
        BY DEF BuildsOK
    <2> QED
        BY <2>1, <2>2, ConverterAssumption DEF BuildsOK
<1>4. GivenOK'
    BY DEF GivenOK
<1> QED
    BY <1>1, <1>2, <1>3, <1>4

(* The variables keep their types; and a docker command runs only while its *)
(* handler waits for it, unless the server has died.                        *)
THEOREM TypeCorrect == Spec => []TypeOK
<1>1. Init => TypeOK
    BY InitTypes
<1>2. TypeOK /\ [Next]_vars => TypeOK'
    <2> SUFFICES ASSUME TypeOK, [Next]_vars PROVE TypeOK'
        OBVIOUS
    <2>1. ASSUME NEW r \in Reqs, Begin(r) \/ Handler(r) PROVE TypeOK'
        BY <2>1, HandlerTypes
    <2>2. ASSUME NEW r \in Reqs, Docker(r) \/ Logs(r) \/ Leaves(r) \/ LineForNobody(r)
          PROVE  TypeOK'
        BY <2>2, DockerTypes
    <2>3. ASSUME NEW r \in Reqs, Build(r) PROVE TypeOK'
        <3>1. UNCHANGED <<docker, pc, bad, attached, gone, given, before, blind>>
            BY <2>3 DEF Build, TaskRuns, BuildEnds, BuildRaises
        <3>2. BuildsOK'
            BY <2>3 DEF TypeOK, BuildsOK, Build, TaskRuns, BuildEnds, BuildRaises, given
        <3> QED
            BY <3>1, <3>2 DEF TypeOK, CallsOK, BoxOK, GivenOK, docker, given
    <2>4. CASE Exits
        <3>1. BoxOK'
            BY <2>4 DEF TypeOK, BoxOK, Exits, Alone
        <3> QED
            BY <2>4, <3>1 DEF TypeOK, CallsOK, BuildsOK, GivenOK, Exits, Alone, builds, given
    <2>5. CASE Crash
        BY <2>5, CrashTypes
    <2>6. CASE UNCHANGED vars
        BY <2>6 DEF TypeOK, CallsOK, BoxOK, BuildsOK, GivenOK, vars, docker, builds, given
    <2> QED
        BY <2>1, <2>2, <2>3, <2>4, <2>5, <2>6 DEF Next
<1> QED
    BY <1>1, <1>2, PTL DEF Spec

----------------------------------------------------------------------------
(* A build has no task before its handler has accepted it.                  *)
NoTaskYet == \A r \in Reqs : pc[r] \notin Ended => task[r] = "none"

(* As long as no build is lost or raises, one that is accepted is owed a    *)
(* result by a task that waits or runs.                                     *)
SomebodyPays ==
    ~hurt /\ owed # {} => \E r \in Reqs : task[r] \in {"queued", "building"}

(* A build that has ended has left a result, which lives as long as the     *)
(* server.                                                                  *)
DoneIsSeen == \A r \in Reqs : task[r] = "done" => last # None \/ crashes > 0

BuildInv == OneBuild /\ NoTaskYet /\ SomebodyPays /\ DoneIsSeen

(* A step that leaves the tasks alone and starts no handler anew keeps it.  *)
LEMMA TheOthersLeaveBuilds ==
    ASSUME TypeOK, BuildInv, UNCHANGED <<builds, crashes>>,
           \A q \in Reqs : pc[q] \in Ended => pc'[q] \in Ended
    PROVE  BuildInv'
BY Zenon DEF BuildInv, OneBuild, NoTaskYet, SomebodyPays, DoneIsSeen, builds

LEMMA BuildStep == TypeOK /\ BuildInv /\ [Next]_vars => BuildInv'
<1> SUFFICES ASSUME TypeOK, BuildInv, [Next]_vars PROVE BuildInv'
    OBVIOUS
<1> USE DEF BuildInv
<1>1. ASSUME NEW r \in Reqs, Accept(r), pc[r] = "info", UNCHANGED crashes PROVE BuildInv'
    <2>1. /\ task[r] = "none" /\ task' = [task EXCEPT ![r] = "queued"]
          /\ UNCHANGED <<lock, last, hurt, crashes>>
          /\ pc' = [pc EXCEPT ![r] = "ok"]
        BY <1>1 DEF NoTaskYet, Accept, Answer, Ended
    <2>2. task'[r] = "queued" /\ pc'[r] = "ok"
        BY <2>1 DEF TypeOK, BuildsOK, CallsOK
    <2>3. \A q \in Reqs : q # r => task'[q] = task[q] /\ pc'[q] = pc[q]
        BY <2>1 DEF TypeOK, BuildsOK, CallsOK
    <2>4. OneBuild'
        BY <2>1, <2>2, <2>3 DEF OneBuild
    <2>5. NoTaskYet' /\ DoneIsSeen' /\ SomebodyPays'
        BY <2>1, <2>2, <2>3 DEF NoTaskYet, DoneIsSeen, SomebodyPays, Ended
    <2> QED
        BY <2>4, <2>5
<1>2. ASSUME NEW r \in Reqs, Begin(r) \/ Handler(r), UNCHANGED builds PROVE BuildInv'
    <2>1. UNCHANGED crashes
        BY <1>2 DEF Begin, Handler, Checked, Inspected, Removed, Ran, Downed, StreamEnds, given
    <2>2. pc[r] \notin Ended /\ \E where : pc' = [pc EXCEPT ![r] = where]
        BY <1>2 DEF Begin, Handler, Checked, Inspected, Removed, Ran, Downed, StreamEnds, Ended,
                    Launch, Answer, Accept, GoOn
    <2>3. \A q \in Reqs : pc[q] \in Ended => pc'[q] \in Ended
        BY <2>2 DEF TypeOK, CallsOK
    <2> QED
        BY <1>2, <2>1, <2>3, TheOthersLeaveBuilds
<1>3. ASSUME NEW r \in Reqs, Begin(r) \/ Handler(r), ~UNCHANGED builds PROVE BuildInv'
    <2>1. Accept(r) /\ pc[r] = "info" /\ UNCHANGED crashes
        BY <1>3 DEF Begin, Handler, Checked, Inspected, Removed, Ran, Downed, StreamEnds, given
    <2> QED
        BY <2>1, <1>1
<1>4. ASSUME NEW r \in Reqs, Docker(r) \/ Logs(r) \/ Leaves(r) \/ LineForNobody(r)
      PROVE  BuildInv'
    <2>1. UNCHANGED <<builds, crashes>> /\ (pc' = pc \/ pc' = [pc EXCEPT ![r] = "ok"])
        BY <1>4 DEF Docker, Inspects, Removes, Creates, Starts, Downs, Logs, Attaches, Detaches,
                    LineForNobody, Leaves, Alone, Answer, given
    <2>2. \A q \in Reqs : pc[q] \in Ended => pc'[q] \in Ended
        BY <2>1 DEF TypeOK, CallsOK, Ended
    <2> QED
        BY <2>1, <2>2, TheOthersLeaveBuilds
<1>5. ASSUME NEW r \in Reqs, Build(r) PROVE BuildInv'
    <2> USE DEF TypeOK, BuildsOK
    <2>1. UNCHANGED <<pc, crashes>> /\ task[r] \in {"queued", "building"} /\ pc[r] \in Ended
        BY <1>5 DEF Build, TaskRuns, BuildEnds, BuildRaises, NoTaskYet, given
    <2>2. \A q \in Reqs : q # r => task'[q] = task[q]
        BY <1>5 DEF Build, TaskRuns, BuildEnds, BuildRaises
    <2>3. NoTaskYet'
        BY <2>1, <2>2 DEF NoTaskYet
    <2>4. CASE TaskRuns(r)
        <3>1. \/ lock # None /\ task'[r] = "refused" /\ lock' = lock
              \/ lock = None /\ task'[r] = "building" /\ lock' = r
            BY <2>4 DEF TaskRuns
        <3>2. UNCHANGED <<last, owed, hurt>>
            BY <2>4 DEF TaskRuns
        <3>3. lock # None => lock # r /\ task[lock] = "building"
            BY <2>1, <2>4 DEF OneBuild, TaskRuns
        <3>4. OneBuild'
            BY <2>2, <3>1, <3>3, ConverterAssumption DEF OneBuild
        <3>5. \E q \in Reqs : task'[q] = "building"
            BY <2>2, <3>1, <3>3
        <3>6. DoneIsSeen'
            BY <2>1, <2>2, <3>1, <3>2 DEF DoneIsSeen
        <3> QED
            BY <2>3, <3>4, <3>5, <3>6 DEF SomebodyPays
    <2>5. CASE BuildEnds(r) \/ BuildRaises(r)
        <3>1. lock = r /\ lock' = None /\ task'[r] \in {"done", "raised"}
            BY <2>5 DEF OneBuild, BuildEnds, BuildRaises
        <3>2. OneBuild'
            BY <2>2, <3>1, ConverterAssumption DEF OneBuild
        <3>3. \/ hurt' = TRUE /\ last' = last /\ task'[r] = "raised"
              \/ owed' = {} /\ last' = r
            BY <2>5 DEF BuildEnds, BuildRaises
        <3>4. SomebodyPays' /\ DoneIsSeen'
            BY <2>1, <2>2, <3>3, ConverterAssumption DEF SomebodyPays, DoneIsSeen
        <3> QED
            BY <2>3, <3>2, <3>4
    <2> QED
        BY <1>5, <2>4, <2>5 DEF Build
<1>6. CASE Exits
    BY <1>6, TheOthersLeaveBuilds DEF Exits, Alone, given
<1>7. CASE Crash
    <2>1. /\ lock' = None /\ crashes' = crashes + 1 /\ crashes \in Nat /\ owed' = owed
          /\ hurt' = (hurt \/ task' # task)
          /\ task' = [r \in Reqs |->
                        IF task[r] \in {"queued", "building"} THEN "lost" ELSE task[r]]
          /\ pc' = [r \in Reqs |-> IF pc[r] \in Ended \cup {"new"} THEN pc[r] ELSE "lost"]
        BY <1>7, ConverterAssumption DEF Crash, TypeOK, BuildsOK
    <2>2. \A r \in Reqs : task'[r] \notin {"queued", "building"}
        BY <2>1
    <2>3. OneBuild'
        BY <2>1, <2>2, ConverterAssumption DEF OneBuild
    <2>4. NoTaskYet'
        BY <2>1 DEF NoTaskYet, Ended
    <2>5. DoneIsSeen'
        BY <2>1 DEF DoneIsSeen
    <2>6. SomebodyPays'
        <3> SUFFICES ASSUME ~hurt', owed' # {} PROVE FALSE
            BY DEF SomebodyPays
        <3>1. ~hurt /\ task' = task /\ owed # {}
            BY <2>1
        <3> QED
            BY <3>1, <2>2 DEF SomebodyPays
    <2> QED
        BY <2>3, <2>4, <2>5, <2>6
<1>8. CASE UNCHANGED vars
    BY <1>8, TheOthersLeaveBuilds DEF vars, given
<1> QED
    BY <1>2, <1>3, <1>4, <1>5, <1>6, <1>7, <1>8 DEF Next

(* What the builds keep: one holds the lock, and every accepted one is paid *)
(* for as long as nothing goes wrong.                                       *)
THEOREM BuildInvariance == Spec => []BuildInv
<1>1. Init => BuildInv
    <2> SUFFICES ASSUME Init PROVE BuildInv
        OBVIOUS
    <2>1. lock = None /\ owed = {} /\ \A r \in Reqs : task[r] = "none"
        BY DEF Init
    <2> QED
        BY <2>1, ConverterAssumption
        DEF BuildInv, OneBuild, NoTaskYet, SomebodyPays, DoneIsSeen
<1>2. TypeOK /\ BuildInv /\ [Next]_vars => BuildInv'
    BY BuildStep
<1> QED
    BY <1>1, <1>2, TypeCorrect, PTL DEF Spec

(* One build of this server runs at a time, and it holds the lock.          *)
THEOREM BuildsAreSerial == Spec => []OneBuild
<1>1. BuildInv => OneBuild
    BY DEF BuildInv
<1> QED
    BY <1>1, BuildInvariance, PTL

(* Once no build waits or runs, every accepted build has been followed by a *)
(* result, unless one has raised or died with the server.                   *)
THEOREM AcceptedAreReported == Spec => []AcceptedIsReported
<1>1. BuildInv => AcceptedIsReported
    BY DEF BuildInv, SomebodyPays, DoneIsSeen, AcceptedIsReported
<1> QED
    BY <1>1, BuildInvariance, PTL

----------------------------------------------------------------------------
(* The container is none that a request before r had anything to do with.   *)
Fresh(r) == box.by # None /\ box.by \notin before[r]

(* What was over when a request began stays so.                             *)
BeforeIsOver == \A r \in Reqs : \A q \in before[r] : Over(q)

(* A stop runs two commands and no other.                                   *)
StopsAreStops ==
    \A r \in Reqs : ask[r] = "stop" => pc[r] \in {"new", "rm", "down"} \cup Ended

(* The stop r has removed the container, and goes on as one that has.       *)
Emptied(r) ==
    \/ pc[r] = "rm" /\ cli[r].out \in {"ok", "missing"}
    \/ pc[r] = "down" /\ r \notin bad
    \/ pc[r] = "ok"

EmptiedIsFresh ==
    \A r \in Reqs : ask[r] = "stop" /\ Emptied(r) => (box.state # "none" => Fresh(r))

(* The start r was told that nothing runs, and is about to remove it.       *)
Told(r) ==
    \/ cli[r].run = "inspect" /\ cli[r].out \in {"missing", "exited"}
    \/ Pending(r, "rm")

ToldIsFresh ==
    \A r \in Reqs : ask[r] = "start" /\ r \notin blind /\ Told(r) =>
        (box.state = "running" => Fresh(r))

BoxInv == BeforeIsOver /\ StopsAreStops /\ EmptiedIsFresh /\ ToldIsFresh

(* A request moves while it is not over, and it alone.                      *)
LEMMA OthersRest ==
    ASSUME TypeOK, NEW r \in Reqs, NEW q \in Reqs, q # r,
           \/ Begin(r) \/ Handler(r) \/ Docker(r) \/ Logs(r) \/ Leaves(r) \/ LineForNobody(r)
           \/ Build(r)
    PROVE  /\ pc'[q] = pc[q] /\ cli'[q] = cli[q] /\ before'[q] = before[q]
           /\ (q \in bad' <=> q \in bad) /\ (q \in blind' <=> q \in blind)
<1> USE DEF TypeOK, CallsOK, GivenOK
<1>1. CASE Begin(r)
    BY <1>1 DEF Begin, Launch
<1>2. CASE Handler(r)
    <2>1. \/ \E outcome : Answer(r, outcome)
          \/ \E command : Launch(r, command)
        BY <1>2 DEF Handler, Checked, Inspected, Removed, Ran, Downed, StreamEnds, GoOn, Accept
    <2>2. /\ before' = before /\ bad' \in {bad, bad \cup {r}} /\ blind' \in {blind, blind \cup {r}}
        BY <1>2 DEF Handler, Checked, Inspected, Removed, Ran, Downed, StreamEnds
    <2> QED
        BY <2>1, <2>2 DEF Launch, Answer
<1>3. CASE Docker(r) \/ Logs(r)
    <2>1. UNCHANGED <<pc, bad, before, blind>> /\ \E out : Says(r, out)
        BY <1>3 DEF Docker, Inspects, Removes, Creates, Starts, Downs, Logs, Attaches, Detaches, Alone
    <2> QED
        BY <2>1 DEF Says
<1>4. CASE Leaves(r) \/ LineForNobody(r)
    BY <1>4 DEF Leaves, LineForNobody, Answer, docker
<1>5. CASE Build(r)
    BY <1>5 DEF Build, TaskRuns, BuildEnds, BuildRaises, docker
<1> QED
    BY <1>1, <1>2, <1>3, <1>4, <1>5

(* A request that is over is over for good.                                 *)
LEMMA OverForGood ==
    ASSUME TypeOK, [Next]_vars, NEW q \in Reqs, Over(q)
    PROVE  Over(q)'
<1>1. ASSUME NEW r \in Reqs,
             \/ Begin(r) \/ Handler(r) \/ Docker(r) \/ Logs(r) \/ Leaves(r)
             \/ LineForNobody(r) \/ Build(r)
      PROVE  Over(q)'
    <2>1. CASE q # r
        BY <1>1, <2>1, OthersRest DEF Over
    <2>2. CASE q = r
        <3>1. ~Begin(r) /\ ~Handler(r) /\ ~Leaves(r) /\ ~LineForNobody(r)
            BY <2>2 DEF Over, Begin, Handler, Checked, Inspected, Removed, Ran, Downed, StreamEnds,
                        Leaves, LineForNobody, Ended
        <3>2. ~Docker(r) /\ ~Logs(r)
            BY <2>2, ConverterAssumption
            DEF Over, Docker, Inspects, Removes, Creates, Starts, Downs, Logs, Attaches, Detaches,
                Pending, Commands, Final, Half
        <3>3. UNCHANGED <<pc, cli>>
            BY <1>1, <3>1, <3>2 DEF Build, TaskRuns, BuildEnds, BuildRaises, docker
        <3> QED
            BY <3>3 DEF Over
    <2> QED
        BY <2>1, <2>2
<1>2. CASE Exits
    BY <1>2 DEF Exits, Alone, Over
<1>3. CASE Crash
    BY <1>3 DEF Crash, docker, Over, TypeOK, CallsOK
<1>4. CASE UNCHANGED vars
    BY <1>4 DEF vars, docker, Over
<1> QED
    BY <1>1, <1>2, <1>3, <1>4 DEF Next

(* A container that was not there before, or that runs now and did not, is  *)
(* that of a request that is not over.                                      *)
LEMMA NewBoxes ==
    ASSUME TypeOK, [Next]_vars
    PROVE  /\ \/ box'.state = "none"
              \/ box'.by = box.by /\ box.state # "none"
              \/ box'.by \in Reqs /\ ~Over(box'.by)
           /\ \/ box'.state # "running"
              \/ box' = box
              \/ box'.by \in Reqs /\ ~Over(box'.by)
<1> USE DEF TypeOK, BoxOK
<1>1. ASSUME NEW r \in Reqs, Creates(r), box' # box
      PROVE  box'.by = r /\ box'.state = "created" /\ ~Over(r)
    BY <1>1, ConverterAssumption DEF Creates, Pending, Over, Final, Commands
<1>2. ASSUME NEW r \in Reqs, Starts(r), box' # box
      PROVE  box'.by = r /\ box.by = r /\ box.state = "created" /\ ~Over(r)
    BY <1>2, ConverterAssumption DEF Starts, Over, Final, Half, Commands
<1>3. ASSUME NEW r \in Reqs, Docker(r), ~Creates(r), ~Starts(r)
      PROVE  box' = box \/ box'.state = "none"
    BY <1>3 DEF Docker, Inspects, Removes, Downs, NoBox
<1>4. Exits => box'.state = "exited" /\ box'.by = box.by /\ box.state # "none"
    BY DEF Exits
<1>5. Crash \/ UNCHANGED vars => box' = box
    BY DEF Crash, docker, vars
<1>6. ASSUME NEW r \in Reqs,
             Begin(r) \/ Handler(r) \/ Logs(r) \/ Leaves(r) \/ LineForNobody(r) \/ Build(r)
      PROVE  box' = box
    BY <1>6 DEF Begin, Handler, Checked, Inspected, Removed, Ran, Downed, StreamEnds, Logs, Attaches,
                Detaches, Leaves, LineForNobody, Build, TaskRuns, BuildEnds, BuildRaises, docker
<1>7. \/ box' = box \/ box'.state = "none"
      \/ box'.state = "exited" /\ box'.by = box.by /\ box.state # "none"
      \/ \E r \in Reqs : /\ box'.by = r /\ ~Over(r)
                         /\ \/ box'.state = "created"
                            \/ box.by = r /\ box.state = "created"
    BY <1>1, <1>2, <1>3, <1>4, <1>5, <1>6 DEF Next, Docker
<1> QED
    BY <1>7

(* So what is fresh for a request stays fresh.                              *)
LEMMA FreshStays ==
    ASSUME TypeOK, BeforeIsOver, [Next]_vars, NEW r \in Reqs, before'[r] = before[r]
    PROVE  /\ (box.state # "none" => Fresh(r)) => (box'.state # "none" => Fresh(r)')
           /\ (box.state = "running" => Fresh(r)) => (box'.state = "running" => Fresh(r)')
<1>1. ASSUME box'.by \in Reqs, ~Over(box'.by) PROVE Fresh(r)'
    BY <1>1, ConverterAssumption DEF Fresh, BeforeIsOver
<1>2. box'.by = box.by => (Fresh(r) => Fresh(r)')
    BY DEF Fresh
<1> QED
    BY <1>1, <1>2, NewBoxes

(* A stop is at a place where the container has gone because it was there   *)
(* before, or because docker removes the container now.                     *)
LEMMA NewlyEmptied ==
    ASSUME TypeOK, BoxInv, [Next]_vars, NEW q \in Reqs, ask[q] = "stop", Emptied(q)'
    PROVE  \/ Emptied(q) /\ before'[q] = before[q]
           \/ box'.state = "none"
<1> USE DEF TypeOK, CallsOK, GivenOK
<1>1. ASSUME NEW r \in Reqs,
             \/ Begin(r) \/ Handler(r) \/ Docker(r) \/ Logs(r) \/ Leaves(r)
             \/ LineForNobody(r) \/ Build(r)
      PROVE  \/ Emptied(q) /\ before'[q] = before[q]
           \/ box'.state = "none"
    <2>1. CASE q # r
        BY <1>1, <2>1, OthersRest DEF Emptied
    <2>2. CASE q = r
        <3>1. pc[q] \in {"new", "rm", "down"} \cup Ended
            BY DEF BoxInv, StopsAreStops
        <3>2. ~Begin(r)
            <4> SUFFICES ASSUME Begin(r) PROVE FALSE
                OBVIOUS
            <4>1. pc'[q] = "rm" /\ cli'[q].out = None
                BY <2>2 DEF Begin, Launch
            <4> QED
                BY <4>1, ConverterAssumption DEF Emptied, Final
        <3>3. CASE Handler(r)
            <4>1. CASE Removed(r)
                <5>1. pc[q] = "rm" /\ pc'[q] = "down" /\ q \notin bad' /\ before' = before
                    BY <2>2, <4>1 DEF Removed, Launch, Emptied
                <5>2. cli[q].run = "rm"
                    BY <5>1 DEF Commands
                <5>3. PICK heard \in Heard(r) : bad' = IF heard \in {"ok", "missing"} THEN bad
                                                      ELSE bad \cup {r}
                    BY <4>1 DEF Removed
                <5>4. heard \in {"ok", "missing"}
                    BY <2>2, <5>1, <5>3
                <5>5. cli[q].out \in {"ok", "missing"}
                    BY <2>2, <5>2, <5>4 DEF Heard
                <5> QED
                    BY <5>1, <5>5 DEF Emptied
            <4>2. CASE Downed(r)
                <5>1. pc[q] = "down" /\ before' = before /\ pc'[q] \in {"ok", "failed"}
                      /\ (pc'[q] = "ok" => q \notin bad)
                    BY <2>2, <4>2 DEF Downed, Answer
                <5> QED
                    BY <5>1 DEF Emptied
            <4>3. ~Checked(r) /\ ~Inspected(r) /\ ~Ran(r) /\ ~StreamEnds(r)
                BY <2>2, <3>1 DEF Checked, Inspected, Ran, StreamEnds, Ended
            <4> QED
                BY <3>3, <4>1, <4>2, <4>3 DEF Handler
        <3>4. CASE Docker(r)
            <4>1. UNCHANGED <<pc, bad, before>>
                BY <3>4 DEF Docker, Inspects, Removes, Creates, Starts, Downs, Alone
            <4>2. CASE pc[q] = "rm"
                <5>1. cli[q].run = "rm"
                    BY <4>2 DEF Commands
                <5>2. Removes(r)
                    BY <2>2, <3>4, <5>1 DEF Docker, Inspects, Creates, Starts, Downs, Pending
                <5> QED
                    BY <5>2 DEF Removes, NoBox
            <4>3. CASE pc[q] # "rm"
                BY <4>1, <4>3 DEF Emptied
            <4> QED
                BY <4>2, <4>3
        <3>5. CASE Logs(r)
            <4>1. UNCHANGED <<pc, bad, before>> /\ cli[q].run = "logs"
                BY <2>2, <3>5 DEF Logs, Attaches, Detaches, Alone, Pending
            <4>2. pc[q] # "rm"
                BY <4>1 DEF Commands
            <4> QED
                BY <4>1, <4>2 DEF Emptied
        <3>6. CASE Leaves(r) \/ LineForNobody(r)
            BY <2>2, <3>1, <3>6 DEF Leaves, LineForNobody, Ended
        <3>7. CASE Build(r)
            BY <3>7 DEF Build, TaskRuns, BuildEnds, BuildRaises, docker, Emptied
        <3> QED
            BY <1>1, <3>2, <3>3, <3>4, <3>5, <3>6, <3>7
    <2> QED
        BY <2>1, <2>2
<1>2. CASE Exits
    BY <1>2 DEF Exits, Alone, Emptied
<1>3. CASE Crash
    BY <1>3 DEF Crash, docker, Emptied
<1>4. CASE UNCHANGED vars
    BY <1>4 DEF vars, docker, Emptied
<1> QED
    BY <1>1, <1>2, <1>3, <1>4 DEF Next

(* A start knows that nothing runs because it knew it before, or because    *)
(* docker tells it so now.                                                  *)
LEMMA NewlyTold ==
    ASSUME TypeOK, [Next]_vars, NEW q \in Reqs, ask[q] = "start", q \notin blind', Told(q)'
    PROVE  \/ Told(q) /\ q \notin blind /\ before'[q] = before[q]
           \/ box'.state # "running"
<1> USE DEF TypeOK, CallsOK, GivenOK
<1>1. ASSUME NEW r \in Reqs,
             \/ Begin(r) \/ Handler(r) \/ Docker(r) \/ Logs(r) \/ Leaves(r)
             \/ LineForNobody(r) \/ Build(r)
      PROVE  \/ Told(q) /\ q \notin blind /\ before'[q] = before[q]
             \/ box'.state # "running"
    <2>1. CASE q # r
        BY <1>1, <2>1, OthersRest DEF Told, Pending
    <2>2. CASE q = r
        <3>1. ~Begin(r)
            BY <2>2 DEF Begin, Launch, Told, Pending
        <3>2. CASE Handler(r)
            <4>1. CASE Inspected(r)
                <5>1. PICK heard \in Heard(r) :
                        /\ blind' = IF heard = "failed" THEN blind \cup {r} ELSE blind
                        /\ GoOn(r, State(heard))
                    BY <2>2, <4>1 DEF Inspected
                <5>2. heard # "failed" /\ q \notin blind
                    BY <2>2, <5>1
                <5>3. cli[q].run = "inspect" /\ before' = before
                    BY <2>2, <4>1 DEF Inspected, Commands
                <5>4. cli[q].out = heard /\ heard \in Final
                    BY <2>2, <5>2, <5>3 DEF Heard
                <5>5. State(heard) = "stopped"
                    <6> SUFFICES ASSUME State(heard) # "stopped" PROVE FALSE
                        OBVIOUS
                    <6>1. cli'[q] = Idle
                        BY <2>2, <5>1 DEF GoOn, Answer
                    <6>2. cli'[q].run = None
                        BY <6>1 DEF Idle
                    <6>3. cli'[q].run \in {"inspect", "rm"}
                        BY DEF Told, Pending
                    <6> QED
                        BY <6>2, <6>3, ConverterAssumption DEF Commands
                <5>6. heard \in {"missing", "exited"}
                    BY <5>2, <5>4, <5>5 DEF State, Final
                <5> QED
                    BY <5>2, <5>3, <5>4, <5>6 DEF Told
            <4>2. ASSUME ~Inspected(r) PROVE FALSE
                <5>1. \/ cli'[q] = Idle
                      \/ \E command \in {"inspect", "run", "down"} :
                            cli'[q] = [run |-> command, out |-> None]
                    BY <2>2, <3>2, <4>2
                    DEF Handler, Checked, Removed, Ran, Downed, StreamEnds, Accept, Launch, Answer
                <5> QED
                    BY <5>1, ConverterAssumption DEF Told, Pending, Idle, Commands, Final
            <4> QED
                BY <4>1, <4>2
        <3>3. CASE Docker(r)
            <4>1. UNCHANGED <<before, blind>>
                BY <3>3 DEF Docker, Inspects, Removes, Creates, Starts, Downs, Alone
            <4>2. CASE Inspects(r)
                <5>1. cli'[q] = [run |-> "inspect",
                                 out |-> IF box.state = "none" THEN "missing" ELSE box.state]
                    BY <2>2, <4>2 DEF Inspects, Says, Pending
                <5>2. box.state # "running" /\ box' = box
                    BY <4>2, <5>1 DEF Told, Pending, Inspects
                <5> QED
                    BY <5>2
            <4>3. ASSUME ~Inspects(r) PROVE FALSE
                <5>1. /\ cli[r].run \in {"rm", "run", "down"} /\ cli'[r].run = cli[r].run
                      /\ cli'[r].out \in Final \cup {Half}
                    BY <3>3, <4>3 DEF Docker, Removes, Creates, Starts, Downs, Says, Pending, Final
                <5> QED
                    BY <2>2, <5>1, ConverterAssumption DEF Told, Pending, Final, Half
            <4> QED
                BY <4>2, <4>3
        <3>4. ~Logs(r)
            BY <2>2 DEF Logs, Attaches, Detaches, Says, Pending, Told
        <3>5. CASE Leaves(r) \/ LineForNobody(r)
            <4>1. ~LineForNobody(r)
                BY <2>2, ConverterAssumption DEF LineForNobody, Answer, Idle, Told, Pending, Commands
            <4> QED
                BY <3>5, <4>1 DEF Leaves, docker, Told, Pending
        <3>6. CASE Build(r)
            BY <3>6 DEF Build, TaskRuns, BuildEnds, BuildRaises, docker, Told, Pending
        <3> QED
            BY <1>1, <3>1, <3>2, <3>3, <3>4, <3>5, <3>6
    <2> QED
        BY <2>1, <2>2
<1>2. CASE Exits
    BY <1>2 DEF Exits, Alone, Told, Pending
<1>3. CASE Crash
    BY <1>3 DEF Crash, docker, Told, Pending
<1>4. CASE UNCHANGED vars
    BY <1>4 DEF vars, docker, Told, Pending
<1> QED
    BY <1>1, <1>2, <1>3, <1>4 DEF Next

LEMMA BoxStep == TypeOK /\ BoxInv /\ [Next]_vars => BoxInv'
<1> SUFFICES ASSUME TypeOK, BoxInv, [Next]_vars PROVE BoxInv'
    OBVIOUS
<1>1. UNCHANGED ask
    BY DEF Next, Begin, Handler, Checked, Inspected, Removed, Ran, Downed, StreamEnds, Docker,
           Inspects, Removes, Creates, Starts, Downs, Logs, Attaches, Detaches, Leaves,
           LineForNobody, Build, TaskRuns, BuildEnds, BuildRaises, Exits, Crash, Alone, given, vars
<1>2. BeforeIsOver'
    <2>1. before' = before \/ \E r \in Reqs : before' = [before EXCEPT ![r] = {q \in Reqs : Over(q)}]
        BY DEF Next, Begin, Handler, Checked, Inspected, Removed, Ran, Downed, StreamEnds, Docker,
               Inspects, Removes, Creates, Starts, Downs, Logs, Attaches, Detaches, Leaves,
               LineForNobody, Build, TaskRuns, BuildEnds, BuildRaises, Exits, Crash, Alone, given, vars
    <2>2. \A r \in Reqs : before'[r] = before[r] \/ before'[r] = {q \in Reqs : Over(q)}
        BY <2>1 DEF TypeOK, GivenOK
    <2>3. \A r \in Reqs : \A q \in before'[r] : q \in Reqs /\ Over(q)
        BY <2>2 DEF BoxInv, BeforeIsOver, TypeOK, GivenOK
    <2> QED
        BY <2>3, OverForGood DEF BeforeIsOver
<1>3. StopsAreStops'
    <2> SUFFICES ASSUME NEW q \in Reqs, ask[q] = "stop"
                 PROVE  pc'[q] \in {"new", "rm", "down"} \cup Ended
        BY <1>1 DEF StopsAreStops
    <2>1. pc[q] \in {"new", "rm", "down"} \cup Ended
        BY DEF BoxInv, StopsAreStops
    <2> USE DEF TypeOK, CallsOK, Ended
    <2>2. ASSUME NEW r \in Reqs,
                 \/ Begin(r) \/ Handler(r) \/ Docker(r) \/ Logs(r) \/ Leaves(r)
                 \/ LineForNobody(r) \/ Build(r)
          PROVE  pc'[q] \in {"new", "rm", "down"} \cup Ended
        <3>1. CASE q # r
            BY <2>1, <2>2, <3>1, OthersRest
        <3>2. CASE q = r
            <4>1. CASE Begin(r)
                BY <3>2, <4>1 DEF Begin, Launch
            <4>2. CASE Handler(r)
                BY <2>1, <3>2, <4>2
                DEF Handler, Checked, Inspected, Removed, Ran, Downed, StreamEnds, Launch, Answer
            <4>3. CASE ~Begin(r) /\ ~Handler(r)
                BY <2>1, <2>2, <4>3
                DEF Docker, Inspects, Removes, Creates, Starts, Downs, Logs, Attaches, Detaches,
                    Leaves, LineForNobody, Build, TaskRuns, BuildEnds, BuildRaises, Alone, Answer
            <4> QED
                BY <4>1, <4>2, <4>3
        <3> QED
            BY <3>1, <3>2
    <2>3. Exits \/ UNCHANGED vars => pc' = pc
        BY DEF Exits, Alone, vars
    <2>4. Crash => pc'[q] \in {pc[q], "lost"}
        BY DEF Crash
    <2> QED
        BY <2>1, <2>2, <2>3, <2>4 DEF Next
<1>4. EmptiedIsFresh'
    <2> SUFFICES ASSUME NEW q \in Reqs, ask[q] = "stop", Emptied(q)'
                 PROVE  box'.state # "none" => Fresh(q)'
        BY <1>1 DEF EmptiedIsFresh
    <2>1. CASE Emptied(q) /\ before'[q] = before[q]
        <3>1. box.state # "none" => Fresh(q)
            BY <2>1 DEF BoxInv, EmptiedIsFresh
        <3> QED
            BY <2>1, <3>1, FreshStays DEF BoxInv
    <2>2. CASE box'.state = "none"
        BY <2>2
    <2> QED
        BY <2>1, <2>2, NewlyEmptied
<1>5. ToldIsFresh'
    <2> SUFFICES ASSUME NEW q \in Reqs, ask[q] = "start", q \notin blind', Told(q)'
                 PROVE  box'.state = "running" => Fresh(q)'
        BY <1>1 DEF ToldIsFresh
    <2>1. CASE Told(q) /\ q \notin blind /\ before'[q] = before[q]
        <3>1. box.state = "running" => Fresh(q)
            BY <2>1 DEF BoxInv, ToldIsFresh
        <3> QED
            BY <2>1, <3>1, FreshStays DEF BoxInv
    <2>2. CASE box'.state # "running"
        BY <2>2
    <2> QED
        BY <2>1, <2>2, NewlyTold
<1> QED
    BY <1>2, <1>3, <1>4, <1>5 DEF BoxInv

(* What the stops and the starts know of the container.                     *)
THEOREM BoxInvariance == Spec => []BoxInv
<1>1. Init => BoxInv
    <2> SUFFICES ASSUME Init PROVE BoxInv
        OBVIOUS
    <2>1. \A r \in Reqs : pc[r] = "new" /\ cli[r].run = None /\ before[r] = {}
        BY DEF Init, Idle
    <2>2. \A r \in Reqs : ~Emptied(r) /\ ~Told(r)
        BY <2>1, ConverterAssumption DEF Emptied, Told, Pending, Commands
    <2> QED
        BY <2>1, <2>2 DEF BoxInv, BeforeIsOver, StopsAreStops, EmptiedIsFresh, ToldIsFresh
<1>2. TypeOK /\ BoxInv /\ [Next]_vars => BoxInv'
    BY BoxStep
<1> QED
    BY <1>1, <1>2, TypeCorrect, PTL DEF Spec

(* A container that outlives a stop answered with success was created by a  *)
(* start that was not over when the stop began.                             *)
THEOREM StopsEmpty == Spec => []StoppedIsGone
<1>1. BoxInv => StoppedIsGone
    BY DEF BoxInv, EmptiedIsFresh, Emptied, Fresh, StoppedIsGone
<1> QED
    BY <1>1, BoxInvariance, PTL

(* A start removes a container that runs only when docker did not tell it   *)
(* of the container, or when another start created it meanwhile.            *)
THEOREM StartsSpare == Spec => StartSparesTheRunning
<1> DEFINE Spares ==
      \A r \in Reqs :
         box.state = "running" /\ ask[r] = "start" /\ Pending(r, "rm") /\ cli'[r].out = "ok"
         => r \in blind \/ (box.by # None /\ box.by \notin before[r])
<1>1. BoxInv => [Spares]_vars
    BY DEF BoxInv, ToldIsFresh, Told, Fresh
<1>2. StartSparesTheRunning <=> [][Spares]_vars
    BY DEF StartSparesTheRunning
<1> HIDE DEF Spares
<1> QED
    BY <1>1, <1>2, BoxInvariance, PTL

----------------------------------------------------------------------------
(* Another start or stop that may have had the container after r began.     *)
Rival(r, q) ==
    q # r /\ ask[q] \in {"start", "stop"} /\ pc[q] # "new" /\ q \notin before[r]
Rivalled(r) == \E q \in Reqs : Rival(r, q)

(* Who removes a container, and where a start can be.                       *)
CommandsFit ==
    \A r \in Reqs :
        /\ cli[r].run \in {"rm", "down"} => ask[r] \in {"start", "stop"}
        /\ ask[r] = "start" => pc[r] \in {"new", "info", "inspect", "rm", "run"} \cup Ended

(* The container that the start r has created stands, as far as r has come. *)
Stands(r) ==
    /\ cli[r] = [run |-> "run", out |-> Half] =>
          box = [state |-> "created", by |-> r] \/ Rivalled(r)
    /\ pc[r] = "ok" \/ cli[r] = [run |-> "run", out |-> "ok"] =>
          (box.by = r /\ box.state \in {"running", "exited"}) \/ Rivalled(r)

StartsStand == \A r \in Reqs : ask[r] = "start" => Stands(r)

StartInv == CommandsFit /\ StartsStand

LEMMA AskedForGood == [Next]_vars => UNCHANGED ask
BY DEF Next, Begin, Handler, Checked, Inspected, Removed, Ran, Downed, StreamEnds, Docker,
       Inspects, Removes, Creates, Starts, Downs, Logs, Attaches, Detaches, Leaves,
       LineForNobody, Build, TaskRuns, BuildEnds, BuildRaises, Exits, Crash, Alone, given, vars

(* The commands that a request launches are those of what it asks for.      *)
LEMMA FitStep == TypeOK /\ CommandsFit /\ [Next]_vars => CommandsFit'
<1> SUFFICES ASSUME TypeOK, CommandsFit, [Next]_vars, NEW q \in Reqs
             PROVE  /\ cli'[q].run \in {"rm", "down"} => ask[q] \in {"start", "stop"}
                    /\ ask[q] = "start" =>
                          pc'[q] \in {"new", "info", "inspect", "rm", "run"} \cup Ended
    BY AskedForGood DEF CommandsFit
<1> DEFINE Fits == /\ cli'[q].run \in {"rm", "down"} => ask[q] \in {"start", "stop"}
                   /\ ask[q] = "start" =>
                        pc'[q] \in {"new", "info", "inspect", "rm", "run"} \cup Ended
<1> USE DEF TypeOK, CallsOK, CommandsFit, Ended
<1>1. ASSUME NEW r \in Reqs,
             \/ Begin(r) \/ Handler(r) \/ Docker(r) \/ Logs(r) \/ Leaves(r)
             \/ LineForNobody(r) \/ Build(r)
      PROVE  Fits
    <2>1. CASE q # r
        BY <1>1, <2>1, OthersRest
    <2>2. CASE q = r
        <3>1. CASE Begin(r)
            BY <2>2, <3>1 DEF Begin, Launch
        <3>2. CASE Checked(r) \/ Inspected(r)
            <4>1. \/ cli'[q] = Idle /\ pc'[q] \in Ended
                  \/ cli'[q].run = "inspect" /\ pc'[q] = "inspect"
                  \/ ask[q] = "start" /\ pc'[q] = "rm"
                  \/ ask[q] = "logs" /\ cli'[q].run = "logs"
                BY <2>2, <3>2 DEF Checked, Inspected, GoOn, Accept, Launch, Answer
            <4> QED
                BY <4>1, ConverterAssumption DEF Idle, Commands
        <3>3. CASE Removed(r)
            <4>1. cli[q].run = "rm"
                BY <2>2, <3>3 DEF Removed, Commands
            <4>2. \/ ask[q] = "start" /\ pc'[q] = "run"
                  \/ ask[q] # "start" /\ pc'[q] = "down"
                BY <2>2, <3>3 DEF Removed, Launch
            <4> QED
                BY <4>1, <4>2
        <3>4. CASE Ran(r) \/ Downed(r) \/ StreamEnds(r) \/ LineForNobody(r)
            <4>1. cli'[q] = Idle /\ pc'[q] \in Ended
                BY <2>2, <3>4 DEF Ran, Downed, StreamEnds, LineForNobody, Answer
            <4> QED
                BY <4>1, ConverterAssumption DEF Idle, Commands
        <3>5. CASE Docker(r) \/ Logs(r)
            <4>1. pc' = pc /\ cli'[q].run = cli[q].run
                BY <3>5 DEF Docker, Inspects, Removes, Creates, Starts, Downs, Logs, Attaches,
                            Detaches, Alone, Says
            <4> QED
                BY <4>1
        <3>6. CASE Leaves(r) \/ Build(r)
            BY <3>6 DEF Leaves, Build, TaskRuns, BuildEnds, BuildRaises, docker
        <3> QED
            BY <1>1, <3>1, <3>2, <3>3, <3>4, <3>5, <3>6 DEF Handler
    <2> QED
        BY <2>1, <2>2
<1>2. CASE Exits \/ UNCHANGED vars
    BY <1>2 DEF Exits, Alone, vars, docker
<1>3. CASE Crash
    <2>1. cli' = cli /\ pc'[q] \in {pc[q], "lost"}
        BY <1>3 DEF Crash, docker
    <2> QED
        BY <2>1
<1> QED
    BY <1>1, <1>2, <1>3 DEF Next

(* Once there is a rival there is one for good.                             *)
LEMMA RivalsStay ==
    ASSUME TypeOK, [Next]_vars, NEW r \in Reqs, Rivalled(r), before'[r] = before[r]
    PROVE  Rivalled(r)'
<1>1. PICK q \in Reqs : Rival(r, q)
    BY DEF Rivalled
<1>2. pc'[q] # "new"
    <2> USE DEF TypeOK, CallsOK, Ended, Commands
    <2>1. ASSUME NEW p \in Reqs,
                 \/ Begin(p) \/ Handler(p) \/ Docker(p) \/ Logs(p) \/ Leaves(p)
                 \/ LineForNobody(p) \/ Build(p)
          PROVE  pc'[q] # "new"
        <3>1. pc' = pc \/ \E where : where # "new" /\ pc' = [pc EXCEPT ![p] = where]
            <4>1. CASE Begin(p) \/ LineForNobody(p)
                BY <4>1 DEF Begin, LineForNobody, Launch, Answer
            <4>2. CASE Handler(p)
                BY <4>2 DEF Handler, Checked, Inspected, Removed, Ran, Downed, StreamEnds,
                            GoOn, Accept, Launch, Answer
            <4>3. CASE ~Begin(p) /\ ~LineForNobody(p) /\ ~Handler(p)
                BY <2>1, <4>3 DEF Docker, Inspects, Removes, Creates, Starts, Downs, Logs, Attaches,
                                  Detaches, Leaves, Alone, Build, TaskRuns, BuildEnds, BuildRaises
            <4> QED
                BY <4>1, <4>2, <4>3
        <3> QED
            BY <1>1, <3>1 DEF Rival
    <2>2. Exits \/ UNCHANGED vars => pc' = pc
        BY DEF Exits, Alone, vars
    <2>3. Crash => pc'[q] \in {pc[q], "lost"}
        BY DEF Crash
    <2> QED
        BY <1>1, <2>1, <2>2, <2>3 DEF Next, Rival
<1> QED
    BY <1>1, <1>2, AskedForGood DEF Rivalled, Rival

(* What happens to the container of r, which has its name for itself: it    *)
(* is started, it ends, or a rival removes it.                              *)
LEMMA OwnBox ==
    ASSUME TypeOK, BoxInv, CommandsFit, [Next]_vars, NEW r \in Reqs,
           box.by = r, box.state # "none", cli[r].run \notin {"rm", "down"}
    PROVE  \/ box' = box
           \/ box.state = "running" /\ box' = [state |-> "exited", by |-> r]
           \/ Starts(r)
           \/ Rivalled(r)
<1>1. ASSUME NEW q \in Reqs, Removes(q) \/ Downs(q) PROVE Rivalled(r)
    <2>1. cli[q].run \in {"rm", "down"} /\ cli[q].out = None
        BY <1>1 DEF Removes, Downs, Pending
    <2>2. q # r /\ ask[q] \in {"start", "stop"}
        BY <2>1 DEF CommandsFit
    <2>3. cli[q].run # None /\ None \notin Final
        BY <2>1, ConverterAssumption DEF Commands
    <2>4. pc[q] # "new" /\ ~Over(q)
        BY <2>1, <2>3 DEF TypeOK, CallsOK, Idle, Over
    <2>5. q \notin before[r]
        BY <2>4 DEF BoxInv, BeforeIsOver
    <2> QED
        BY <2>2, <2>4, <2>5 DEF Rivalled, Rival
<1>2. ASSUME NEW q \in Reqs, Creates(q) PROVE box' = box
    BY <1>2 DEF Creates
<1>3. ASSUME NEW q \in Reqs, Starts(q), q # r PROVE box' = box
    BY <1>3 DEF Starts
<1>4. ASSUME NEW q \in Reqs,
             \/ Inspects(q) \/ Begin(q) \/ Handler(q) \/ Logs(q) \/ Leaves(q) \/ LineForNobody(q)
             \/ Build(q)
      PROVE  box' = box
    BY <1>4 DEF Inspects, Begin, Handler, Checked, Inspected, Removed, Ran, Downed, StreamEnds, Logs,
                Attaches, Detaches, Leaves, LineForNobody, Build, TaskRuns, BuildEnds, BuildRaises,
                docker
<1>5. CASE Exits
    BY <1>5 DEF Exits
<1>6. Crash \/ UNCHANGED vars => box' = box
    BY DEF Crash, docker, vars
<1> QED
    BY <1>1, <1>2, <1>3, <1>4, <1>5, <1>6 DEF Next, Docker

(* The start r gets on only by a command of its own.                        *)
LEMMA StandStep ==
    ASSUME TypeOK, BoxInv, StartInv, [Next]_vars, NEW r \in Reqs, ask[r] = "start"
    PROVE  Stands(r)'
<1> USE DEF TypeOK, CallsOK, BoxOK, GivenOK
<1> DEFINE half == [run |-> "run", out |-> Half]
           done == [run |-> "run", out |-> "ok"]
           mine == [state |-> "created", by |-> r]
<1>1. half # done /\ Idle # half /\ Idle # done
    BY ConverterAssumption DEF Half, Idle, Commands
<1>2. Stands(r)
    BY DEF StartInv, StartsStand
<1>3. ASSUME cli[r] \in {half, done} \/ pc[r] = "ok", before'[r] = before[r],
             cli'[r] = cli[r] \/ (cli[r] = done /\ cli'[r] = Idle),
             pc'[r] \in {pc[r], "lost"} \/ (cli[r] = done /\ pc'[r] \in Ended), ~Starts(r)
      PROVE  Stands(r)'
    <2>1. CASE Rivalled(r)
        BY <1>3, <2>1, RivalsStay DEF Stands
    <2>2. CASE ~Rivalled(r)
        <3>1. box.by = r /\ box.state # "none"
            BY <1>2, <1>3, <2>2 DEF Stands
        <3>2. cli[r].run \notin {"rm", "down"}
            <4>1. pc[r] = "ok" => cli[r] = Idle
                BY DEF Ended
            <4> QED
                BY <1>3, <4>1, ConverterAssumption DEF Idle, Commands
        <3>3. \/ box' = box
              \/ box.state = "running" /\ box' = [state |-> "exited", by |-> r]
            BY <1>3, <2>2, <3>1, <3>2, OwnBox DEF StartInv
        <3>4. cli'[r] = half => cli[r] = half
            BY <1>1, <1>3
        <3>5. pc'[r] = "ok" \/ cli'[r] = done => pc[r] = "ok" \/ cli[r] = done
            BY <1>1, <1>3
        <3>6. cli[r] = half => box = mine
            BY <1>2, <2>2 DEF Stands
        <3>7. pc[r] = "ok" \/ cli[r] = done => box.by = r /\ box.state \in {"running", "exited"}
            BY <1>2, <2>2 DEF Stands
        <3>8. cli'[r] = half => box' = mine
            BY <3>3, <3>4, <3>6
        <3>9. pc'[r] = "ok" \/ cli'[r] = done => box'.by = r /\ box'.state \in {"running", "exited"}
            BY <3>3, <3>5, <3>7
        <3> QED
            BY <3>8, <3>9 DEF Stands
    <2> QED
        BY <2>1, <2>2
<1>4. ASSUME cli'[r] \notin {half, done}, pc'[r] # "ok" PROVE Stands(r)'
    BY <1>4 DEF Stands
<1>5. ASSUME cli'[r] = cli[r], pc'[r] \in {pc[r], "lost"}, before'[r] = before[r], ~Starts(r)
      PROVE  Stands(r)'
    BY <1>3, <1>4, <1>5
<1>6. Starts(r) => cli[r] = half
    BY DEF Starts
<1>7. ASSUME NEW q \in Reqs,
             \/ Begin(q) \/ Handler(q) \/ Docker(q) \/ Logs(q) \/ Leaves(q)
             \/ LineForNobody(q) \/ Build(q)
      PROVE  Stands(r)'
    <2>1. CASE q # r
        <3>1. cli'[r] = cli[r] /\ pc'[r] = pc[r] /\ before'[r] = before[r]
            BY <1>7, <2>1, OthersRest
        <3>2. ~Starts(r)
            BY <1>1, <1>6, <3>1 DEF Starts, Says, Half
        <3> QED
            BY <3>1, <3>2, <1>5
    <2>2. CASE q = r
        <3>1. pc[r] \in {"new", "info", "inspect", "rm", "run"} \cup Ended
            BY DEF StartInv, CommandsFit
        <3>2. CASE Begin(r)
            <4>1. cli'[r].out = None /\ pc'[r] # "ok"
                BY <3>2 DEF Begin, Launch
            <4> QED
                BY <1>4, <4>1, ConverterAssumption DEF Half, Final
        <3>3. CASE Checked(r) \/ Inspected(r) \/ Removed(r)
            <4>1. /\ cli'[r].out = None /\ pc'[r] # "ok"
                BY <3>3 DEF Checked, Inspected, Removed, GoOn, Launch, Answer, Idle
            <4> QED
                BY <1>4, <4>1, ConverterAssumption DEF Half, Final
        <3>4. CASE Ran(r)
            <4>1. PICK heard \in Heard(r) : Answer(r, IF heard = "ok" THEN "ok" ELSE "failed")
                BY <3>4 DEF Ran
            <4>2. cli'[r] = Idle /\ before' = before /\ cli[r].run = "run"
                BY <3>4, <4>1 DEF Ran, Answer, Commands
            <4>3. CASE heard = "ok"
                <5>1. cli[r].out = "ok"
                    BY <4>2, <4>3 DEF Heard
                <5>2. cli[r] = done /\ pc'[r] = "ok"
                    BY <4>1, <4>2, <4>3, <5>1 DEF Answer
                <5>3. ~Starts(r)
                    BY <1>1, <1>6, <5>2
                <5> QED
                    BY <1>3, <4>2, <5>2, <5>3 DEF Ended
            <4>4. CASE heard # "ok"
                BY <1>1, <1>4, <4>1, <4>2, <4>4 DEF Answer
            <4> QED
                BY <4>3, <4>4
        <3>5. ~Downed(r) /\ ~StreamEnds(r) /\ ~LineForNobody(r)
            BY <3>1 DEF Downed, StreamEnds, LineForNobody, Ended
        <3>6. CASE Starts(r)
            <4>1. before' = before /\ pc' = pc /\ cli[r] = half /\ pc[r] # "ok"
                BY <1>1, <3>6 DEF Starts, Alone, Ended
            <4>2. CASE box = mine
                <5>1. cli'[r] = done /\ box' = [state |-> "running", by |-> r]
                    BY <3>6, <4>1, <4>2 DEF Starts, Says
                <5> QED
                    BY <1>1, <5>1 DEF Stands
            <4>3. CASE box # mine
                BY <1>4, <3>6, <4>1, <4>3 DEF Starts, Says, Half
            <4> QED
                BY <4>2, <4>3
        <3>7. CASE Creates(r)
            <4>1. before' = before /\ pc' = pc /\ cli[r].run = "run"
                BY <3>7 DEF Creates, Alone, Pending
            <4>2. pc[r] # "ok"
                BY <4>1, ConverterAssumption DEF Ended, Idle, Commands
            <4>3. \/ cli'[r] = half /\ box' = mine
                  \/ cli'[r] = [run |-> "run", out |-> "failed"]
                BY <3>7, <4>1 DEF Creates, Says
            <4> QED
                BY <1>1, <4>1, <4>2, <4>3 DEF Stands, Half
        <3>8. CASE Inspects(r) \/ Removes(r) \/ Downs(r) \/ Logs(r)
            <4>1. pc' = pc /\ cli'[r].run = cli[r].run /\ cli[r].run \in {"inspect", "rm", "down", "logs"}
                BY <3>8 DEF Inspects, Removes, Downs, Logs, Attaches, Detaches, Alone, Says, Pending
            <4>2. pc[r] # "ok"
                BY <4>1, ConverterAssumption DEF Ended, Idle, Commands
            <4> QED
                BY <1>4, <4>1, <4>2
        <3>9. CASE Leaves(r) \/ Build(r)
            <4>1. UNCHANGED <<pc, cli, before, box>>
                BY <3>9 DEF Leaves, Build, TaskRuns, BuildEnds, BuildRaises, docker
            <4>2. ~Starts(r)
                BY <1>1, <1>6, <4>1 DEF Starts, Says, Half
            <4> QED
                BY <1>5, <4>1, <4>2
        <3> QED
            BY <1>7, <2>2, <3>2, <3>3, <3>4, <3>5, <3>6, <3>7, <3>8, <3>9 DEF Handler, Docker
    <2> QED
        BY <2>1, <2>2
<1>8. CASE Exits \/ Crash \/ UNCHANGED vars
    <2>1. cli' = cli /\ before' = before /\ pc'[r] \in {pc[r], "lost"}
        BY <1>8 DEF Exits, Crash, Alone, vars, docker
    <2>2. ~Starts(r)
        BY <1>1, <1>6, <2>1 DEF Starts, Says, Half
    <2> QED
        BY <1>5, <2>1, <2>2
<1> QED
    BY <1>7, <1>8 DEF Next

(* What becomes of the container of a start.                                *)
THEOREM StartInvariance == Spec => []StartInv
<1>1. Init => StartInv
    <2> SUFFICES ASSUME Init PROVE StartInv
        OBVIOUS
    <2>1. \A r \in Reqs : pc[r] = "new" /\ cli[r] = Idle
        BY DEF Init
    <2> QED
        BY <2>1, ConverterAssumption
        DEF StartInv, CommandsFit, StartsStand, Stands, Idle, Commands
<1>2. TypeOK /\ BoxInv /\ StartInv /\ [Next]_vars => StartInv'
    BY FitStep, StandStep, AskedForGood DEF StartInv, StartsStand
<1> QED
    BY <1>1, <1>2, TypeCorrect, BoxInvariance, PTL DEF Spec

(* The container of a start answered with success is there, running or at   *)
(* its end, if every other start or stop has not begun or was over before.  *)
THEOREM StartedStands == Spec => []StartedIsThere
<1>1. StartInv => StartedIsThere
    BY DEF StartInv, StartsStand, Stands, Rivalled, Rival, StartedIsThere
<1> QED
    BY <1>1, StartInvariance, PTL
=============================================================================
