---------------------------- MODULE AtomicReplace ----------------------------
(***************************************************************************)
(* What an in-place dataset job promises its user.  Every dataset holds    *)
(* one value; a job rewrites the value of its target once, in a single     *)
(* step, and is reported complete only after that step.  A job that is     *)
(* reported failed never took the step.  A restart of the server forgets   *)
(* every job, whether it took the step or not, and touches no dataset.     *)
(***************************************************************************)
CONSTANTS
    Datasets,   \* dataset directories
    Jobs,       \* ids of in-place jobs
    Values,     \* what a complete dataset can hold
    Effect      \* Effect[j][v]: what job j turns the value v into

VARIABLES
    content,    \* content[d]: the value of dataset d
    target,     \* target[j]: the dataset job j is a request for
    phase       \* phase[j]: how far job j is, as its user can tell

vars == <<content, target, phase>>

Phases == {"none", "pending", "applied", "complete", "failed", "lost"}

TypeOK ==
    /\ content \in [Datasets -> Values]
    /\ target \in [Jobs -> Datasets]
    /\ phase \in [Jobs -> Phases]

Init ==
    /\ content \in [Datasets -> Values]
    /\ target \in [Jobs -> Datasets]
    /\ phase = [j \in Jobs |-> "none"]

Submit(j) ==
    /\ phase[j] = "none"
    /\ phase' = [phase EXCEPT ![j] = "pending"]
    /\ UNCHANGED <<content, target>>

Apply(j) ==
    /\ phase[j] = "pending"
    /\ Effect[j][content[target[j]]] \in Values
    /\ content' = [content EXCEPT ![target[j]] = Effect[j][content[target[j]]]]
    /\ phase' = [phase EXCEPT ![j] = "applied"]
    /\ UNCHANGED target

Complete(j) ==
    /\ phase[j] = "applied"
    /\ phase' = [phase EXCEPT ![j] = "complete"]
    /\ UNCHANGED <<content, target>>

Fail(j) ==
    /\ phase[j] = "pending"
    /\ phase' = [phase EXCEPT ![j] = "failed"]
    /\ UNCHANGED <<content, target>>

Restart ==
    /\ phase' = [j \in Jobs |-> IF phase[j] = "none" THEN "none" ELSE "lost"]
    /\ UNCHANGED <<content, target>>

Next ==
    \/ \E j \in Jobs : Submit(j) \/ Apply(j) \/ Complete(j) \/ Fail(j)
    \/ Restart

Spec == Init /\ [][Next]_vars
==============================================================================
