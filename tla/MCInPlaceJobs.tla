---------------------------- MODULE MCInPlaceJobs ----------------------------
EXTENDS InPlaceJobs, Sequences, SequencesExt

CONSTANTS d1, d2, j1, j2, j3

(* A dataset is its sequence of episodes and whether it carries the cycle   *)
(* columns; e1 and e2 are the episodes there were at first.                 *)
MCValues == [episodes : {<<>>, <<"e1">>, <<"e2">>, <<"e1", "e2">>}, stamped : BOOLEAN]

(* delete_episodes drops the indices it was given; a stamp without          *)
(* overwrite refuses a dataset that is stamped or has no data file.         *)
DeleteFirst(v) == [v EXCEPT !.episodes = IF @ = <<>> THEN @ ELSE Tail(@)]
DeleteLast(v) == [v EXCEPT !.episodes = IF @ = <<>> THEN @ ELSE Front(@)]
Stamp(v) ==
    IF v.stamped \/ v.episodes = <<>> THEN Rejected ELSE [v EXCEPT !.stamped = TRUE]

MCEffect == [j \in Jobs |-> [v \in MCValues |->
    CASE j = j1 -> DeleteFirst(v)
      [] j = j2 -> Stamp(v)
      [] j = j3 -> DeleteLast(v)]]

Full == [episodes |-> <<"e1", "e2">>, stamped |-> FALSE]

(* The datasets are alike, so the first job may have the first one.         *)
MCInit == Init /\ dir = [d \in Datasets |-> Full] /\ target[j1] = d1
MCSpec == MCInit /\ [][Next]_vars
MCFairSpec == MCSpec /\ \A j \in Jobs : WF_vars(Worker(j))
==============================================================================
