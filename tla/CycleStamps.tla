---------------------------- MODULE CycleStamps ----------------------------
(***************************************************************************)
(* Where a gripper ends a cycle, and the marks this leaves in the data     *)
(* files (backend/datasets/services/cycle_stamp_service.py).  Gripper      *)
(* openings are in tenths: the code's 0.5 is 5 here, its 0.8 is 8.  The    *)
(* files are replaced one by one; a failure half way is InPlaceJobs'       *)
(* business, since the job works on a copy.                                *)
(***************************************************************************)
EXTENDS Engine

CONSTANT Gripper(_)     \* observation.state[7] and [15] of a recorded frame

Closed == 5
Open == 8

(* The automaton over one arm's values; positions count from 1 here.        *)
ArmStep(state, v, at) ==
    CASE state.searching /\ v > Open   -> [searching |-> FALSE, ends |-> state.ends \cup {at}]
      [] ~state.searching /\ v < Closed -> [state EXCEPT !.searching = TRUE]
      [] OTHER -> state

ArmCycleEnds(values) ==
    LET start == [searching |-> values # <<>> /\ values[1] < Closed, ends |-> {}] IN
    FoldLeft(LAMBDA st, at : ArmStep(st, values[at], at), start,
             [at \in DOMAIN values |-> at]).ends

(* states is a sequence of <<left, right>>.                                 *)
CycleEnds(states) ==
    ArmCycleEnds([k \in DOMAIN states |-> states[k][1]])
      \cup ArmCycleEnds([k \in DOMAIN states |-> states[k][2]])

Stamped(d) == \E f \in DOMAIN d.data : d.data[f].stamped

Places(d, f) == [r \in DOMAIN d.data[f].rows |-> [file |-> f, row |-> r]]

AllPlaces(d) ==
    LET names == InOrder(d.data) IN Concat([k \in DOMAIN names |-> Places(d, names[k])])
Labelled(d, x) ==
    LET at == AllPlaces(d) IN
    Kept(at, {k \in DOMAIN at : d.data[at[k].file].rows[at[k].row].episode = x})

(* Mutant: by place only.                                                   *)
EpisodeRowsUnsorted(d, x) == Labelled(d, x)

(* The rows of an episode over all files, by frame and then by place.       *)
EpisodeRows(d, x) ==
    LET at == Labelled(d, x) IN
    SortedBy(at, [k \in DOMAIN at |-> d.data[at[k].file].rows[at[k].row].frame])

(* The places that get is_terminal, and those that get is_last.             *)
Terminals(d, x) ==
    LET rows == EpisodeRows(d, x)
        states == [k \in DOMAIN rows |-> Gripper(d.data[rows[k].file].rows[rows[k].row].of)]
    IN  {rows[k] : k \in CycleEnds(states)}
LastRow(d, x) == Last(EpisodeRows(d, x))

LabelsOf(d) == UNION {{d.data[f].rows[r].episode : r \in DOMAIN d.data[f].rows} : f \in DOMAIN d.data}

(* stamp_dataset_cycles: the columns of an earlier stamp are replaced when  *)
(* it may overwrite, and the call raises when it may not.                   *)
Stampable(d, overwrite) == d.data # NoFiles /\ (Stamped(d) => overwrite)

StampDatasetCycles(d) ==
    LET terminal == UNION {Terminals(d, x) : x \in LabelsOf(d)}
        last == {LastRow(d, x) : x \in LabelsOf(d)}
        mark(f, r) == [d.data[f].rows[r] EXCEPT !.term = [file |-> f, row |-> r] \in terminal,
                                                !.last = [file |-> f, row |-> r] \in last]
    IN  [d EXCEPT !.data = [f \in DOMAIN d.data |->
           [stamped |-> TRUE, rows |-> [r \in DOMAIN d.data[f].rows |-> mark(f, r)]]]]
=============================================================================
