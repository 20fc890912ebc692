--------------------------- MODULE AutoGradeBands ---------------------------
(***************************************************************************)
(* The divergence bands of one joint (compute_bands of                     *)
(* backend/datasets/services/auto_grade_service.py): the frames where the  *)
(* commanded value is far from the observed one, merged into runs.  The    *)
(* values are whole numbers and the ratios are compared without rounding.  *)
(***************************************************************************)
EXTENDS Integers, Sequences, FiniteSets, SequencesExt

CONSTANT MinSevereRun   \* MIN_SEVERE_RUN, 5 in the code

ASSUME AutoGradeBandsAssumption == MinSevereRun \in Nat \ {0}

Distance(x, y) == IF x < y THEN y - x ELSE x - y
Spread(s) == LET v == {s[k] : k \in DOMAIN s} IN Max({0} \cup {p[1] - p[2] : p \in v \X v})
Common(obs, act) == IF Len(obs) < Len(act) THEN Len(obs) ELSE Len(act)
Scale(obs, act) ==
    LET n == Common(obs, act) IN
    Max({Spread(SubSeq(obs, 1, n)), Spread(SubSeq(act, 1, n))})

(* _classify: above 30 and above 15 hundredths of the joint's range.        *)
Level(far, scale) ==
    CASE far > 30 * scale -> "severe"
      [] far > 15 * scale /\ far <= 30 * scale -> "moderate"
      [] OTHER -> "none"

Levels(obs, act) ==
    LET scale == Scale(obs, act) IN
    [i \in 1 .. (IF scale = 0 THEN 0 ELSE Common(obs, act)) |->
       Level(100 * Distance(act[i], obs[i]), scale)]

(* Frame i carries on the last band of bs, or begins one.                   *)
Grow(bs, i, level) ==
    IF bs # <<>> /\ Last(bs).level = level /\ Last(bs).end + 1 = i
    THEN [bs EXCEPT ![Len(bs)].end = i]
    ELSE Append(bs, [start |-> i, end |-> i, level |-> level])

Runs(levels) ==
    FoldLeft(LAMBDA bs, i : IF levels[i] = "none" THEN bs ELSE Grow(bs, i, levels[i]),
             <<>>, [i \in DOMAIN levels |-> i])

Downgraded(b) ==
    IF b.level = "severe" /\ b.end - b.start + 1 < MinSevereRun
    THEN [b EXCEPT !.level = "moderate"] ELSE b

(* Mutant: neighbours are joined whatever lies between them.                *)
JoinedAcross(bs) ==
    FoldLeft(LAMBDA out, b :
               IF out # <<>> /\ Last(out).level = b.level
               THEN [out EXCEPT ![Len(out)].end = b.end] ELSE Append(out, b),
             <<>>, bs)

(* The loop that joins neighbours once short runs have been downgraded.     *)
Joined(bs) ==
    FoldLeft(LAMBDA out, b :
               IF out # <<>> /\ Last(out).level = b.level /\ Last(out).end + 1 = b.start
               THEN [out EXCEPT ![Len(out)].end = b.end] ELSE Append(out, b),
             <<>>, bs)

ComputeBands(obs, act) ==
    LET runs == Runs(Levels(obs, act)) IN
    Joined([k \in DOMAIN runs |-> Downgraded(runs[k])])

(* The frames _episode_severity counts for a joint.                         *)
SevereFrames(obs, act) ==
    FoldLeft(LAMBDA n, b : IF b.level = "severe" THEN n + b.end - b.start + 1 ELSE n,
             0, ComputeBands(obs, act))
=============================================================================
