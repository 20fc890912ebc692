---------------------------- MODULE EditsProofs -----------------------------
(***************************************************************************)
(* Proofs about Edits for any shelf of faithful datasets, any traces, any  *)
(* number of jobs and episodes: what the folds, the sorts and the checks   *)
(* compute, that types are kept, that verdicts and bands are those meant.  *)
(*                                                                         *)
(* What a fold computes is proved from its trace, the sequence of its      *)
(* values (FoldProofs), by induction in the form of a set of naturals: the *)
(* set of those steps at which a claim holds contains 0 and is closed under*)
(* the next, so it is all of them (Upward, UpTo).                          *)
(***************************************************************************)
EXTENDS Edits, FiniteSetTheorems, FunctionTheorems, SequenceTheorems, WellFoundedInduction, TLAPS

----------------------------------------------------------------------------
(* INDUCTION, ORDERS AND LISTS.                                             *)

ArmFold(values, st, at) == ArmStep(st, values[at], at)
Arms == INSTANCE FoldProofs WITH Step <- ArmFold

(* Induction over the naturals, and up to a bound.                          *)
LEMMA LeastOf ==
    ASSUME NEW T, T \subseteq Nat, T # {}
    PROVE  \E m \in T : \A n \in T : m <= n
<1>1. PICK I : I = {1 .. n : n \in T}
    OBVIOUS
<1>2. I # {} /\ I \subseteq FiniteSubsetsOf(Nat)
    <2>1. \A n \in T : 1 .. n \in FiniteSubsetsOf(Nat)
        BY FS_Interval DEF FiniteSubsetsOf
    <2> QED
        BY <1>1, <2>1
<1>3. PICK x \in I : \A y \in I : ~ (<<y, x>> \in StrictSubsetOrdering(Nat))
    BY <1>2, FS_StrictSubsetOrderingWellFounded, WFMin
<1>4. PICK m \in T : x = 1 .. m
    BY <1>1
<1>5. ASSUME NEW n \in T, n < m PROVE FALSE
    <2>1. 1 .. n \subseteq 1 .. m /\ 1 .. n # 1 .. m
        <3>1. m \in 1 .. m /\ m \notin 1 .. n
            BY <1>5
        <3> QED
            BY <1>5, <3>1
    <2>2. <<1 .. n, 1 .. m>> \in StrictSubsetOrdering(Nat)
        BY <2>1 DEF StrictSubsetOrdering
    <2> QED
        BY <1>1, <1>3, <1>4, <1>5, <2>2
<1> QED
    BY <1>4, <1>5

LEMMA Upward ==
    ASSUME NEW S, 0 \in S, \A n \in S \cap Nat : n + 1 \in S
    PROVE  \A n \in Nat : n \in S
<1> SUFFICES ASSUME NEW n \in Nat, n \notin S PROVE FALSE
    OBVIOUS
<1>1. PICK m \in Nat \ S : \A k \in Nat \ S : m <= k
    <2>1. Nat \ S # {} /\ Nat \ S \subseteq Nat
        OBVIOUS
    <2> QED
        BY <2>1, LeastOf
<1>2. m # 0 /\ m - 1 \in Nat
    BY <1>1
<1>3. m - 1 \in S
    BY <1>1, <1>2
<1>4. m - 1 + 1 = m
    BY <1>1
<1> QED
    BY <1>1, <1>2, <1>3, <1>4

LEMMA UpTo ==
    ASSUME NEW n \in Nat, NEW S, 0 \in S, \A i \in 0 .. n - 1 : i \in S => i + 1 \in S
    PROVE  \A i \in 0 .. n : i \in S
<1>1. PICK T : T = {i \in Nat : i <= n => i \in S}
    OBVIOUS
<1>2. 0 \in T
    BY <1>1
<1>3. \A i \in T \cap Nat : i + 1 \in T
    BY <1>1
<1>4. \A i \in Nat : i \in T
    BY <1>2, <1>3, Upward
<1> QED
    BY <1>1, <1>4

----------------------------------------------------------------------------
(* The order of a finite set.  The elements below x number as many as come  *)
(* before it.                                                               *)
StrictOrder(S, R) ==
    /\ \A x \in S : <<x, x>> \notin R
    /\ \A x, y, z \in S : <<x, y>> \in R /\ <<y, z>> \in R => <<x, z>> \in R
    /\ \A x, y \in S : x # y => <<x, y>> \in R \/ <<y, x>> \in R

Below(S, R, x) == {y \in S : <<y, x>> \in R}

LEMMA RankGrows ==
    ASSUME NEW S, IsFiniteSet(S), NEW R, StrictOrder(S, R), NEW x \in S
    PROVE  /\ Cardinality(Below(S, R, x)) \in 0 .. Cardinality(S) - 1
           /\ \A y \in S : <<y, x>> \in R => Cardinality(Below(S, R, y)) < Cardinality(Below(S, R, x))
<1>1. \A y \in S : Below(S, R, y) \in SUBSET S /\ y \notin Below(S, R, y)
    BY DEF Below, StrictOrder
<1>2. Cardinality(S) \in Nat /\ \A y \in S : /\ IsFiniteSet(Below(S, R, y))
                                             /\ Cardinality(Below(S, R, y)) \in Nat
                                             /\ Cardinality(Below(S, R, y)) <= Cardinality(S)
    BY <1>1, FS_Subset, FS_CardinalityType
<1>3. Cardinality(Below(S, R, x)) # Cardinality(S)
    BY <1>1, FS_Subset
<1>4. ASSUME NEW y \in S, <<y, x>> \in R
      PROVE  Cardinality(Below(S, R, y)) < Cardinality(Below(S, R, x))
    <2>1. Below(S, R, y) \cup {y} \in SUBSET Below(S, R, x)
        BY <1>4 DEF Below, StrictOrder
    <2>2. Cardinality(Below(S, R, y) \cup {y}) = Cardinality(Below(S, R, y)) + 1
        BY <1>1, <1>2, FS_AddElement
    <2>3. Cardinality(Below(S, R, y) \cup {y}) <= Cardinality(Below(S, R, x))
        BY <1>2, <2>1, FS_Subset
    <2> QED
        BY <1>2, <2>2, <2>3
<1> QED
    BY <1>2, <1>3, <1>4

LEMMA RankIsTaken ==
    ASSUME NEW S, IsFiniteSet(S), NEW R, StrictOrder(S, R), NEW k \in 0 .. Cardinality(S) - 1
    PROVE  \E x \in S : Cardinality(Below(S, R, x)) = k
<1>1. PICK N \in Nat : N = Cardinality(S)
    BY FS_CardinalityType
<1>2. PICK f : f = [x \in S |-> Cardinality(Below(S, R, x))]
    OBVIOUS
<1>3. f \in [S -> 0 .. N - 1]
    BY <1>1, <1>2, RankGrows
<1>4. \A x, y \in S : f[x] = f[y] => x = y
    <2> SUFFICES ASSUME NEW x \in S, NEW y \in S, f[x] = f[y], x # y PROVE FALSE
        OBVIOUS
    <2>1. <<x, y>> \in R \/ <<y, x>> \in R
        BY DEF StrictOrder
    <2>2. f[x] < f[y] \/ f[y] < f[x]
        BY <1>2, <2>1, RankGrows
    <2>3. f[x] \in Int /\ f[y] \in Int
        BY <1>3
    <2> QED
        BY <2>2, <2>3
<1>5. f \in Injection(S, 0 .. N - 1)
    BY <1>3, <1>4 DEF Injection, IsInjective
<1>6. IsFiniteSet(0 .. N - 1) /\ Cardinality(0 .. N - 1) = N
    BY FS_Interval
<1>7. f \in Surjection(S, 0 .. N - 1)
    BY <1>1, <1>5, <1>6, FS_Injection
<1>8. \E x \in S : f[x] = k
    BY <1>1, <1>7 DEF Surjection
<1> QED
    BY <1>2, <1>8

(* A sequence that lists a set in an order.                                 *)
Lists(o, S, R) ==
    /\ o \in [1 .. Cardinality(S) -> S]
    /\ \A x \in S : \E k \in 1 .. Cardinality(S) : o[k] = x
    /\ \A i, k \in 1 .. Cardinality(S) : i < k => <<o[i], o[k]>> \in R /\ o[i] # o[k]

LEMMA OrderedLists ==
    ASSUME NEW S, IsFiniteSet(S), NEW R, StrictOrder(S, R)
    PROVE  Lists(Ordered(S, R), S, R)
<1>1. PICK N \in Nat : N = Cardinality(S)
    BY FS_CardinalityType
<1>2. PICK o : o = Ordered(S, R)
    OBVIOUS
<1>3. o = [k \in 1 .. N |-> CHOOSE x \in S : Cardinality(Below(S, R, x)) = k - 1]
    BY <1>1, <1>2 DEF Ordered, Below
<1>4. ASSUME NEW k \in 1 .. N PROVE o[k] \in S /\ Cardinality(Below(S, R, o[k])) = k - 1
    <2>1. k - 1 \in 0 .. N - 1
        OBVIOUS
    <2>2. \E x \in S : Cardinality(Below(S, R, x)) = k - 1
        BY <1>1, <2>1, RankIsTaken
    <2> QED
        BY <1>3, <2>2
<1>5. ASSUME NEW x \in S PROVE \E k \in 1 .. N : o[k] = x
    <2>1. PICK k \in 1 .. N : Cardinality(Below(S, R, x)) = k - 1
        <3>1. Cardinality(Below(S, R, x)) \in 0 .. N - 1
            BY <1>1, RankGrows
        <3>2. Cardinality(Below(S, R, x)) + 1 \in 1 .. N
            BY <3>1
        <3> QED
            BY <3>1, <3>2
    <2>2. o[k] \in S /\ Cardinality(Below(S, R, o[k])) = k - 1
        BY <1>4
    <2>3. o[k] = x
        <3>1. <<x, o[k]>> \notin R /\ <<o[k], x>> \notin R
            <4>1. k - 1 \in Int /\ ~(k - 1 < k - 1)
                OBVIOUS
            <4> QED
                BY <2>1, <2>2, <4>1, RankGrows
        <3> QED
            BY <2>2, <3>1 DEF StrictOrder
    <2> QED
        BY <2>3
<1>6. ASSUME NEW i \in 1 .. N, NEW k \in 1 .. N, i < k PROVE <<o[i], o[k]>> \in R /\ o[i] # o[k]
    <2>1. o[i] \in S /\ o[k] \in S /\ Cardinality(Below(S, R, o[i])) = i - 1
          /\ Cardinality(Below(S, R, o[k])) = k - 1
        BY <1>4
    <2>2. o[i] # o[k]
        BY <1>6, <2>1
    <2>3. <<o[k], o[i]>> \notin R
        <3>1. ~(k - 1 < i - 1)
            BY <1>6
        <3> QED
            BY <2>1, <3>1, RankGrows
    <2> QED
        BY <2>1, <2>2, <2>3 DEF StrictOrder
<1>7. DOMAIN o = 1 .. N /\ o \in [1 .. N -> S]
    BY <1>3, <1>4
<1>8. Lists(o, S, R)
    BY <1>1, <1>5, <1>6, <1>7 DEF Lists
<1> QED
    BY <1>2, <1>8

----------------------------------------------------------------------------
(* THE CYCLE STAMPS OF ONE ARM.                                             *)

(* The automaton of one arm, value by value.                                *)
ArmStart(values) == [searching |-> values # <<>> /\ values[1] < Closed, ends |-> {}]

LEMMA ArmTraced ==
    ASSUME NEW values, NEW n \in Nat, DOMAIN values = 1 .. n
    PROVE  \E g : /\ DOMAIN g = 0 .. n /\ g[0] = ArmStart(values)
                  /\ \A i \in 1 .. n : g[i] = ArmStep(g[i - 1], values[i], i)
                  /\ ArmCycleEnds(values) = g[n].ends
<1>1. PICK s : s = [at \in DOMAIN values |-> at]
    OBVIOUS
<1>2. PICK c : c = ArmStart(values)
    OBVIOUS
<1>3. ArmCycleEnds(values) = Arms!Fold(values, c, s).ends
    BY <1>1, <1>2 DEF ArmCycleEnds, ArmStart, ArmFold, FoldLeft, MapThenFoldSet, Max,
                      Arms!Fold, Arms!Latest
<1>4. PICK g : Arms!Traces(values, c, s, n, g) /\ Arms!Fold(values, c, s) = g[n]
    <2>1. DOMAIN s = 1 .. n
        BY <1>1
    <2> QED
        BY <2>1, Upward, Arms!FoldIsTraced DEF Arms!Induction
<1> QED
    BY <1>1, <1>2, <1>3, <1>4 DEF ArmFold, Arms!Traces

(* It is looking for an opening just when the arm was closed and has not    *)
(* been open since.                                                         *)
Looking(values, i) == \E c \in 1 .. i : values[c] < Closed /\ \A k \in c .. i : values[k] <= Open

LEMMA LookingGoesOn ==
    ASSUME NEW values, NEW n \in Nat, values \in [1 .. n -> Int], NEW i \in 1 .. n - 1
    PROVE  Looking(values, i + 1) <=>
             values[i + 1] <= Open /\ (values[i + 1] < Closed \/ Looking(values, i))
<1>1. i + 1 \in 1 .. n /\ values[i + 1] \in Int
    OBVIOUS
<1>2. ASSUME Looking(values, i + 1)
      PROVE  values[i + 1] <= Open /\ (values[i + 1] < Closed \/ Looking(values, i))
    <2>1. PICK c \in 1 .. i + 1 : values[c] < Closed /\ \A k \in c .. i + 1 : values[k] <= Open
        BY <1>2 DEF Looking
    <2>2. i + 1 \in c .. i + 1 /\ (c # i + 1 => c \in 1 .. i) /\ \A k \in c .. i : k \in c .. i + 1
        OBVIOUS
    <2> QED
        BY <2>1, <2>2 DEF Looking
<1>3. ASSUME values[i + 1] <= Open, values[i + 1] < Closed PROVE Looking(values, i + 1)
    <2>1. i + 1 \in 1 .. i + 1 /\ \A k \in i + 1 .. i + 1 : k = i + 1
        OBVIOUS
    <2> QED
        BY <1>3, <2>1 DEF Looking
<1>4. ASSUME values[i + 1] <= Open, Looking(values, i) PROVE Looking(values, i + 1)
    <2>1. PICK c \in 1 .. i : values[c] < Closed /\ \A k \in c .. i : values[k] <= Open
        BY <1>4 DEF Looking
    <2>2. c \in 1 .. i + 1 /\ \A k \in c .. i + 1 : k \in c .. i \/ k = i + 1
        OBVIOUS
    <2> QED
        BY <1>4, <2>1, <2>2 DEF Looking
<1> QED
    BY <1>2, <1>3, <1>4

Searching(values, i) ==
    IF i = 0 THEN values # <<>> /\ values[1] < Closed ELSE Looking(values, i)

LEMMA SearchingGoesOn ==
    ASSUME NEW values, NEW n \in Nat, values \in [1 .. n -> Int], NEW i \in 0 .. n - 1
    PROVE  /\ Looking(values, i + 1) <=>
                values[i + 1] <= Open /\ (values[i + 1] < Closed \/ Searching(values, i))
           /\ EndsCycle(values, i + 1) <=> values[i + 1] > Open /\ Searching(values, i)
<1>1. CASE i = 0
    <2>1. i + 1 = 1 /\ 1 \in 1 .. 1 /\ values[1] \in Int
        BY <1>1
    <2>2. \A k \in 1 .. 1 : k = 1
        OBVIOUS
    <2>3. values # <<>>
        BY <1>1
    <2>4. Looking(values, 1) <=> values[1] <= Open /\ values[1] < Closed
        BY <2>1, <2>2 DEF Looking
    <2>5. ~EndsCycle(values, 1)
        <3>1. \A c \in 1 .. 1 - 1 : FALSE
            OBVIOUS
        <3> QED
            BY <3>1 DEF EndsCycle
    <2> QED
        BY <1>1, <2>1, <2>3, <2>4, <2>5 DEF Searching, Closed, Open
<1>2. CASE i # 0
    <2>1. i \in 1 .. n - 1 /\ i + 1 - 1 = i
        BY <1>2
    <2>2. EndsCycle(values, i + 1) <=> values[i + 1] > Open /\ Looking(values, i)
        BY <2>1 DEF EndsCycle, Looking
    <2> QED
        BY <1>2, <2>1, <2>2, LookingGoesOn DEF Searching
<1> QED
    BY <1>1, <1>2

ArmState(values, i) ==
    [searching |-> Searching(values, i), ends |-> {j \in 1 .. i : EndsCycle(values, j)}]

LEMMA ArmStateSteps ==
    ASSUME NEW values, NEW n \in Nat, values \in [1 .. n -> Int], NEW i \in 0 .. n - 1
    PROVE  ArmStep(ArmState(values, i), values[i + 1], i + 1) = ArmState(values, i + 1)
<1>1. i + 1 \in 1 .. n /\ values[i + 1] \in Int /\ i + 1 # 0
    OBVIOUS
<1>2. PICK E : E = {j \in 1 .. i : EndsCycle(values, j)}
    OBVIOUS
<1>3. PICK st : st = ArmState(values, i)
    OBVIOUS
<1>4. st.ends = E /\ st = [searching |-> Searching(values, i), ends |-> E]
    BY <1>2, <1>3 DEF ArmState
<1>5. st.searching <=> Searching(values, i)
    <2>1. \A b, e : [searching |-> b, ends |-> e].searching = b
        OBVIOUS
    <2>2. st.searching = Searching(values, i)
        BY <1>4, <2>1, Zenon
    <2> QED
        BY <2>2, Zenon
<1>6. Searching(values, i + 1) <=> values[i + 1] <= Open /\ (values[i + 1] < Closed \/ Searching(values, i))
    BY <1>1, SearchingGoesOn DEF Searching
<1>7. EndsCycle(values, i + 1) <=> values[i + 1] > Open /\ Searching(values, i)
    BY SearchingGoesOn
<1>8. {j \in 1 .. i + 1 : EndsCycle(values, j)} = IF EndsCycle(values, i + 1) THEN E \cup {i + 1} ELSE E
    <2>1. 1 .. i + 1 = (1 .. i) \cup {i + 1}
        OBVIOUS
    <2> QED
        BY <1>2, <2>1
<1>9. CASE st.searching /\ values[i + 1] > Open
    <2>1. ArmStep(st, values[i + 1], i + 1) = [searching |-> FALSE, ends |-> E \cup {i + 1}]
        BY <1>4, <1>9 DEF ArmStep
    <2>2. Searching(values, i + 1) = FALSE
        BY <1>1, <1>6, <1>9 DEF Open, Searching, Looking
    <2>3. {j \in 1 .. i + 1 : EndsCycle(values, j)} = E \cup {i + 1}
        BY <1>5, <1>7, <1>8, <1>9
    <2> QED
        BY <1>3, <2>1, <2>2, <2>3, Zenon DEF ArmState
<1>10. CASE ~st.searching /\ values[i + 1] < Closed
    <2>1. ArmStep(st, values[i + 1], i + 1) = [searching |-> TRUE, ends |-> E]
        BY <1>4, <1>10 DEF ArmStep
    <2>2. Searching(values, i + 1) = TRUE
        BY <1>1, <1>6, <1>10 DEF Open, Closed, Searching, Looking
    <2>3. {j \in 1 .. i + 1 : EndsCycle(values, j)} = E
        BY <1>5, <1>7, <1>8, <1>10
    <2> QED
        BY <1>3, <2>1, <2>2, <2>3, Zenon DEF ArmState
<1>11. CASE ~(st.searching /\ values[i + 1] > Open) /\ ~(~st.searching /\ values[i + 1] < Closed)
    <2>1. ArmStep(st, values[i + 1], i + 1) = st
        BY <1>11 DEF ArmStep
    <2>2. Searching(values, i + 1) = Searching(values, i)
        <3>1. Searching(values, i + 1) <=> Searching(values, i)
            BY <1>1, <1>5, <1>6, <1>11 DEF Open, Closed
        <3> QED
            BY <3>1 DEF Searching, Looking
    <2>3. {j \in 1 .. i + 1 : EndsCycle(values, j)} = E
        BY <1>5, <1>7, <1>8, <1>11
    <2> QED
        BY <1>3, <1>4, <2>1, <2>2, <2>3, Zenon DEF ArmState
<1> QED
    BY <1>3, <1>9, <1>10, <1>11

LEMMA ArmEndsExact ==
    ASSUME NEW values, NEW n \in Nat, values \in [1 .. n -> Int]
    PROVE  ArmCycleEnds(values) = {i \in 1 .. n : EndsCycle(values, i)}
<1>1. PICK g : /\ DOMAIN g = 0 .. n /\ g[0] = ArmStart(values)
               /\ \A i \in 1 .. n : g[i] = ArmStep(g[i - 1], values[i], i)
               /\ ArmCycleEnds(values) = g[n].ends
    BY ArmTraced
<1>2. PICK S : S = {i \in 0 .. n : g[i] = ArmState(values, i)}
    OBVIOUS
<1>3. 0 \in S
    <2>1. {j \in 1 .. 0 : EndsCycle(values, j)} = {}
        OBVIOUS
    <2>2. Searching(values, 0) = (values # <<>> /\ values[1] < Closed)
        BY DEF Searching
    <2>3. g[0] = ArmState(values, 0)
        BY <1>1, <2>1, <2>2, Zenon DEF ArmStart, ArmState
    <2> QED
        BY <1>2, <2>3
<1>4. ASSUME NEW i \in 0 .. n - 1, i \in S PROVE i + 1 \in S
    <2>1. i + 1 \in 1 .. n /\ i + 1 \in 0 .. n /\ i + 1 - 1 = i
        OBVIOUS
    <2>2. g[i + 1] = ArmStep(g[i], values[i + 1], i + 1)
        BY <1>1, <2>1
    <2> QED
        BY <1>2, <1>4, <2>1, <2>2, ArmStateSteps
<1>5. n \in S
    <2>1. \A i \in 0 .. n - 1 : i \in S => i + 1 \in S
        BY <1>4
    <2>2. \A i \in 0 .. n : i \in S
        BY <1>3, <2>1, UpTo
    <2> QED
        BY <2>2
<1> QED
    BY <1>1, <1>2, <1>5 DEF ArmState

(* What a trace shows of two grippers.                                      *)
TraceTyped == trace \in Seq(Int \X Int)

LEMMA TraceEndsExact ==
    ASSUME TraceTyped, NEW i \in DOMAIN trace
    PROVE  i \in CycleEnds(trace) <=>
             \E side \in {1, 2} : EndsCycle([k \in DOMAIN trace |-> trace[k][side]], i)
<1>1. PICK n \in Nat : n = Len(trace) /\ DOMAIN trace = 1 .. n
    BY DEF TraceTyped
<1>2. ASSUME NEW side \in {1, 2}
      PROVE  ArmCycleEnds([k \in DOMAIN trace |-> trace[k][side]])
               = {j \in 1 .. n : EndsCycle([k \in DOMAIN trace |-> trace[k][side]], j)}
    <2>1. [k \in DOMAIN trace |-> trace[k][side]] \in [1 .. n -> Int]
        BY <1>1, <1>2 DEF TraceTyped
    <2> QED
        BY <2>1, ArmEndsExact
<1> QED
    BY <1>1, <1>2 DEF CycleEnds

----------------------------------------------------------------------------
(* THE BANDS OF ONE JOINT.                                                  *)

(* Bands of a joint: which runs a sequence of them lists.                   *)
RunFold(levels, bs, i) == IF levels[i] = "none" THEN bs ELSE Grow(bs, i, levels[i])
Growing == INSTANCE FoldProofs WITH Step <- RunFold

JoinFold(k, out, b) ==
    IF out # <<>> /\ Last(out).level = b.level /\ Last(out).end + 1 = b.start
    THEN [out EXCEPT ![Len(out)].end = b.end] ELSE Append(out, b)
Joining == INSTANCE FoldProofs WITH Step <- JoinFold

SevereFold(k, n, b) == IF b.level = "severe" THEN n + b.end - b.start + 1 ELSE n
Counting == INSTANCE FoldProofs WITH Step <- SevereFold

Grave == {"moderate", "severe"}
BandType == [start : Nat, end : Nat, level : Grave]

Spans(b) == b.start .. b.end

(* Each band is frames of one level, they come in order, and every frame    *)
(* of a level up to i is in one.                                            *)
Banded(bs, i, level) ==
    /\ bs \in Seq(BandType)
    /\ \A k \in DOMAIN bs : /\ 1 <= bs[k].start /\ bs[k].start <= bs[k].end /\ bs[k].end <= i
                            /\ \A q \in Spans(bs[k]) : level[q] = bs[k].level
    /\ \A j, k \in DOMAIN bs : j < k => bs[j].end < bs[k].start
    /\ \A q \in 1 .. i : level[q] # "none" => \E k \in DOMAIN bs : q \in Spans(bs[k])

(* Neighbours that touch are of different levels.                           *)
Apart(bs) ==
    \A j, k \in DOMAIN bs : k = j + 1 /\ bs[j].end + 1 = bs[k].start => bs[j].level # bs[k].level

(* One more band, past all of those before and with nothing in between.     *)
Follows(bs, e, level, b) ==
    /\ Banded(bs, e, level) /\ Apart(bs)
    /\ b \in BandType
    /\ e < b.start /\ b.start <= b.end
    /\ \A q \in e + 1 .. b.start - 1 : level[q] = "none"
    /\ \A q \in Spans(b) : level[q] = b.level

LEMMA Ends ==
    ASSUME NEW bs, NEW e \in Nat, NEW level, Banded(bs, e, level), NEW k \in DOMAIN bs
    PROVE  /\ bs[k] \in BandType
           /\ bs[k].start \in Nat /\ bs[k].end \in Nat /\ bs[k].level \in Grave
           /\ 1 <= bs[k].start /\ bs[k].start <= bs[k].end /\ bs[k].end <= e
           /\ \A q \in Spans(bs[k]) : level[q] = bs[k].level
<1>1. bs[k] \in BandType
    BY DEF Banded
<1>2. bs[k].start \in Nat /\ bs[k].end \in Nat /\ bs[k].level \in Grave
    BY <1>1 DEF BandType
<1> QED
    BY <1>1, <1>2 DEF Banded

LEMMA BandAppended ==
    ASSUME NEW level, NEW e \in Nat, NEW bs, NEW b, Follows(bs, e, level, b),
           bs = <<>> \/ Last(bs).level # b.level \/ Last(bs).end + 1 # b.start
    PROVE  Banded(Append(bs, b), b.end, level) /\ Apart(Append(bs, b))
<1>1. PICK new : new = Append(bs, b)
    OBVIOUS
<1>2. PICK n \in Nat : n = Len(bs) /\ DOMAIN bs = 1 .. n /\ bs \in Seq(BandType)
    BY DEF Banded, Follows
<1>3. b \in BandType /\ b.start \in Nat /\ b.end \in Nat /\ e < b.start /\ b.start <= b.end
    BY DEF BandType, Follows
<1>4. /\ new \in Seq(BandType) /\ DOMAIN new = 1 .. n + 1 /\ new[n + 1] = b
      /\ \A k \in 1 .. n : new[k] = bs[k]
    BY <1>1, <1>2, <1>3
<1>5. ASSUME NEW k \in 1 .. n
      PROVE  /\ bs[k].start \in Nat /\ bs[k].end \in Nat
             /\ 1 <= bs[k].start /\ bs[k].start <= bs[k].end /\ bs[k].end <= e
             /\ \A q \in Spans(bs[k]) : level[q] = bs[k].level
    BY <1>2, Ends DEF Follows
<1>6. Banded(new, b.end, level)
    <2>1. ASSUME NEW k \in 1 .. n + 1
          PROVE  /\ 1 <= new[k].start /\ new[k].start <= new[k].end /\ new[k].end <= b.end
                 /\ \A q \in Spans(new[k]) : level[q] = new[k].level
        <3>1. CASE k = n + 1
            BY <1>3, <1>4, <3>1 DEF Follows
        <3>2. CASE k \in 1 .. n
            BY <1>3, <1>4, <1>5, <3>2
        <3> QED
            BY <3>1, <3>2
    <2>2. ASSUME NEW j \in 1 .. n + 1, NEW k \in 1 .. n + 1, j < k PROVE new[j].end < new[k].start
        <3>1. j \in 1 .. n /\ new[j] = bs[j]
            BY <1>4, <2>2
        <3>2. CASE k = n + 1
            BY <1>3, <1>4, <1>5, <3>1, <3>2
        <3>3. CASE k \in 1 .. n
            BY <1>2, <1>4, <2>2, <3>1, <3>3 DEF Banded, Follows
        <3> QED
            BY <3>2, <3>3
    <2>3. ASSUME NEW q \in 1 .. b.end, level[q] # "none" PROVE \E k \in 1 .. n + 1 : q \in Spans(new[k])
        <3>1. CASE q \in Spans(b)
            BY <1>4, <3>1
        <3>2. CASE q \in 1 .. e
            <4>1. PICK k \in 1 .. n : q \in Spans(bs[k])
                BY <1>2, <2>3, <3>2 DEF Banded, Follows
            <4> QED
                BY <1>4, <4>1
        <3>3. CASE q \in e + 1 .. b.start - 1
            BY <2>3, <3>3 DEF Follows
        <3> QED
            BY <1>3, <3>1, <3>2, <3>3 DEF Spans
    <2> QED
        BY <1>4, <2>1, <2>2, <2>3 DEF Banded
<1>7. Apart(new)
    <2> SUFFICES ASSUME NEW j \in 1 .. n + 1, j + 1 \in 1 .. n + 1, new[j].end + 1 = new[j + 1].start
                 PROVE  new[j].level # new[j + 1].level
        BY <1>4 DEF Apart
    <2>1. j \in 1 .. n
        OBVIOUS
    <2>2. CASE j = n
        <3>1. bs # <<>> /\ Last(bs) = bs[n]
            BY <1>2, <2>1, <2>2 DEF Last
        <3> QED
            BY <1>4, <2>2, <2>1, <3>1
    <2>3. CASE j + 1 \in 1 .. n
        BY <1>2, <1>4, <2>1, <2>3 DEF Apart, Follows
    <2> QED
        BY <2>1, <2>2, <2>3
<1> QED
    BY <1>1, <1>6, <1>7

LEMMA BandCarriedOn ==
    ASSUME NEW level, NEW e \in Nat, NEW bs, NEW b, Follows(bs, e, level, b),
           bs # <<>>, Last(bs).level = b.level, Last(bs).end + 1 = b.start
    PROVE  LET new == [bs EXCEPT ![Len(bs)].end = b.end]
           IN  Banded(new, b.end, level) /\ Apart(new)
<1>1. PICK n \in Nat : n = Len(bs) /\ DOMAIN bs = 1 .. n /\ bs \in Seq(BandType)
    BY DEF Banded, Follows
<1>2. n # 0 /\ n \in 1 .. n /\ Last(bs) = bs[n]
    BY <1>1 DEF Last
<1>3. PICK new : new = [bs EXCEPT ![n].end = b.end]
    OBVIOUS
<1>4. ASSUME NEW k \in 1 .. n
      PROVE  /\ bs[k] \in BandType /\ bs[k].start \in Nat /\ bs[k].end \in Nat
             /\ 1 <= bs[k].start /\ bs[k].start <= bs[k].end /\ bs[k].end <= e
             /\ \A q \in Spans(bs[k]) : level[q] = bs[k].level
    BY <1>1, Ends DEF Follows
<1>5. b.start \in Nat /\ b.end \in Nat /\ e < b.start /\ b.start <= b.end
    BY DEF BandType, Follows
<1>6. bs[n].end = e /\ b.start = e + 1
    BY <1>2, <1>4, <1>5
<1>7. PICK x : x = [bs[n] EXCEPT !.end = b.end]
    OBVIOUS
<1>8. x \in BandType /\ x.start = bs[n].start /\ x.end = b.end /\ x.level = b.level
    BY <1>2, <1>4, <1>5, <1>7 DEF BandType
<1>9. new = [bs EXCEPT ![n] = x]
    BY <1>3, <1>7
<1>10. new \in Seq(BandType) /\ DOMAIN new = 1 .. n /\ new[n] = x /\ \A k \in 1 .. n : k # n => new[k] = bs[k]
    BY <1>1, <1>2, <1>8, <1>9
<1>11. \A q : q \in Spans(x) <=> q \in Spans(bs[n]) \/ q \in Spans(b)
    BY <1>2, <1>4, <1>5, <1>6, <1>8 DEF Spans
<1>12. Banded(new, b.end, level)
    <2>1. ASSUME NEW k \in 1 .. n
          PROVE  /\ 1 <= new[k].start /\ new[k].start <= new[k].end /\ new[k].end <= b.end
                 /\ \A q \in Spans(new[k]) : level[q] = new[k].level
        <3>1. CASE k = n
            <4>1. \A q \in Spans(x) : level[q] = x.level
                BY <1>2, <1>4, <1>8, <1>11 DEF Follows
            <4>2. 1 <= x.start /\ x.start <= x.end /\ x.end <= b.end
                BY <1>2, <1>4, <1>5, <1>6, <1>8
            <4> QED
                BY <1>10, <3>1, <4>1, <4>2
        <3>2. CASE k # n
            <4>1. new[k] = bs[k]
                BY <1>10, <3>2
            <4>2. bs[k].end <= e /\ e <= b.end /\ bs[k].end \in Nat
                BY <1>4, <1>5
            <4>3. bs[k].end <= b.end
                BY <1>5, <4>2
            <4> QED
                BY <1>4, <4>1, <4>3
        <3> QED
            BY <3>1, <3>2
    <2>2. ASSUME NEW j \in 1 .. n, NEW k \in 1 .. n, j < k PROVE new[j].end < new[k].start
        <3>1. j # n
            BY <2>2
        <3>2. new[j] = bs[j] /\ new[k].start = bs[k].start
            BY <1>8, <1>10, <3>1
        <3> QED
            BY <1>1, <2>2, <3>2 DEF Banded, Follows
    <2>3. ASSUME NEW q \in 1 .. b.end, level[q] # "none" PROVE \E k \in 1 .. n : q \in Spans(new[k])
        <3>1. CASE q \in Spans(b)
            BY <1>2, <1>10, <1>11, <3>1
        <3>2. CASE q \in 1 .. e
            <4>1. PICK k \in 1 .. n : q \in Spans(bs[k])
                BY <1>1, <2>3, <3>2 DEF Banded, Follows
            <4> QED
                BY <1>10, <1>11, <4>1
        <3> QED
            BY <1>5, <1>6, <3>1, <3>2 DEF Spans
    <2> QED
        BY <1>10, <2>1, <2>2, <2>3 DEF Banded
<1>13. Apart(new)
    <2> SUFFICES ASSUME NEW j \in 1 .. n, j + 1 \in 1 .. n, new[j].end + 1 = new[j + 1].start
                 PROVE  new[j].level # new[j + 1].level
        BY <1>10 DEF Apart
    <2>1. j # n /\ new[j] = bs[j] /\ new[j + 1].start = bs[j + 1].start /\ new[j + 1].level = bs[j + 1].level
        BY <1>2, <1>8, <1>10
    <2> QED
        BY <1>1, <2>1 DEF Apart, Follows
<1> QED
    BY <1>1, <1>3, <1>12, <1>13

LEMMA Quiet ==
    ASSUME NEW level, NEW e \in Nat, NEW m \in Nat, e <= m, NEW bs, Banded(bs, e, level),
           \A q \in e + 1 .. m : level[q] = "none"
    PROVE  Banded(bs, m, level)
<1>1. \A k \in DOMAIN bs : bs[k].end <= m
    BY Ends
<1>2. \A q \in 1 .. m : q \in 1 .. e \/ q \in e + 1 .. m
    OBVIOUS
<1>3. \A q \in 1 .. m : level[q] # "none" => \E k \in DOMAIN bs : q \in Spans(bs[k])
    BY <1>2 DEF Banded
<1> QED
    BY <1>1, <1>3 DEF Banded

LevelNames == {"none", "moderate", "severe"}

(* The loop of compute_bands that merges frames.                            *)
LEMMA RunsTraced ==
    ASSUME NEW levels, NEW m \in Nat, DOMAIN levels = 1 .. m
    PROVE  \E g : /\ DOMAIN g = 0 .. m /\ g[0] = <<>>
                  /\ \A i \in 1 .. m : g[i] = IF levels[i] = "none" THEN g[i - 1]
                                              ELSE Grow(g[i - 1], i, levels[i])
                  /\ Runs(levels) = g[m]
<1>1. PICK s : s = [i \in DOMAIN levels |-> i]
    OBVIOUS
<1>2. Runs(levels) = Growing!Fold(levels, <<>>, s)
    BY <1>1 DEF Runs, RunFold, FoldLeft, MapThenFoldSet, Max,
                Growing!Fold, Growing!Latest
<1>3. PICK g : Growing!Traces(levels, <<>>, s, m, g) /\ Growing!Fold(levels, <<>>, s) = g[m]
    <2>1. DOMAIN s = 1 .. m
        BY <1>1
    <2> QED
        BY <2>1, Upward, Growing!FoldIsTraced DEF Growing!Induction
<1> QED
    BY <1>1, <1>2, <1>3 DEF RunFold, Growing!Traces

LEMMA RunsBanded ==
    ASSUME NEW m \in Nat, NEW levels \in [1 .. m -> LevelNames]
    PROVE  Banded(Runs(levels), m, levels) /\ Apart(Runs(levels))
<1>1. PICK g : /\ DOMAIN g = 0 .. m /\ g[0] = <<>>
               /\ \A i \in 1 .. m : g[i] = IF levels[i] = "none" THEN g[i - 1]
                                           ELSE Grow(g[i - 1], i, levels[i])
               /\ Runs(levels) = g[m]
    BY RunsTraced
<1>2. PICK S : S = {i \in 0 .. m : Banded(g[i], i, levels) /\ Apart(g[i])}
    OBVIOUS
<1>3. 0 \in S
    <2>1. PICK bs : bs = <<>>
        OBVIOUS
    <2>2. bs \in Seq(BandType) /\ (\A k \in DOMAIN bs : FALSE) /\ \A q \in 1 .. 0 : FALSE
        BY <2>1
    <2>3. Banded(bs, 0, levels)
        BY <2>2 DEF Banded
    <2>4. Apart(bs)
        BY <2>2 DEF Apart
    <2> QED
        BY <1>1, <1>2, <2>1, <2>3, <2>4
<1>4. ASSUME NEW i \in 0 .. m - 1, i \in S PROVE i + 1 \in S
    <2>1. i \in Nat /\ i + 1 \in Nat /\ i + 1 \in 1 .. m /\ i + 1 \in 0 .. m /\ i + 1 - 1 = i
        OBVIOUS
    <2>2. Banded(g[i], i, levels) /\ Apart(g[i])
        BY <1>2, <1>4
    <2>3. CASE levels[i + 1] = "none"
        <3>1. g[i + 1] = g[i]
            BY <1>1, <2>1, <2>3
        <3>2. \A q \in i + 1 .. i + 1 : levels[q] = "none"
            BY <2>3
        <3>3. Banded(g[i], i + 1, levels)
            BY <2>1, <2>2, <3>2, Quiet
        <3> QED
            BY <1>2, <2>1, <2>2, <3>1, <3>3
    <2>4. CASE levels[i + 1] # "none"
        <3>1. PICK b : b = [start |-> i + 1, end |-> i + 1, level |-> levels[i + 1]]
            OBVIOUS
        <3>2. b \in BandType /\ b.start = i + 1 /\ b.end = i + 1 /\ b.level = levels[i + 1]
            BY <2>1, <2>4, <3>1 DEF BandType, Grave, LevelNames
        <3>3. Follows(g[i], i, levels, b)
            <4>1. \A q \in i + 1 .. i + 1 - 1 : FALSE
                OBVIOUS
            <4>2. \A q \in Spans(b) : q = i + 1
                BY <2>1, <3>2 DEF Spans
            <4> QED
                BY <2>1, <2>2, <3>2, <4>1, <4>2 DEF Follows
        <3>4. PICK bs : bs = g[i]
            OBVIOUS
        <3>5. g[i + 1] = Grow(bs, i + 1, levels[i + 1])
            BY <1>1, <2>1, <2>4, <3>4
        <3>6. CASE bs # <<>> /\ Last(bs).level = levels[i + 1] /\ Last(bs).end + 1 = i + 1
            <4>1. g[i + 1] = [bs EXCEPT ![Len(bs)].end = b.end]
                BY <3>2, <3>5, <3>6 DEF Grow
            <4>2. Banded(g[i + 1], i + 1, levels) /\ Apart(g[i + 1])
                BY <2>1, <3>2, <3>3, <3>4, <3>6, <4>1, BandCarriedOn
            <4> QED
                BY <1>2, <2>1, <4>2
        <3>7. CASE ~(bs # <<>> /\ Last(bs).level = levels[i + 1] /\ Last(bs).end + 1 = i + 1)
            <4>1. g[i + 1] = Append(bs, b)
                BY <3>1, <3>5, <3>7 DEF Grow
            <4>2. Banded(g[i + 1], i + 1, levels) /\ Apart(g[i + 1])
                BY <2>1, <3>2, <3>3, <3>4, <3>7, <4>1, BandAppended
            <4> QED
                BY <1>2, <2>1, <4>2
        <3> QED
            BY <3>6, <3>7
    <2> QED
        BY <2>3, <2>4
<1>5. m \in S
    <2>1. \A i \in 0 .. m - 1 : i \in S => i + 1 \in S
        BY <1>4
    <2>2. \A i \in 0 .. m : i \in S
        BY <1>3, <2>1, UpTo
    <2> QED
        BY <2>2
<1> QED
    BY <1>1, <1>2, <1>5

(* A band that lists of neighbours kept apart is as long as can be.         *)
LEMMA Longest ==
    ASSUME NEW level, NEW m \in Nat, NEW bs, Banded(bs, m, level), Apart(bs), NEW k \in DOMAIN bs
    PROVE  /\ bs[k].start - 1 \in 1 .. m => level[bs[k].start - 1] # bs[k].level
           /\ bs[k].end + 1 \in 1 .. m => level[bs[k].end + 1] # bs[k].level
<1>1. PICK n \in Nat : n = Len(bs) /\ DOMAIN bs = 1 .. n
    BY DEF Banded
<1>2. \A j \in 1 .. n : /\ bs[j].start \in Nat /\ bs[j].end \in Nat /\ bs[j].start <= bs[j].end
                        /\ bs[j].level \in Grave
                        /\ \A q \in Spans(bs[j]) : level[q] = bs[j].level
    BY <1>1, Ends
<1>3. \A i, j \in 1 .. n : i < j => bs[i].end < bs[j].start
    BY <1>1 DEF Banded
<1>4. ASSUME NEW q \in 1 .. m, level[q] = bs[k].level
      PROVE  \E j \in 1 .. n : q \in Spans(bs[j]) /\ bs[j].level = bs[k].level
    <2>1. level[q] # "none"
        BY <1>1, <1>2, <1>4 DEF Grave
    <2> QED
        BY <1>1, <1>2, <1>4, <2>1 DEF Banded
<1>5. ASSUME bs[k].start - 1 \in 1 .. m, level[bs[k].start - 1] = bs[k].level PROVE FALSE
    <2>1. PICK j \in 1 .. n : bs[k].start - 1 \in Spans(bs[j]) /\ bs[j].level = bs[k].level
        BY <1>4, <1>5
    <2>2. bs[j].start <= bs[k].start - 1 /\ bs[k].start - 1 <= bs[j].end
        BY <1>2, <2>1 DEF Spans
    <2>3. j < k
        <3>1. j # k
            BY <1>1, <1>2, <2>2
        <3>2. ~(k < j)
            BY <1>1, <1>2, <1>3, <2>2
        <3> QED
            BY <1>1, <3>1, <3>2
    <2>4. k = j + 1
        <3>1. SUFFICES ASSUME j + 1 \in 1 .. n, j + 1 < k PROVE FALSE
            BY <1>1, <2>3
        <3>2. bs[j].end < bs[j + 1].start /\ bs[j + 1].end < bs[k].start
            BY <1>1, <1>3, <3>1
        <3> QED
            BY <1>1, <1>2, <2>2, <3>1, <3>2
    <2>5. bs[j].end + 1 = bs[k].start
        BY <1>1, <1>2, <1>3, <2>2, <2>3
    <2> QED
        BY <1>1, <2>1, <2>4, <2>5 DEF Apart
<1>6. ASSUME bs[k].end + 1 \in 1 .. m, level[bs[k].end + 1] = bs[k].level PROVE FALSE
    <2>1. PICK j \in 1 .. n : bs[k].end + 1 \in Spans(bs[j]) /\ bs[j].level = bs[k].level
        BY <1>4, <1>6
    <2>2. bs[j].start <= bs[k].end + 1 /\ bs[k].end + 1 <= bs[j].end
        BY <1>1, <1>2, <2>1 DEF Spans
    <2>3. k < j
        <3>1. j # k
            BY <1>1, <1>2, <2>2
        <3>2. ~(j < k)
            BY <1>1, <1>2, <1>3, <2>2
        <3> QED
            BY <1>1, <3>1, <3>2
    <2>4. j = k + 1
        <3>1. SUFFICES ASSUME k + 1 \in 1 .. n, k + 1 < j PROVE FALSE
            BY <1>1, <2>3
        <3>2. bs[k].end < bs[k + 1].start /\ bs[k + 1].end < bs[j].start
            BY <1>1, <1>3, <3>1
        <3> QED
            BY <1>1, <1>2, <2>2, <3>1, <3>2
    <2>5. bs[k].end + 1 = bs[j].start
        BY <1>1, <1>2, <1>3, <2>2, <2>3
    <2> QED
        BY <1>1, <2>1, <2>4, <2>5 DEF Apart
<1> QED
    BY <1>5, <1>6

----------------------------------------------------------------------------
(* BANDS OF GRADED LEVELS.                                                  *)

(* A run of MinSevereRun severe frames around frame i.                      *)
Sustained(levels, m, i) ==
    \E a \in 1 .. i : /\ a + MinSevereRun - 1 \in i .. m
                      /\ \A k \in a .. a + MinSevereRun - 1 : levels[k] = "severe"

Graded(levels, m) ==
    [i \in 1 .. m |-> IF Sustained(levels, m, i) THEN "severe"
                      ELSE IF levels[i] # "none" THEN "moderate" ELSE "none"]

LEMMA LongRunSustains ==
    ASSUME NEW m \in Nat, NEW levels, NEW rs, Banded(rs, m, levels), NEW k \in DOMAIN rs,
           rs[k].level = "severe", rs[k].end - rs[k].start + 1 >= MinSevereRun, NEW i \in Spans(rs[k])
    PROVE  Sustained(levels, m, i)
<1>1. MinSevereRun \in Nat \ {0}
    BY AutoGradeBandsAssumption
<1>2. PICK x, y \in Nat : x = rs[k].start /\ y = rs[k].end
    BY Ends
<1>3. 1 <= x /\ x <= y /\ y <= m /\ i \in x .. y /\ \A q \in x .. y : levels[q] = "severe"
    BY <1>2, Ends DEF Spans
<1>4. y - x + 1 >= MinSevereRun
    BY <1>2
<1>5. PICK a : a = IF i + MinSevereRun - 1 <= y THEN i ELSE y - MinSevereRun + 1
    OBVIOUS
<1>6. a \in 1 .. i /\ a + MinSevereRun - 1 \in i .. m /\ x <= a /\ a + MinSevereRun - 1 <= y /\ a \in Int
    BY <1>1, <1>3, <1>4, <1>5
<1>7. \A q \in a .. a + MinSevereRun - 1 : q \in x .. y
    BY <1>1, <1>6
<1> QED
    BY <1>3, <1>6, <1>7 DEF Sustained

LEMMA ShortRunDoesNot ==
    ASSUME NEW m \in Nat, NEW levels, NEW rs, Banded(rs, m, levels), Apart(rs), NEW k \in DOMAIN rs,
           rs[k].level = "severe", rs[k].end - rs[k].start + 1 < MinSevereRun, NEW i \in Spans(rs[k])
    PROVE  ~Sustained(levels, m, i)
<1>1. MinSevereRun \in Nat \ {0}
    BY AutoGradeBandsAssumption
<1>2. PICK x, y \in Nat : x = rs[k].start /\ y = rs[k].end
    BY Ends
<1>3. 1 <= x /\ x <= y /\ y <= m /\ i \in x .. y
    BY <1>2, Ends DEF Spans
<1>4. /\ x - 1 \in 1 .. m => levels[x - 1] # "severe"
      /\ y + 1 \in 1 .. m => levels[y + 1] # "severe"
    BY <1>2, Longest
<1> SUFFICES ASSUME NEW a \in 1 .. i, a + MinSevereRun - 1 \in i .. m,
                    \A q \in a .. a + MinSevereRun - 1 : levels[q] = "severe"
             PROVE  FALSE
    BY DEF Sustained
<1>5. CASE a < x
    <2>1. x - 1 \in a .. a + MinSevereRun - 1 /\ x - 1 \in 1 .. m
        BY <1>1, <1>3, <1>5
    <2> QED
        BY <1>4, <2>1
<1>6. CASE a >= x
    <2>1. y - x + 1 < MinSevereRun
        BY <1>2
    <2>2. y + 1 \in a .. a + MinSevereRun - 1 /\ y + 1 \in 1 .. m
        BY <1>1, <1>3, <1>6, <2>1
    <2> QED
        BY <1>4, <2>2
<1> QED
    BY <1>3, <1>5, <1>6

LEMMA SustainedIsSevere ==
    ASSUME NEW m \in Nat, NEW levels, NEW i \in 1 .. m, Sustained(levels, m, i)
    PROVE  levels[i] = "severe"
<1>1. PICK a \in 1 .. i : /\ a + MinSevereRun - 1 \in i .. m
                          /\ \A k \in a .. a + MinSevereRun - 1 : levels[k] = "severe"
    BY DEF Sustained
<1>2. i \in a .. a + MinSevereRun - 1
    BY <1>1, AutoGradeBandsAssumption
<1> QED
    BY <1>1, <1>2

(* Downgrading the short runs leaves bands of the graded levels; their      *)
(* neighbours may touch and be of one level now.                            *)
LEMMA DowngradedBanded ==
    ASSUME NEW m \in Nat, NEW levels \in [1 .. m -> LevelNames], NEW rs, Banded(rs, m, levels), Apart(rs)
    PROVE  Banded([k \in DOMAIN rs |-> Downgraded(rs[k])], m, Graded(levels, m))
<1>1. PICK n \in Nat : n = Len(rs) /\ DOMAIN rs = 1 .. n
    BY DEF Banded
<1>2. PICK ds : ds = [k \in 1 .. n |-> Downgraded(rs[k])]
    OBVIOUS
<1>3. ASSUME NEW k \in 1 .. n
      PROVE  /\ rs[k] \in BandType /\ rs[k].start \in Nat /\ rs[k].end \in Nat /\ rs[k].level \in Grave
             /\ 1 <= rs[k].start /\ rs[k].start <= rs[k].end /\ rs[k].end <= m
             /\ \A q \in Spans(rs[k]) : levels[q] = rs[k].level
    BY <1>1, Ends
<1>4. ASSUME NEW k \in 1 .. n
      PROVE  /\ ds[k] \in BandType /\ ds[k].start = rs[k].start /\ ds[k].end = rs[k].end
             /\ ds[k].level = IF rs[k].level = "severe" /\ rs[k].end - rs[k].start + 1 >= MinSevereRun
                              THEN "severe" ELSE "moderate"
    <2>1. PICK b : b = rs[k]
        OBVIOUS
    <2>2. b \in BandType /\ b.start \in Nat /\ b.end \in Nat /\ b.level \in Grave
        BY <1>3, <2>1
    <2>3. MinSevereRun \in Nat
        BY AutoGradeBandsAssumption
    <2>4. ds[k] = Downgraded(b)
        BY <1>2, <2>1
    <2>5. CASE b.level = "severe" /\ b.end - b.start + 1 < MinSevereRun
        <3>1. ds[k] = [b EXCEPT !.level = "moderate"]
            BY <2>4, <2>5 DEF Downgraded
        <3> QED
            BY <2>1, <2>2, <2>3, <2>5, <3>1 DEF BandType, Grave
    <2>6. CASE ~(b.level = "severe" /\ b.end - b.start + 1 < MinSevereRun)
        <3>1. ds[k] = b
            BY <2>4, <2>6 DEF Downgraded
        <3> QED
            BY <2>1, <2>2, <2>3, <2>6, <3>1 DEF Grave
    <2> QED
        BY <2>5, <2>6
<1>5. ASSUME NEW k \in 1 .. n, NEW i \in Spans(rs[k]) PROVE Graded(levels, m)[i] = ds[k].level
    <2>1. i \in 1 .. m /\ levels[i] = rs[k].level
        BY <1>3 DEF Spans
    <2>2. CASE rs[k].level = "severe" /\ rs[k].end - rs[k].start + 1 >= MinSevereRun
        <3>1. Sustained(levels, m, i)
            BY <1>1, <2>2, LongRunSustains
        <3> QED
            BY <1>4, <2>1, <2>2, <3>1 DEF Graded
    <2>3. CASE ~(rs[k].level = "severe" /\ rs[k].end - rs[k].start + 1 >= MinSevereRun)
        <3>1. ~Sustained(levels, m, i)
            <4>1. CASE rs[k].level = "severe"
                <5>1. rs[k].end - rs[k].start + 1 < MinSevereRun
                    BY <1>3, <2>3, <4>1, AutoGradeBandsAssumption
                <5> QED
                    BY <1>1, <4>1, <5>1, ShortRunDoesNot
            <4>2. CASE rs[k].level # "severe"
                BY <2>1, <4>2, SustainedIsSevere
            <4> QED
                BY <4>1, <4>2
        <3>2. levels[i] # "none" /\ ds[k].level = "moderate"
            BY <1>3, <1>4, <2>1, <2>3 DEF Grave
        <3> QED
            BY <2>1, <3>1, <3>2 DEF Graded
    <2> QED
        BY <2>2, <2>3
<1>6. ds \in Seq(BandType) /\ DOMAIN ds = 1 .. n
    BY <1>2, <1>4
<1>7. \A k \in 1 .. n : Spans(ds[k]) = Spans(rs[k])
    BY <1>4 DEF Spans
<1>8. \A j, k \in 1 .. n : j < k => ds[j].end < ds[k].start
    BY <1>1, <1>4 DEF Banded
<1>9. ASSUME NEW i \in 1 .. m, Graded(levels, m)[i] # "none" PROVE \E k \in 1 .. n : i \in Spans(ds[k])
    <2>1. levels[i] # "none"
        BY <1>9, SustainedIsSevere DEF Graded
    <2> QED
        BY <1>1, <1>7, <2>1 DEF Banded
<1>10. \A k \in 1 .. n : /\ 1 <= ds[k].start /\ ds[k].start <= ds[k].end /\ ds[k].end <= m
                         /\ \A q \in Spans(ds[k]) : Graded(levels, m)[q] = ds[k].level
    BY <1>3, <1>4, <1>5, <1>7
<1>11. Banded(ds, m, Graded(levels, m))
    BY <1>6, <1>8, <1>9, <1>10 DEF Banded
<1> QED
    BY <1>1, <1>2, <1>11

----------------------------------------------------------------------------
(* JOINED BANDS ARE THE MAXIMAL RUNS.                                       *)

(* The loop of compute_bands that joins neighbours.                         *)
LEMMA JoinedTraced ==
    ASSUME NEW ds, NEW n \in Nat, DOMAIN ds = 1 .. n
    PROVE  \E g : /\ DOMAIN g = 0 .. n /\ g[0] = <<>>
                  /\ \A i \in 1 .. n : g[i] = JoinFold(ds, g[i - 1], ds[i])
                  /\ Joined(ds) = g[n]
<1>1. Joined(ds) = Joining!Fold(ds, <<>>, ds)
    BY DEF Joined, JoinFold, FoldLeft, MapThenFoldSet, Max,
           Joining!Fold, Joining!Latest
<1>2. PICK g : Joining!Traces(ds, <<>>, ds, n, g) /\ Joining!Fold(ds, <<>>, ds) = g[n]
    BY Upward, Joining!FoldIsTraced DEF Joining!Induction
<1> QED
    BY <1>1, <1>2 DEF Joining!Traces

LEMMA JoinedBanded ==
    ASSUME NEW m \in Nat, NEW level, NEW ds, Banded(ds, m, level)
    PROVE  Banded(Joined(ds), m, level) /\ Apart(Joined(ds))
<1>1. PICK n \in Nat : n = Len(ds) /\ DOMAIN ds = 1 .. n
    BY DEF Banded
<1>2. PICK g : /\ DOMAIN g = 0 .. n /\ g[0] = <<>>
               /\ \A i \in 1 .. n : g[i] = JoinFold(ds, g[i - 1], ds[i])
               /\ Joined(ds) = g[n]
    BY <1>1, JoinedTraced
<1>3. PICK e : e = [j \in 0 .. n |-> IF j = 0 THEN 0 ELSE ds[j].end]
    OBVIOUS
<1>4. ASSUME NEW k \in 1 .. n
      PROVE  /\ ds[k] \in BandType /\ ds[k].start \in Nat /\ ds[k].end \in Nat
             /\ 1 <= ds[k].start /\ ds[k].start <= ds[k].end /\ ds[k].end <= m
             /\ \A q \in Spans(ds[k]) : level[q] = ds[k].level
    BY <1>1, Ends
<1>5. \A i, k \in 1 .. n : i < k => ds[i].end < ds[k].start
    BY <1>1 DEF Banded
<1>6. \A j \in 0 .. n : e[j] \in Nat /\ e[j] <= m /\ \A k \in 1 .. n : k <= j => ds[k].end <= e[j]
    <2> SUFFICES ASSUME NEW j \in 0 .. n
                 PROVE  e[j] \in Nat /\ e[j] <= m /\ \A k \in 1 .. n : k <= j => ds[k].end <= e[j]
        OBVIOUS
    <2>1. CASE j = 0
        BY <1>3, <2>1
    <2>2. CASE j # 0
        <3>1. j \in 1 .. n /\ e[j] = ds[j].end
            BY <1>3, <2>2
        <3>2. ASSUME NEW k \in 1 .. n, k <= j PROVE ds[k].end <= ds[j].end
            <4>1. k = j \/ k < j
                BY <3>2
            <4>2. k < j => ds[k].end < ds[j].start /\ ds[j].start <= ds[j].end /\ ds[k].end \in Nat
                            /\ ds[j].start \in Nat /\ ds[j].end \in Nat
                BY <1>4, <1>5, <3>1
            <4>3. ds[j].end \in Nat /\ ds[j].end <= ds[j].end
                BY <1>4, <3>1
            <4> QED
                BY <4>1, <4>2, <4>3
        <3> QED
            BY <1>4, <3>1, <3>2
    <2> QED
        BY <2>1, <2>2
<1>7. ASSUME NEW j \in 0 .. n, NEW q \in e[j] + 1 .. m, level[q] # "none"
      PROVE  \E k \in 1 .. n : j < k /\ q \in Spans(ds[k])
    <2>1. q \in 1 .. m
        BY <1>6
    <2>2. PICK k \in 1 .. n : q \in Spans(ds[k])
        BY <1>1, <1>7, <2>1 DEF Banded
    <2>3. q <= ds[k].end /\ e[j] < q
        BY <1>4, <1>6, <2>2 DEF Spans
    <2>4. ~(k <= j)
        <3>1. k <= j => ds[k].end <= e[j]
            BY <1>6
        <3> QED
            BY <1>4, <1>6, <2>3, <3>1
    <2> QED
        BY <2>2, <2>4
<1>8. PICK S : S = {j \in 0 .. n : Banded(g[j], e[j], level) /\ Apart(g[j])}
    OBVIOUS
<1>9. 0 \in S
    <2>1. PICK bs : bs = <<>>
        OBVIOUS
    <2>2. bs \in Seq(BandType) /\ (\A k \in DOMAIN bs : FALSE) /\ \A q \in 1 .. 0 : FALSE
        BY <2>1
    <2>3. Banded(bs, 0, level)
        BY <2>2 DEF Banded
    <2>4. Apart(bs)
        BY <2>2 DEF Apart
    <2> QED
        BY <1>2, <1>3, <1>8, <2>1, <2>3, <2>4
<1>10. ASSUME NEW j \in 0 .. n - 1, j \in S PROVE j + 1 \in S
    <2>1. j + 1 \in 1 .. n /\ j + 1 \in 0 .. n /\ j + 1 - 1 = j /\ j \in 0 .. n /\ j + 1 # 0
        OBVIOUS
    <2>2. PICK b : b = ds[j + 1]
        OBVIOUS
    <2>3. PICK bs : bs = g[j]
        OBVIOUS
    <2>4. b \in BandType /\ b.start \in Nat /\ b.end \in Nat /\ 1 <= b.start /\ b.start <= b.end /\ b.end <= m
          /\ \A q \in Spans(b) : level[q] = b.level
        BY <1>4, <2>1, <2>2
    <2>5. e[j] < b.start
        <3>1. CASE j = 0
            BY <1>3, <2>4, <3>1
        <3>2. CASE j # 0
            <4>1. j \in 1 .. n /\ j < j + 1
                BY <3>2
            <4>2. e[j] = ds[j].end /\ ds[j].end < b.start
                BY <1>3, <1>5, <2>1, <2>2, <4>1
            <4> QED
                BY <4>2
        <3> QED
            BY <3>1, <3>2
    <2>6. ASSUME NEW q \in e[j] + 1 .. b.start - 1 PROVE level[q] = "none"
        <3> SUFFICES ASSUME level[q] # "none" PROVE FALSE
            OBVIOUS
        <3>1. q \in e[j] + 1 .. m /\ q < b.start
            BY <1>6, <2>1, <2>4
        <3>2. PICK k \in 1 .. n : j < k /\ q \in Spans(ds[k])
            BY <1>7, <2>1, <3>1
        <3>3. ds[k].start <= q
            BY <1>4, <3>2 DEF Spans
        <3>4. b.start <= ds[k].start
            <4>1. k = j + 1 \/ j + 1 < k
                BY <3>2
            <4>2. CASE k = j + 1
                BY <2>2, <2>4, <4>2
            <4>3. CASE j + 1 < k
                BY <1>4, <1>5, <2>1, <2>2, <2>4, <4>3
            <4> QED
                BY <4>1, <4>2, <4>3
        <3> QED
            BY <1>4, <2>4, <3>1, <3>3, <3>4
    <2>7. Follows(bs, e[j], level, b)
        BY <1>8, <1>10, <2>3, <2>4, <2>5, <2>6 DEF Follows
    <2>8. g[j + 1] = JoinFold(ds, bs, b) /\ e[j + 1] = b.end /\ e[j] \in Nat
        BY <1>2, <1>3, <1>6, <2>1, <2>2, <2>3
    <2>9. Banded(g[j + 1], b.end, level) /\ Apart(g[j + 1])
        <3>1. CASE bs # <<>> /\ Last(bs).level = b.level /\ Last(bs).end + 1 = b.start
            <4>1. g[j + 1] = [bs EXCEPT ![Len(bs)].end = b.end]
                BY <2>8, <3>1 DEF JoinFold
            <4> QED
                BY <2>7, <2>8, <3>1, <4>1, BandCarriedOn
        <3>2. CASE ~(bs # <<>> /\ Last(bs).level = b.level /\ Last(bs).end + 1 = b.start)
            <4>1. g[j + 1] = Append(bs, b)
                BY <2>8, <3>2 DEF JoinFold
            <4> QED
                BY <2>7, <2>8, <3>2, <4>1, BandAppended
        <3> QED
            BY <3>1, <3>2
    <2> QED
        BY <1>8, <2>1, <2>8, <2>9
<1>11. n \in S
    <2>1. \A j \in 0 .. n - 1 : j \in S => j + 1 \in S
        BY <1>10
    <2>2. \A j \in 0 .. n : j \in S
        BY <1>9, <2>1, UpTo
    <2> QED
        BY <2>2
<1>12. \A q \in e[n] + 1 .. m : level[q] = "none"
    <2>1. n \in 0 .. n /\ \A k \in 1 .. n : ~(n < k)
        OBVIOUS
    <2> QED
        BY <1>7, <2>1
<1>13. Banded(g[n], e[n], level) /\ Apart(g[n])
    BY <1>8, <1>11
<1>14. e[n] \in Nat /\ e[n] <= m
    BY <1>6
<1>15. Banded(g[n], m, level)
    BY <1>12, <1>13, <1>14, Quiet
<1> QED
    BY <1>2, <1>13, <1>15

(* Maximal runs of a level, as the property has them.                       *)
LEMMA BandsAreTheRuns ==
    ASSUME NEW m \in Nat, NEW level, level[0] = "none", level[m + 1] = "none",
           NEW bs, Banded(bs, m, level), Apart(bs)
    PROVE  Range(bs) = {r \in [start : 1 .. m, end : 1 .. m, level : {"moderate", "severe"}] :
                          /\ r.start <= r.end
                          /\ \A k \in r.start .. r.end : level[k] = r.level
                          /\ level[r.start - 1] # r.level /\ level[r.end + 1] # r.level}
<1>1. PICK n \in Nat : n = Len(bs) /\ DOMAIN bs = 1 .. n
    BY DEF Banded
<1>2. PICK T : T = [start : 1 .. m, end : 1 .. m, level : {"moderate", "severe"}]
    OBVIOUS
<1>3. ASSUME NEW k \in 1 .. n
      PROVE  /\ bs[k] \in BandType /\ bs[k].start \in Nat /\ bs[k].end \in Nat /\ bs[k].level \in Grave
             /\ 1 <= bs[k].start /\ bs[k].start <= bs[k].end /\ bs[k].end <= m
             /\ \A q \in bs[k].start .. bs[k].end : level[q] = bs[k].level
             /\ level[bs[k].start - 1] # bs[k].level /\ level[bs[k].end + 1] # bs[k].level
    <2>1. /\ bs[k] \in BandType /\ bs[k].start \in Nat /\ bs[k].end \in Nat /\ bs[k].level \in Grave
          /\ 1 <= bs[k].start /\ bs[k].start <= bs[k].end /\ bs[k].end <= m
          /\ \A q \in bs[k].start .. bs[k].end : level[q] = bs[k].level
        BY <1>1, Ends DEF Spans
    <2>2. bs[k].start - 1 = 0 \/ bs[k].start - 1 \in 1 .. m
        BY <2>1
    <2>3. bs[k].end + 1 = m + 1 \/ bs[k].end + 1 \in 1 .. m
        BY <2>1
    <2>4. /\ bs[k].start - 1 \in 1 .. m => level[bs[k].start - 1] # bs[k].level
          /\ bs[k].end + 1 \in 1 .. m => level[bs[k].end + 1] # bs[k].level
        BY <1>1, Longest
    <2> QED
        BY <2>1, <2>2, <2>3, <2>4 DEF Grave
<1>4. ASSUME NEW k \in 1 .. n PROVE bs[k] \in T
    <2>1. bs[k] \in BandType /\ bs[k].start \in 1 .. m /\ bs[k].end \in 1 .. m
        BY <1>3
    <2> QED
        BY <1>2, <2>1 DEF BandType, Grave
<1>5. ASSUME NEW r \in T, r.start <= r.end, \A q \in r.start .. r.end : level[q] = r.level,
             level[r.start - 1] # r.level, level[r.end + 1] # r.level
      PROVE  \E k \in 1 .. n : bs[k] = r
    <2>1. r.start \in 1 .. m /\ r.end \in 1 .. m /\ r.level \in Grave
        BY <1>2 DEF Grave
    <2>2. level[r.start] = r.level /\ level[r.start] # "none"
        BY <1>5, <2>1 DEF Grave
    <2>3. PICK k \in 1 .. n : r.start \in Spans(bs[k])
        BY <1>1, <2>1, <2>2 DEF Banded
    <2>4. bs[k].start <= r.start /\ r.start <= bs[k].end
        BY <1>3, <2>1, <2>3 DEF Spans
    <2>5. bs[k].level = r.level
        BY <1>3, <2>1, <2>2, <2>4
    <2>6. bs[k].start = r.start
        <3> SUFFICES ASSUME bs[k].start # r.start PROVE FALSE
            OBVIOUS
        <3>1. r.start - 1 \in bs[k].start .. bs[k].end
            BY <1>3, <2>1, <2>4
        <3>2. level[r.start - 1] = r.level
            BY <1>3, <2>5, <3>1
        <3> QED
            BY <1>5, <3>2
    <2>7. ~(bs[k].end < r.end)
        <3> SUFFICES ASSUME bs[k].end < r.end PROVE FALSE
            OBVIOUS
        <3>1. bs[k].end + 1 \in r.start .. r.end
            BY <1>3, <2>1, <2>4
        <3>2. level[bs[k].end + 1] = bs[k].level
            BY <1>5, <2>5, <3>1
        <3> QED
            BY <1>3, <3>2
    <2>8. ~(r.end < bs[k].end)
        <3> SUFFICES ASSUME r.end < bs[k].end PROVE FALSE
            OBVIOUS
        <3>1. r.end + 1 \in bs[k].start .. bs[k].end
            BY <1>3, <1>5, <2>1, <2>4
        <3>2. level[r.end + 1] = r.level
            BY <1>3, <2>5, <3>1
        <3> QED
            BY <1>5, <3>2
    <2>9. bs[k].end = r.end
        BY <1>3, <2>1, <2>7, <2>8
    <2>10. bs[k] = [start |-> bs[k].start, end |-> bs[k].end, level |-> bs[k].level]
        BY <1>3 DEF BandType
    <2>11. r = [start |-> r.start, end |-> r.end, level |-> r.level]
        BY <1>2
    <2> QED
        BY <2>5, <2>6, <2>9, <2>10, <2>11
<1>6. Range(bs) = {bs[k] : k \in 1 .. n}
    BY <1>1 DEF Range
<1> QED
    BY <1>2, <1>3, <1>4, <1>5, <1>6

SevereCount(bs) == FoldLeft(LAMBDA n, b : IF b.level = "severe" THEN n + b.end - b.start + 1 ELSE n, 0, bs)

LEMMA CountTraced ==
    ASSUME NEW bs, NEW n \in Nat, DOMAIN bs = 1 .. n
    PROVE  \E g : /\ DOMAIN g = 0 .. n /\ g[0] = 0
                  /\ \A i \in 1 .. n : g[i] = SevereFold(bs, g[i - 1], bs[i])
                  /\ SevereCount(bs) = g[n]
<1>1. SevereCount(bs) = Counting!Fold(bs, 0, bs)
    BY DEF SevereCount, SevereFold, FoldLeft, MapThenFoldSet, Max,
           Counting!Fold, Counting!Latest
<1>2. PICK g : Counting!Traces(bs, 0, bs, n, g) /\ Counting!Fold(bs, 0, bs) = g[n]
    BY Upward, Counting!FoldIsTraced DEF Counting!Induction
<1> QED
    BY <1>1, <1>2 DEF Counting!Traces

BandAt(b, e, level) ==
    /\ b.start \in Nat /\ b.end \in Nat /\ b.level \in Grave
    /\ 1 <= b.start /\ b.start <= b.end /\ b.end <= e
    /\ \A q \in Spans(b) : level[q] = b.level

LEMMA EndsAt ==
    ASSUME NEW e \in Nat, NEW level, NEW bs, Banded(bs, e, level), NEW k \in DOMAIN bs
    PROVE  BandAt(bs[k], e, level)
<1>1. PICK b : b = bs[k]
    OBVIOUS
<1>2. /\ b.start \in Nat /\ b.end \in Nat /\ b.level \in Grave
      /\ 1 <= b.start /\ b.start <= b.end /\ b.end <= e
      /\ \A q \in Spans(b) : level[q] = b.level
    BY <1>1, Ends
<1> QED
    BY <1>1, <1>2, Zenon DEF BandAt

(* The severe bands count each severe frame once.                           *)
LEMMA SevereCounted ==
    ASSUME NEW m \in Nat, NEW level, NEW bs, Banded(bs, m, level)
    PROVE  SevereCount(bs) = Cardinality({i \in 1 .. m : level[i] = "severe"})
<1>1. PICK n \in Nat : n = Len(bs) /\ DOMAIN bs = 1 .. n
    BY DEF Banded
<1>2. PICK g : /\ DOMAIN g = 0 .. n /\ g[0] = 0
               /\ \A i \in 1 .. n : g[i] = SevereFold(bs, g[i - 1], bs[i])
               /\ SevereCount(bs) = g[n]
    BY <1>1, CountTraced
<1>3. ASSUME NEW k \in 1 .. n
      PROVE  /\ bs[k].start \in Nat /\ bs[k].end \in Nat /\ bs[k].level \in Grave
             /\ 1 <= bs[k].start /\ bs[k].start <= bs[k].end /\ bs[k].end <= m
             /\ \A q \in Spans(bs[k]) : level[q] = bs[k].level
    <2>1. k \in DOMAIN bs
        BY <1>1
    <2> QED
        <3>1. BandAt(bs[k], m, level)
            BY <2>1, EndsAt
        <3> QED
            BY <3>1, Zenon DEF BandAt
<1>4. PICK C : C = [j \in 0 .. n |-> {q \in 1 .. m : \E k \in 1 .. j : q \in Spans(bs[k]) /\ bs[k].level = "severe"}]
    OBVIOUS
<1>5. \A j \in 0 .. n : IsFiniteSet(C[j]) /\ Cardinality(C[j]) \in Nat
    <2> SUFFICES ASSUME NEW j \in 0 .. n PROVE IsFiniteSet(C[j]) /\ Cardinality(C[j]) \in Nat
        OBVIOUS
    <2>1. C[j] \in SUBSET (1 .. m) /\ IsFiniteSet(1 .. m)
        BY <1>4, FS_Interval
    <2> QED
        BY <2>1, FS_Subset, FS_CardinalityType
<1>6. PICK S : S = {j \in 0 .. n : g[j] = Cardinality(C[j])}
    OBVIOUS
<1>7. 0 \in S
    <2>1. C[0] = {}
        BY <1>4
    <2>2. Cardinality({}) = 0
        BY FS_EmptySet
    <2> QED
        <3>1. g[0] = Cardinality(C[0]) /\ 0 \in 0 .. n
            BY <1>2, <2>1, <2>2
        <3> QED
            BY <1>6, <3>1
<1>8. ASSUME NEW j \in 0 .. n - 1, j \in S PROVE j + 1 \in S
    <2>1. j + 1 \in 1 .. n /\ j + 1 \in 0 .. n /\ j + 1 - 1 = j /\ j \in 0 .. n
          /\ 1 .. j + 1 = (1 .. j) \cup {j + 1}
        OBVIOUS
    <2>2. PICK b : b = bs[j + 1]
        OBVIOUS
    <2>3. g[j + 1] = SevereFold(bs, g[j], b) /\ g[j] = Cardinality(C[j])
        <3>1. j \in {x \in 0 .. n : g[x] = Cardinality(C[x])}
            BY <1>6, <1>8
        <3>2. g[j + 1] = SevereFold(bs, g[j + 1 - 1], bs[j + 1])
            BY <1>2, <2>1
        <3> QED
            BY <2>1, <2>2, <3>1, <3>2
    <2>4. CASE b.level # "severe"
        <3>1. C[j + 1] = C[j]
            BY <1>4, <2>1, <2>2, <2>4
        <3> QED
            BY <1>6, <2>1, <2>3, <2>4, <3>1 DEF SevereFold
    <2>5. CASE b.level = "severe"
        <3>1. C[j + 1] = C[j] \cup Spans(b)
            <4>1. \A q \in Spans(b) : q \in 1 .. m
                BY <1>3, <2>1, <2>2 DEF Spans
            <4> QED
                BY <1>4, <2>1, <2>2, <2>5, <4>1
        <3>2. C[j] \cap Spans(b) = {}
            <4> SUFFICES ASSUME NEW q \in Spans(b), q \in C[j] PROVE FALSE
                OBVIOUS
            <4>1. PICK k \in 1 .. j : q \in Spans(bs[k])
                BY <1>4, <2>1
            <4>2. k \in 1 .. n /\ k < j + 1
                OBVIOUS
            <4>3. bs[k].end < b.start
                BY <1>1, <2>1, <2>2, <4>2 DEF Banded
            <4> QED
                BY <1>3, <2>1, <2>2, <4>1, <4>2, <4>3 DEF Spans
        <3>3. b.start \in Nat /\ b.end \in Nat /\ b.start <= b.end
            BY <1>3, <2>1, <2>2
        <3>4. IsFiniteSet(Spans(b)) /\ Cardinality(Spans(b)) = b.end - b.start + 1
            <4>1. PICK x, y \in Nat : x = b.start /\ y = b.end /\ x <= y
                BY <3>3
            <4>2. IsFiniteSet(x .. y) /\ Cardinality(x .. y) = y - x + 1
                <5>1. IF x > y THEN FALSE ELSE TRUE
                    BY <4>1
                <5> QED
                    BY <5>1, FS_Interval
            <4> QED
                BY <4>1, <4>2 DEF Spans
        <3>5. Cardinality(C[j + 1]) = Cardinality(C[j]) + Cardinality(Spans(b)) - Cardinality({})
            BY <1>5, <2>1, <3>1, <3>2, <3>4, FS_Union
        <3>6. Cardinality(C[j + 1]) = Cardinality(C[j]) + b.end - b.start + 1
            BY <1>5, <2>1, <3>3, <3>4, <3>5, FS_EmptySet
        <3> QED
            BY <1>6, <2>1, <2>3, <2>5, <3>6 DEF SevereFold
    <2> QED
        BY <2>4, <2>5
<1>9. n \in S
    <2>1. \A j \in 0 .. n - 1 : j \in S => j + 1 \in S
        BY <1>8
    <2>2. \A j \in 0 .. n : j \in S
        BY <1>7, <2>1, UpTo
    <2> QED
        BY <2>2
<1>10. C[n] = {i \in 1 .. m : level[i] = "severe"}
    <2>1. ASSUME NEW q \in 1 .. m, level[q] = "severe"
          PROVE  \E k \in 1 .. n : q \in Spans(bs[k]) /\ bs[k].level = "severe"
        <3>1. PICK k \in 1 .. n : q \in Spans(bs[k])
            BY <1>1, <2>1 DEF Banded
        <3> QED
            BY <1>3, <2>1, <3>1
    <2>2. \A q \in 1 .. m : (\E k \in 1 .. n : q \in Spans(bs[k]) /\ bs[k].level = "severe") => level[q] = "severe"
        BY <1>3
    <2> QED
        BY <1>4, <2>1, <2>2
<1> QED
    BY <1>2, <1>6, <1>9, <1>10

(* A finite set of numbers has a largest.                                   *)
LEMMA Largest ==
    ASSUME NEW S, IsFiniteSet(S), S \subseteq Int, S # {}
    PROVE  Max(S) \in S /\ \A y \in S : Max(S) >= y
<1>1. PICK R : R = {p \in S \X S : p[1] < p[2]}
    OBVIOUS
<1>2. StrictOrder(S, R)
    BY <1>1 DEF StrictOrder
<1>3. PICK n \in Nat : n = Cardinality(S)
    BY FS_CardinalityType
<1>4. n - 1 \in 0 .. n - 1
    BY <1>3, FS_EmptySet
<1>5. PICK x \in S : Cardinality(Below(S, R, x)) = n - 1
    BY <1>2, <1>3, <1>4, RankIsTaken
<1>6. ASSUME NEW y \in S, x < y PROVE FALSE
    <2>1. <<x, y>> \in R
        BY <1>1, <1>6
    <2>2. Cardinality(Below(S, R, x)) < Cardinality(Below(S, R, y))
          /\ Cardinality(Below(S, R, y)) \in 0 .. n - 1
        BY <1>2, <1>3, <2>1, RankGrows
    <2> QED
        BY <1>3, <1>5, <2>2
<1>7. \A y \in S : x >= y
    BY <1>6
<1> QED
    BY <1>7 DEF Max

LEMMA SpreadIsNat == ASSUME NEW n \in Nat, NEW s \in [1 .. n -> Int] PROVE Spread(s) \in Nat
<1>1. PICK v : v = {s[k] : k \in DOMAIN s}
    OBVIOUS
<1>2. PICK D : D = {0} \cup {p[1] - p[2] : p \in v \X v}
    OBVIOUS
<1>3. v \subseteq Int
    BY <1>1
<1>4. IsFiniteSet(v)
    <2>1. s \in Surjection(1 .. n, v) /\ IsFiniteSet(1 .. n)
        BY <1>1, FS_Interval DEF Surjection
    <2> QED
        BY <2>1, FS_Surjection
<1>5. IsFiniteSet(D) /\ D \subseteq Int /\ 0 \in D
    <2>1. IsFiniteSet(v \X v)
        BY <1>4, FS_Product
    <2>2. PICK f : f = [p \in v \X v |-> p[1] - p[2]]
        OBVIOUS
    <2>3. f \in Surjection(v \X v, {p[1] - p[2] : p \in v \X v})
        BY <2>2 DEF Surjection
    <2>4. IsFiniteSet({p[1] - p[2] : p \in v \X v})
        BY <2>1, <2>3, FS_Surjection
    <2> QED
        <3>1. IsFiniteSet({0})
            BY FS_Singleton
        <3>2. IsFiniteSet(D)
            BY <1>2, <2>4, <3>1, FS_Union
        <3>3. \A p \in v \X v : p[1] - p[2] \in Int
            <4> SUFFICES ASSUME NEW p \in v \X v PROVE p[1] - p[2] \in Int
                OBVIOUS
            <4>1. p[1] \in v /\ p[2] \in v
                OBVIOUS
            <4>2. p[1] \in Int /\ p[2] \in Int
                BY <1>3, <4>1
            <4> QED
                BY <4>2
        <3> QED
            BY <1>2, <3>2, <3>3
<1>6. Max(D) \in D /\ Max(D) >= 0
    BY <1>5, Largest
<1>7. Spread(s) = Max(D)
    BY <1>1, <1>2 DEF Spread
<1> QED
    <2>1. Max(D) \in Int
        BY <1>5, <1>6
    <2>2. Max(D) \in Nat
        BY <1>6, <2>1
    <2> QED
        BY <1>7, <2>2

LEMMA ScaleIsNat ==
    ASSUME NEW x \in Nat, NEW y \in Nat PROVE Max({x, y}) \in Nat
<1>1. IsFiniteSet({x, y})
    <2>1. {x, y} = {x} \cup {y}
        OBVIOUS
    <2> QED
        <3>1. IsFiniteSet({x}) /\ IsFiniteSet({y})
            BY FS_Singleton
        <3> QED
            BY <2>1, <3>1, FS_Union
<1> QED
    BY <1>1, Largest

LEMMA LevelExact ==
    ASSUME NEW far \in Int, NEW scale \in Nat
    PROVE  /\ Level(far, scale) \in LevelNames
           /\ Level(far, scale) = "severe" <=> far > 30 * scale
           /\ Level(far, scale) # "none" <=> far > 15 * scale
<1>1. 30 * scale \in Int /\ 15 * scale \in Int /\ 15 * scale <= 30 * scale
    OBVIOUS
<1>2. CASE far > 30 * scale
    BY <1>1, <1>2 DEF Level, LevelNames
<1>3. CASE far > 15 * scale /\ far <= 30 * scale
    BY <1>1, <1>3 DEF Level, LevelNames
<1>4. CASE far <= 15 * scale
    BY <1>1, <1>4 DEF Level, LevelNames
<1> QED
    BY <1>1, <1>2, <1>3, <1>4

(* The bands of levels on m frames are the runs of the graded levels.       *)
LEMMA ComputedBanded ==
    ASSUME NEW m \in Nat, NEW levels \in [1 .. m -> LevelNames]
    PROVE  LET rs == Runs(levels)
               bands == Joined([k \in DOMAIN rs |-> Downgraded(rs[k])])
           IN  Banded(bands, m, Graded(levels, m)) /\ Apart(bands)
<1>1. PICK rs : rs = Runs(levels)
    OBVIOUS
<1>2. PICK ds : ds = [k \in DOMAIN rs |-> Downgraded(rs[k])]
    OBVIOUS
<1>3. Banded(ds, m, Graded(levels, m))
    BY <1>1, <1>2, RunsBanded, DowngradedBanded
<1>4. Banded(Joined(ds), m, Graded(levels, m)) /\ Apart(Joined(ds))
    BY <1>3, JoinedBanded
<1> QED
    BY <1>1, <1>2, <1>4

LEMMA BandsExact ==
    ASSUME NEW n \in Nat, NEW m \in 0 .. n, NEW obs \in [1 .. n -> Int], NEW act \in [1 .. m -> Int]
    PROVE  BandsOf(obs, act, m)
<1> DEFINE scale == Max({Spread(SubSeq(obs, 1, m)), Spread(act)})
           over(percent) == {i \in 1 .. m : scale # 0 /\ 100 * Distance(obs[i], act[i]) > percent * scale}
           diverging == over(15)
           severe == over(30)
           sustained == {i \in 1 .. m : \E a \in 1 .. i : /\ a + MinSevereRun - 1 \in i .. m
                                                          /\ a .. a + MinSevereRun - 1 \subseteq severe}
           level == [i \in 0 .. m + 1 |-> IF i \in sustained THEN "severe"
                                          ELSE IF i \in diverging THEN "moderate" ELSE "none"]
           runs == {r \in [start : 1 .. m, end : 1 .. m, level : {"moderate", "severe"}] :
                      /\ r.start <= r.end
                      /\ \A k \in r.start .. r.end : level[k] = r.level
                      /\ level[r.start - 1] # r.level /\ level[r.end + 1] # r.level}
           bands == ComputeBands(obs, act)
<1> SUFFICES /\ Range(bands) = runs
             /\ \A k \in 1 .. Len(bands) - 1 : bands[k].end < bands[k + 1].start
             /\ SevereFrames(obs, act) = Cardinality({i \in 1 .. m : level[i] = "severe"})
    BY DEF BandsOf
<1>1. PICK s : s = scale
    OBVIOUS
<1>2. s \in Nat
    <2>1. SubSeq(obs, 1, m) \in [1 .. m -> Int]
        <3>1. obs \in Seq(Int) /\ Len(obs) = n
            OBVIOUS
        <3>2. SubSeq(obs, 1, m) = Restrict(obs, 1 .. m)
            BY <3>1, SubSeqRestrict
        <3>3. \A k \in 1 .. m : obs[k] \in Int
            OBVIOUS
        <3> QED
            BY <3>2, <3>3 DEF Restrict
    <2>2. Spread(SubSeq(obs, 1, m)) \in Nat /\ Spread(act) \in Nat
        <3>1. m \in Nat
            OBVIOUS
        <3>2. Spread(act) \in Nat
            BY <3>1, SpreadIsNat
        <3>3. Spread(SubSeq(obs, 1, m)) \in Nat
            BY <2>1, <3>1, SpreadIsNat
        <3> QED
            BY <3>2, <3>3
    <2> QED
        BY <1>1, <2>2, ScaleIsNat
<1>3. Common(obs, act) = m /\ Scale(obs, act) = s
    <2>1. obs \in Seq(Int) /\ Len(obs) = n /\ act \in Seq(Int) /\ Len(act) = m
        OBVIOUS
    <2>2. Common(obs, act) = m
        BY <2>1 DEF Common
    <2>3. SubSeq(act, 1, m) = act
        BY <2>1
    <2> QED
        BY <1>1, <2>2, <2>3 DEF Scale
<1>4. PICK far : far = [i \in 1 .. m |-> 100 * Distance(act[i], obs[i])]
    OBVIOUS
<1>5. \A i \in 1 .. m : far[i] \in Int /\ far[i] = 100 * Distance(obs[i], act[i])
    BY <1>4 DEF Distance
<1>6. PICK over30, over15 : /\ over30 = severe
                            /\ over15 = diverging
    OBVIOUS
<1>7. /\ over30 \subseteq 1 .. m /\ over15 \subseteq 1 .. m
      /\ \A i \in 1 .. m : /\ i \in over30 <=> s # 0 /\ far[i] > 30 * s
                           /\ i \in over15 <=> s # 0 /\ far[i] > 15 * s
    BY <1>1, <1>5, <1>6
<1>8. PICK lv : lv = level
    OBVIOUS
<1>9. /\ lv[0] = "none" /\ lv[m + 1] = "none"
      /\ \A i \in 1 .. m :
           lv[i] = IF \E a \in 1 .. i : /\ a + MinSevereRun - 1 \in i .. m
                                        /\ \A k \in a .. a + MinSevereRun - 1 : k \in over30
                   THEN "severe" ELSE IF i \in over15 THEN "moderate" ELSE "none"
    <2>1. 0 \in 0 .. m + 1 /\ m + 1 \in 0 .. m + 1 /\ 0 \notin 1 .. m /\ m + 1 \notin 1 .. m
          /\ \A i \in 1 .. m : i \in 0 .. m + 1
        OBVIOUS
    <2>2. PICK held : held = sustained
        OBVIOUS
    <2>3. held \subseteq 1 .. m /\ \A i \in 1 .. m :
            i \in held <=> \E a \in 1 .. i : /\ a + MinSevereRun - 1 \in i .. m
                                             /\ \A k \in a .. a + MinSevereRun - 1 : k \in over30
        BY <1>6, <2>2
    <2>4. lv = [i \in 0 .. m + 1 |-> IF i \in held THEN "severe" ELSE IF i \in over15 THEN "moderate" ELSE "none"]
        BY <1>6, <1>8, <2>2
    <2>5. lv[0] = "none" /\ lv[m + 1] = "none"
        BY <1>7, <2>1, <2>3, <2>4
    <2>6. \A i \in 1 .. m : lv[i] = IF i \in held THEN "severe" ELSE IF i \in over15 THEN "moderate" ELSE "none"
        BY <2>1, <2>4
    <2> QED
        BY <2>3, <2>5, <2>6
<1>10. PICK bs : bs = bands
    OBVIOUS
<1>11. Banded(bs, m, lv) /\ Apart(bs)
    <2>1. CASE s = 0
        <3>1. over30 = {} /\ over15 = {}
            BY <1>6, <1>7, <2>1
        <3>2. ASSUME NEW i \in 1 .. m PROVE lv[i] = "none"
            <4>1. ASSUME NEW a \in 1 .. i
                  PROVE  ~\A k \in a .. a + MinSevereRun - 1 : k \in over30
                <5>1. a \in a .. a + MinSevereRun - 1
                    BY AutoGradeBandsAssumption
                <5> QED
                    BY <3>1, <5>1
            <4> QED
                BY <1>9, <3>1, <4>1
        <3>3. PICK levels : levels = Levels(obs, act)
            OBVIOUS
        <3>4. levels \in [1 .. 0 -> LevelNames]
            <4>1. \A i \in 1 .. 0 : FALSE
                OBVIOUS
            <4> QED
                BY <1>3, <2>1, <3>3, <4>1 DEF Levels
        <3>5. Banded(bs, 0, Graded(levels, 0)) /\ Apart(bs)
            <4>0. PICK z \in Nat : z = 0
                OBVIOUS
            <4>z. LET rs == Runs(levels)
                      bb == Joined([k \in DOMAIN rs |-> Downgraded(rs[k])])
                  IN  Banded(bb, z, Graded(levels, z)) /\ Apart(bb)
                BY <3>4, <4>0, ComputedBanded
            <4>1. LET rs == Runs(levels)
                      bb == Joined([k \in DOMAIN rs |-> Downgraded(rs[k])])
                  IN  Banded(bb, 0, Graded(levels, 0)) /\ Apart(bb)
                BY <4>0, <4>z
            <4> QED
                BY <1>10, <3>3, <4>1 DEF ComputeBands
        <3>6. DOMAIN bs = {} /\ bs \in Seq(BandType)
            <4>1. \A k \in DOMAIN bs : FALSE
                BY <3>5, Ends
            <4> QED
                BY <3>5, <4>1 DEF Banded
        <3>7. Banded(bs, m, lv)
            BY <3>2, <3>6 DEF Banded
        <3> QED
            BY <3>5, <3>7
    <2>2. CASE s # 0
        <3>1. PICK levels : levels = Levels(obs, act)
            OBVIOUS
        <3>2. levels = [i \in 1 .. m |-> Level(far[i], s)]
            BY <1>3, <1>4, <2>2, <3>1 DEF Levels
        <3>3. levels \in [1 .. m -> LevelNames]
            BY <1>2, <1>5, <3>2, LevelExact
        <3>4. \A i \in 1 .. m : /\ levels[i] = "severe" <=> i \in over30
                                /\ levels[i] # "none" <=> i \in over15
            BY <1>2, <1>5, <1>7, <2>2, <3>2, LevelExact
        <3>5. ASSUME NEW i \in 1 .. m PROVE lv[i] = Graded(levels, m)[i]
            <4>1. ASSUME NEW a \in 1 .. i, a + MinSevereRun - 1 \in i .. m
                  PROVE  (\A k \in a .. a + MinSevereRun - 1 : k \in over30)
                           <=> \A k \in a .. a + MinSevereRun - 1 : levels[k] = "severe"
                <5>1. \A k \in a .. a + MinSevereRun - 1 : k \in 1 .. m
                    BY <4>1, AutoGradeBandsAssumption
                <5> QED
                    BY <3>4, <5>1
            <4>2. Sustained(levels, m, i) <=>
                    \E a \in 1 .. i : /\ a + MinSevereRun - 1 \in i .. m
                                      /\ \A k \in a .. a + MinSevereRun - 1 : k \in over30
                BY <4>1 DEF Sustained
            <4> QED
                BY <1>9, <3>4, <4>2 DEF Graded
        <3>6. Banded(bs, m, Graded(levels, m)) /\ Apart(bs)
            <4>1. LET rs == Runs(levels)
                      bb == Joined([k \in DOMAIN rs |-> Downgraded(rs[k])])
                  IN  Banded(bb, m, Graded(levels, m)) /\ Apart(bb)
                <5>1. m \in Nat
                    OBVIOUS
                <5> QED
                    BY <3>3, <5>1, ComputedBanded
            <4> QED
                BY <1>10, <3>1, <4>1 DEF ComputeBands
        <3>7. \A k \in DOMAIN bs : \A q \in Spans(bs[k]) : q \in 1 .. m
            BY <3>6, Ends DEF Spans
        <3>8. Banded(bs, m, lv)
            BY <3>5, <3>6, <3>7 DEF Banded
        <3> QED
            BY <3>6, <3>8
    <2> QED
        BY <2>1, <2>2
<1>12. Range(bs) = {r \in [start : 1 .. m, end : 1 .. m, level : {"moderate", "severe"}] :
                      /\ r.start <= r.end
                      /\ \A k \in r.start .. r.end : lv[k] = r.level
                      /\ lv[r.start - 1] # r.level /\ lv[r.end + 1] # r.level}
    BY <1>9, <1>11, BandsAreTheRuns
<1>13. \A k \in 1 .. Len(bs) - 1 : bs[k].end < bs[k + 1].start
    <2>1. PICK l \in Nat : l = Len(bs) /\ DOMAIN bs = 1 .. l
        BY <1>11 DEF Banded
    <2>2. \A k \in 1 .. l - 1 : k \in 1 .. l /\ k + 1 \in 1 .. l /\ k < k + 1
        OBVIOUS
    <2> QED
        BY <1>11, <2>1, <2>2 DEF Banded
<1>14. SevereFrames(obs, act) = Cardinality({i \in 1 .. m : lv[i] = "severe"})
    <2>1. SevereCount(bs) = Cardinality({i \in 1 .. m : lv[i] = "severe"})
        BY <1>11, SevereCounted
    <2>2. SevereFrames(obs, act) = SevereCount(bs)
        BY <1>10 DEF SevereFrames, SevereCount
    <2> QED
        BY <2>1, <2>2
<1> HIDE DEF level, bands
<1> QED
    BY <1>8, <1>10, <1>12, <1>13, <1>14

----------------------------------------------------------------------------
(* WHAT A TRACE SHOWS.                                                      *)

(* The values of a trace stay whole numbers, as many as were observed.      *)
THEOREM TraceIsTyped == Spec => []TraceTyped
<1>1. Init => TraceTyped
    BY DEF Init, TraceTyped
<1>2. ASSUME TraceTyped, [Next]_vars PROVE TraceTyped'
    <2>1. CASE UNCHANGED trace
        BY <1>2, <2>1 DEF TraceTyped
    <2>2. ASSUME NEW s \in Samples, Observe(s) PROVE TraceTyped'
        <3>1. s \in Int \X Int
            BY EditsAssumption DEF EditsAssumption
        <3> QED
            BY <1>2, <2>2, <3>1 DEF TraceTyped, Observe
    <2>3. [Next]_vars => UNCHANGED trace \/ \E s \in Samples : Observe(s)
        BY DEF Next, vars, DeleteInto, Split, DeleteInPlace, Merge, Stamp, Into, Edit, CheckQuick, CheckFull
    <2> QED
        BY <1>2, <2>1, <2>2, <2>3
<1> QED
    BY <1>1, <1>2, PTL DEF Spec

(* compute_bands returns the maximal runs of a level and no others, in order, *)
(* and severe_frames counts the frames that are severe: for series of any   *)
(* length and values (BandsAreMaximal).                                     *)
THEOREM BandsAreThoseMeant == Spec => []BandsAreMaximal
<1>1. ASSUME TraceTyped PROVE BandsAreMaximal
    <2> SUFFICES ASSUME NEW m \in {Len(trace), Len(trace) - 1} \cap Nat
                 PROVE  BandsOf([k \in DOMAIN trace |-> trace[k][1]], [k \in 1 .. m |-> trace[k][2]], m)
        BY DEF BandsAreMaximal
    <2>1. PICK n \in Nat : n = Len(trace) /\ DOMAIN trace = 1 .. n
        BY <1>1 DEF TraceTyped
    <2>2. m \in 0 .. n
        BY <2>1
    <2>3. \A k \in 1 .. n : trace[k] \in Int \X Int
        BY <1>1, <2>1 DEF TraceTyped
    <2>4. [k \in DOMAIN trace |-> trace[k][1]] \in [1 .. n -> Int]
          /\ [k \in 1 .. m |-> trace[k][2]] \in [1 .. m -> Int]
        BY <2>1, <2>2, <2>3
    <2> QED
        BY <2>1, <2>2, <2>4, BandsExact
<1> QED
    BY <1>1, TraceIsTyped, PTL

----------------------------------------------------------------------------
(* SEQUENCES SORTED, KEPT AND JOINED.                                       *)

(* Places of a sequence, in order.                                          *)
Picks(at, K) ==
    /\ at \in [1 .. Cardinality(K) -> K]
    /\ \A x \in K : \E i \in 1 .. Cardinality(K) : at[i] = x
    /\ \A i, j \in 1 .. Cardinality(K) : i < j => at[i] < at[j]

KeptAt(s, K) ==
    /\ IsFiniteSet(K) /\ Cardinality(K) \in Nat
    /\ \E at : Picks(at, K) /\ Kept(s, K) = [i \in 1 .. Cardinality(K) |-> s[at[i]]]

LEMMA KeptPicks ==
    ASSUME NEW s, NEW n \in Nat, NEW K \in SUBSET (1 .. n)
    PROVE  KeptAt(s, K)
<1>1. IsFiniteSet(K) /\ Cardinality(K) \in Nat
    <2>1. IsFiniteSet(1 .. n)
        BY FS_Interval
    <2>2. IsFiniteSet(K)
        BY <2>1, FS_Subset
    <2> QED
        BY <2>2, FS_CardinalityType
<1>2. PICK R : R = {p \in K \X K : p[1] < p[2]}
    OBVIOUS
<1>3. StrictOrder(K, R)
    BY <1>2 DEF StrictOrder
<1>4. PICK at : at = Ordered(K, R)
    OBVIOUS
<1>5. Lists(at, K, R)
    BY <1>1, <1>3, <1>4, OrderedLists
<1>6. Picks(at, K)
    BY <1>2, <1>5 DEF Lists, Picks
<1>7. Kept(s, K) = [i \in 1 .. Cardinality(K) |-> s[at[i]]]
    <2>1. DOMAIN at = 1 .. Cardinality(K)
        BY <1>6 DEF Picks
    <2> QED
        BY <1>2, <1>4, <2>1 DEF Kept
<1> QED
    BY <1>1, <1>6, <1>7 DEF KeptAt

(* Places by a key, and by themselves where keys are equal.                 *)
Sorts(at, key, n) ==
    /\ at \in [1 .. n -> 1 .. n]
    /\ \A x \in 1 .. n : \E i \in 1 .. n : at[i] = x
    /\ \A i, j \in 1 .. n : i < j => key[at[i]] <= key[at[j]] /\ at[i] # at[j]

SortedAt(s, key, n) == \E at : Sorts(at, key, n) /\ SortedBy(s, key) = [k \in 1 .. n |-> s[at[k]]]

LEMMA SortedBySorts ==
    ASSUME NEW s, NEW n \in Nat, DOMAIN s = 1 .. n, NEW key, \A k \in 1 .. n : key[k] \in Int
    PROVE  SortedAt(s, key, n)
<1>1. IsFiniteSet(1 .. n) /\ Cardinality(1 .. n) = n
    BY FS_Interval
<1>2. PICK R : R = {p \in (1 .. n) \X (1 .. n) :
                      key[p[1]] < key[p[2]] \/ (key[p[1]] = key[p[2]] /\ p[1] < p[2])}
    OBVIOUS
<1>3. StrictOrder(1 .. n, R)
    <2>1. \A x, y \in 1 .. n : <<x, y>> \in R <=> key[x] < key[y] \/ (key[x] = key[y] /\ x < y)
        BY <1>2
    <2> QED
        BY <2>1 DEF StrictOrder
<1>4. PICK at : at = Ordered(1 .. n, R)
    OBVIOUS
<1>5. Lists(at, 1 .. n, R)
    BY <1>1, <1>3, <1>4, OrderedLists
<1>6. Sorts(at, key, n)
    <2>1. at \in [1 .. n -> 1 .. n] /\ (\A x \in 1 .. n : \E i \in 1 .. n : at[i] = x)
          /\ \A i, j \in 1 .. n : i < j => <<at[i], at[j]>> \in R /\ at[i] # at[j]
        BY <1>1, <1>5 DEF Lists
    <2>2. ASSUME NEW i \in 1 .. n, NEW j \in 1 .. n, i < j PROVE key[at[i]] <= key[at[j]]
        <3>1. PICK x, y \in 1 .. n : x = at[i] /\ y = at[j]
            BY <2>1
        <3>2. <<x, y>> \in R
            BY <2>1, <2>2, <3>1
        <3>3. key[x] < key[y] \/ key[x] = key[y]
            BY <1>2, <3>2
        <3> QED
            BY <3>1, <3>3
    <2> QED
        BY <2>1, <2>2 DEF Sorts
<1>7. SortedBy(s, key) = [k \in 1 .. n |-> s[at[k]]]
    BY <1>2, <1>4 DEF SortedBy
<1> QED
    BY <1>6, <1>7 DEF SortedAt

(* In the order of such keys, N of them that take every value below N are   *)
(* 0, 1, 2, ...                                                             *)
LEMMA KeysCount ==
    ASSUME NEW n \in Nat, NEW key, \A k \in 1 .. n : key[k] \in Int,
           \A v \in 0 .. n - 1 : \E k \in 1 .. n : key[k] = v,
           NEW at, Sorts(at, key, n)
    PROVE  \A k \in 1 .. n : key[at[k]] = k - 1
<1>1. PICK f : f = [k \in 1 .. n |-> key[at[k]]]
    OBVIOUS
<1>2. \A k \in 1 .. n : at[k] \in 1 .. n
    BY DEF Sorts
<1>3. f \in [1 .. n -> Int] /\ \A i, j \in 1 .. n : i < j => f[i] <= f[j]
    BY <1>1, <1>2 DEF Sorts
<1>4. \A v \in 0 .. n - 1 : \E k \in 1 .. n : f[k] = v
    <2> SUFFICES ASSUME NEW v \in 0 .. n - 1 PROVE \E k \in 1 .. n : f[k] = v
        OBVIOUS
    <2>1. PICK x \in 1 .. n : key[x] = v
        OBVIOUS
    <2>2. PICK k \in 1 .. n : at[k] = x
        BY DEF Sorts
    <2> QED
        BY <1>1, <2>1, <2>2
<1>5. PICK V : V = {f[k] : k \in 1 .. n}
    OBVIOUS
<1>6. f \in Surjection(1 .. n, V) /\ IsFiniteSet(1 .. n) /\ Cardinality(1 .. n) = n
    BY <1>3, <1>5, FS_Interval DEF Surjection
<1>7. IsFiniteSet(V) /\ Cardinality(V) <= n /\ (Cardinality(V) = n <=> f \in Injection(1 .. n, V))
    BY <1>6, FS_Surjection
<1>8. 0 .. n - 1 \in SUBSET V
    BY <1>4, <1>5
<1>9. Cardinality(0 .. n - 1) = n /\ Cardinality(V) \in Nat
    BY <1>7, FS_Interval, FS_CardinalityType
<1>10. Cardinality(V) = n /\ 0 .. n - 1 = V
    <2>1. Cardinality(0 .. n - 1) <= Cardinality(V)
        BY <1>7, <1>8, FS_Subset
    <2>2. Cardinality(V) = n
        BY <1>7, <1>9, <2>1
    <2> QED
        BY <1>7, <1>8, <1>9, <2>2, FS_Subset
<1>11. \A i, j \in 1 .. n : i < j => f[i] < f[j]
    <2>1. \A i, j \in 1 .. n : f[i] = f[j] => i = j
        BY <1>7, <1>10 DEF Injection, IsInjective
    <2> QED
        BY <1>3, <2>1
<1>12. \A k \in 1 .. n : f[k] \in 0 .. n - 1
    BY <1>5, <1>10
<1>13. \A k \in 0 .. n : k # 0 => f[k] >= k - 1
    <2>1. PICK S : S = {k \in 0 .. n : k # 0 => f[k] >= k - 1}
        OBVIOUS
    <2>2. 0 \in S
        BY <2>1
    <2>3. ASSUME NEW k \in 0 .. n - 1, k \in S PROVE k + 1 \in S
        <3>1. k + 1 \in 1 .. n /\ k + 1 \in 0 .. n /\ f[k + 1] \in 0 .. n - 1
            BY <1>12
        <3>2. k # 0 => k \in 1 .. n /\ f[k] \in 0 .. n - 1 /\ f[k] < f[k + 1] /\ f[k] >= k - 1
            BY <1>11, <1>12, <2>1, <2>3, <3>1
        <3> QED
            BY <2>1, <3>1, <3>2
    <2>4. \A k \in 0 .. n - 1 : k \in S => k + 1 \in S
        BY <2>3
    <2>5. \A k \in 0 .. n : k \in S
        BY <2>2, <2>4, UpTo
    <2> QED
        BY <2>1, <2>5
<1>14. \A k \in 0 .. n : k # n => f[n - k] <= n - k - 1
    <2>1. PICK S : S = {k \in 0 .. n : k # n => f[n - k] <= n - k - 1}
        OBVIOUS
    <2>2. 0 \in S
        <3>1. n # 0 => n \in 1 .. n /\ f[n] \in 0 .. n - 1
            BY <1>12
        <3> QED
            BY <2>1, <3>1
    <2>3. ASSUME NEW k \in 0 .. n - 1, k \in S PROVE k + 1 \in S
        <3>1. k + 1 \in 0 .. n /\ n - k \in 1 .. n /\ f[n - k] <= n - k - 1 /\ f[n - k] \in Int
            BY <1>12, <2>1, <2>3
        <3>2. k + 1 # n => n - (k + 1) \in 1 .. n /\ n - (k + 1) < n - k
            OBVIOUS
        <3>3. k + 1 # n => f[n - (k + 1)] < f[n - k] /\ f[n - (k + 1)] \in Int
            BY <1>11, <1>12, <3>1, <3>2
        <3> QED
            BY <2>1, <3>1, <3>3
    <2>4. \A k \in 0 .. n - 1 : k \in S => k + 1 \in S
        BY <2>3
    <2>5. \A k \in 0 .. n : k \in S
        BY <2>2, <2>4, UpTo
    <2> QED
        BY <2>1, <2>5
<1>15. ASSUME NEW k \in 1 .. n PROVE f[k] = k - 1
    <2>1. f[k] >= k - 1 /\ f[k] \in Int
        BY <1>12, <1>13
    <2>2. n - k \in 0 .. n /\ n - k # n /\ n - (n - k) = k
        OBVIOUS
    <2>3. f[k] <= k - 1
        BY <1>14, <2>2
    <2> QED
        BY <2>1, <2>3
<1> QED
    BY <1>1, <1>15

ConcatFold(k, all, s) == all \o s
Concats == INSTANCE FoldProofs WITH Step <- ConcatFold

LEMMA OneMore == ASSUME NEW i \in Nat PROVE 1 .. i + 1 = (1 .. i) \cup {i + 1}
OBVIOUS

LEMMA InSeq ==
    ASSUME NEW A, NEW s \in Seq(A), NEW U, \A k \in DOMAIN s : s[k] \in U PROVE s \in Seq(U)
OBVIOUS

LEMMA Joins ==
    ASSUME NEW A, NEW a \in Seq(A), NEW b \in Seq(A)
    PROVE  /\ a \o b \in Seq(A) /\ Len(a \o b) = Len(a) + Len(b)
           /\ \A k \in 1 .. Len(a) : (a \o b)[k] = a[k]
           /\ \A k \in 1 .. Len(b) : (a \o b)[Len(a) + k] = b[k]
           /\ \A k \in 1 .. Len(a \o b) : k \notin 1 .. Len(a) => k - Len(a) \in 1 .. Len(b)
OBVIOUS

LEMMA JoinsAt ==
    ASSUME NEW A, NEW a \in Seq(A), NEW b \in Seq(A), NEW k \in 1 .. Len(b)
    PROVE  (a \o b)[Len(a) + k] = b[k] /\ Len(a) + k \in 1 .. Len(a \o b)
OBVIOUS

(* Sequences one after the other.                                           *)
LEMMA ConcatTraced ==
    ASSUME NEW ss, NEW m \in Nat, DOMAIN ss = 1 .. m
    PROVE  \E g : /\ DOMAIN g = 0 .. m /\ g[0] = <<>>
                  /\ \A i \in 1 .. m : g[i] = g[i - 1] \o ss[i]
                  /\ Concat(ss) = g[m]
<1>1. Concat(ss) = Concats!Fold(ss, <<>>, ss)
    BY DEF Concat, ConcatFold, FoldLeft, MapThenFoldSet, Max,
           Concats!Fold, Concats!Latest
<1>2. PICK g : Concats!Traces(ss, <<>>, ss, m, g) /\ Concats!Fold(ss, <<>>, ss) = g[m]
    BY Upward, Concats!FoldIsTraced DEF Concats!Induction
<1> QED
    BY <1>1, <1>2 DEF ConcatFold, Concats!Traces

(* m sequences.                                                             *)
Lengthy(ss, m, l) ==
    /\ DOMAIN ss = 1 .. m /\ l \in [1 .. m -> Nat]
    /\ \A i \in 1 .. m : ss[i] \in Seq(Range(ss[i])) /\ Len(ss[i]) = l[i] /\ DOMAIN ss[i] = 1 .. l[i]

Cells(l, m) == {p \in (1 .. m) \X Nat : 1 <= p[2] /\ p[2] <= l[p[1]]}

LEMMA Sums ==
    ASSUME NEW m \in Nat, NEW l \in [1 .. m -> Nat], NEW g, DOMAIN g = 0 .. m, g[0] = 0,
           \A i \in 1 .. m : g[i] = g[i - 1] + l[i]
    PROVE  \A i \in 0 .. m : /\ IsFiniteSet(Cells(l, i)) /\ Cardinality(Cells(l, i)) \in Nat
                             /\ g[i] = Cardinality(Cells(l, i))
<1>1. PICK S : S = {i \in 0 .. m : IsFiniteSet(Cells(l, i)) /\ g[i] = Cardinality(Cells(l, i))}
    OBVIOUS
<1>2. 0 \in S
    <2>1. Cells(l, 0) = {}
        <3>1. \A p \in (1 .. 0) \X Nat : FALSE
            <4> SUFFICES ASSUME NEW p \in (1 .. 0) \X Nat PROVE FALSE
                OBVIOUS
            <4>1. p[1] \in 1 .. 0
                OBVIOUS
            <4> QED
                BY <4>1
        <3> QED
            BY <3>1 DEF Cells
    <2>2. IsFiniteSet({}) /\ Cardinality({}) = 0
        BY FS_EmptySet
    <2>3. 0 \in 0 .. m /\ IsFiniteSet(Cells(l, 0)) /\ g[0] = Cardinality(Cells(l, 0))
        <3>1. 0 \in 0 .. m
            OBVIOUS
        <3>2. IsFiniteSet(Cells(l, 0)) /\ Cardinality(Cells(l, 0)) = 0
            BY <2>1, <2>2, Zenon
        <3> QED
            BY <3>1, <3>2
    <2> QED
        BY <1>1, <2>3
<1>3. ASSUME NEW i \in 0 .. m - 1, i \in S PROVE i + 1 \in S
    <2>1. i + 1 \in 1 .. m /\ i + 1 \in 0 .. m /\ i + 1 - 1 = i /\ 1 .. i + 1 = (1 .. i) \cup {i + 1}
        <3>1. 1 .. i + 1 = (1 .. i) \cup {i + 1}
            BY OneMore
        <3>2. i + 1 \in 1 .. m /\ i + 1 \in 0 .. m /\ i + 1 - 1 = i
            OBVIOUS
        <3> QED
            BY <3>1, <3>2
    <2>2. PICK z \in Nat : z = l[i + 1]
        BY <2>1
    <2>3. PICK R : R = {i + 1} \X (1 .. z)
        OBVIOUS
    <2>4. Cells(l, i + 1) = Cells(l, i) \cup R
        <3>1. ASSUME NEW p, p \in Cells(l, i + 1) PROVE p \in Cells(l, i) \cup R
            <4>1. p \in (1 .. i + 1) \X Nat /\ 1 <= p[2] /\ p[2] <= l[p[1]]
                BY <3>1 DEF Cells
            <4>2. CASE p[1] = i + 1
                <5>1. p[2] \in 1 .. z /\ p = <<p[1], p[2]>>
                    BY <2>2, <4>1, <4>2
                <5> QED
                    BY <2>3, <4>2, <5>1
            <4>3. CASE p[1] # i + 1
                <5>1. p[1] \in 1 .. i /\ p = <<p[1], p[2]>> /\ p[2] \in Nat
                    BY <2>1, <4>1, <4>3
                <5>2. p \in (1 .. i) \X Nat
                    BY <5>1
                <5> QED
                    BY <4>1, <5>2 DEF Cells
            <4> QED
                BY <4>2, <4>3
        <3>2. ASSUME NEW p \in R PROVE p \in Cells(l, i + 1)
            <4>1. p \in (1 .. i + 1) \X Nat /\ 1 <= p[2] /\ p[2] <= z /\ p[1] = i + 1
                BY <2>1, <2>3
            <4> QED
                BY <2>2, <4>1 DEF Cells
        <3>3. ASSUME NEW p \in Cells(l, i) PROVE p \in Cells(l, i + 1)
            <4>1. p \in (1 .. i) \X Nat /\ 1 <= p[2] /\ p[2] <= l[p[1]]
                BY DEF Cells
            <4>2. p \in (1 .. i + 1) \X Nat
                BY <2>1, <4>1
            <4> QED
                BY <4>1, <4>2 DEF Cells
        <3> QED
            BY <3>1, <3>2, <3>3
    <2>5. Cells(l, i) \cap R = {}
        <3> SUFFICES ASSUME NEW p \in R, p \in Cells(l, i) PROVE FALSE
            OBVIOUS
        <3>1. p[1] = i + 1
            BY <2>3
        <3>2. p[1] \in 1 .. i
            BY DEF Cells
        <3> QED
            BY <3>1, <3>2
    <2>6. IsFiniteSet(R) /\ Cardinality(R) = z
        <3>1. IsFiniteSet({i + 1}) /\ Cardinality({i + 1}) = 1
            BY FS_Singleton
        <3>2. IsFiniteSet(1 .. z) /\ Cardinality(1 .. z) = z
            BY FS_Interval
        <3>3. IsFiniteSet(R) /\ Cardinality(R) = Cardinality({i + 1}) * Cardinality(1 .. z)
            BY <2>3, <3>1, <3>2, FS_Product
        <3> QED
            BY <3>1, <3>2, <3>3
    <2>7. IsFiniteSet(Cells(l, i)) /\ g[i] = Cardinality(Cells(l, i)) /\ Cardinality(Cells(l, i)) \in Nat
        <3>1. IsFiniteSet(Cells(l, i)) /\ g[i] = Cardinality(Cells(l, i))
            BY <1>1, <1>3
        <3> QED
            BY <3>1, FS_CardinalityType
    <2>8. /\ IsFiniteSet(Cells(l, i + 1))
          /\ Cardinality(Cells(l, i + 1)) = Cardinality(Cells(l, i)) + Cardinality(R) - Cardinality({})
        <3>1. /\ IsFiniteSet(Cells(l, i) \cup R)
              /\ Cardinality(Cells(l, i) \cup R)
                   = Cardinality(Cells(l, i)) + Cardinality(R) - Cardinality(Cells(l, i) \cap R)
            BY <2>6, <2>7, FS_Union
        <3> QED
            BY <2>4, <2>5, <3>1, Zenon
    <2>9. Cardinality({}) = 0
        BY FS_EmptySet
    <2>10. g[i + 1] = g[i] + z
        BY <2>1, <2>2
    <2>11. g[i + 1] = Cardinality(Cells(l, i + 1))
        BY <2>6, <2>7, <2>8, <2>9, <2>10
    <2> QED
        BY <1>1, <2>1, <2>8, <2>11
<1>4. \A i \in 0 .. m : i \in S
    <2>1. \A i \in 0 .. m - 1 : i \in S => i + 1 \in S
        BY <1>3
    <2> QED
        BY <1>2, <2>1, UpTo
<1>5. ASSUME NEW i \in 0 .. m
      PROVE  IsFiniteSet(Cells(l, i)) /\ Cardinality(Cells(l, i)) \in Nat /\ g[i] = Cardinality(Cells(l, i))
    <2>1. IsFiniteSet(Cells(l, i)) /\ g[i] = Cardinality(Cells(l, i))
        BY <1>1, <1>4
    <2> QED
        BY <2>1, FS_CardinalityType
<1> QED
    BY <1>5

(* What is in a concatenation: as many elements as there are cells, each    *)
(* that of a cell; and of concatenations of one shape, those of one cell.   *)
LEMMA ConcatCells ==
    ASSUME NEW m \in Nat, NEW l, NEW ss, Lengthy(ss, m, l)
    PROVE  /\ \A T : (\A i \in 1 .. m : ss[i] \in Seq(T)) => Concat(ss) \in Seq(T)
           /\ IsFiniteSet(Cells(l, m)) /\ Cardinality(Cells(l, m)) = Len(Concat(ss))
           /\ Len(Concat(ss)) \in Nat /\ DOMAIN Concat(ss) = 1 .. Len(Concat(ss))
           /\ \A p \in Cells(l, m) : \E k \in DOMAIN Concat(ss) : Concat(ss)[k] = ss[p[1]][p[2]]
<1>1. PICK g : /\ DOMAIN g = 0 .. m /\ g[0] = <<>>
               /\ \A i \in 1 .. m : g[i] = g[i - 1] \o ss[i]
               /\ Concat(ss) = g[m]
    BY ConcatTraced DEF Lengthy
<1>2. PICK U : U = UNION {Range(ss[i]) : i \in 1 .. m}
    OBVIOUS
<1>3. \A i \in 1 .. m : ss[i] \in Seq(U) /\ Len(ss[i]) = l[i] /\ l[i] \in Nat
    <2> SUFFICES ASSUME NEW i \in 1 .. m PROVE ss[i] \in Seq(U) /\ Len(ss[i]) = l[i] /\ l[i] \in Nat
        OBVIOUS
    <2>1. ss[i] \in Seq(Range(ss[i])) /\ Len(ss[i]) = l[i] /\ l[i] \in Nat
        BY DEF Lengthy
    <2>2. \A k \in DOMAIN ss[i] : ss[i][k] \in U
        BY <1>2 DEF Range
    <2> QED
        BY <2>1, <2>2, InSeq
<1>4. ASSUME NEW T, \A i \in 1 .. m : ss[i] \in Seq(T)
      PROVE  \A i \in 0 .. m : g[i] \in Seq(T)
    <2>1. PICK S : S = {i \in 0 .. m : g[i] \in Seq(T)}
        OBVIOUS
    <2>2. 0 \in S
        <3>1. g[0] \in Seq(T) /\ 0 \in 0 .. m
            BY <1>1
        <3> QED
            BY <2>1, <3>1
    <2>3. ASSUME NEW i \in 0 .. m - 1, i \in S PROVE i + 1 \in S
        <3>1. i + 1 \in 1 .. m /\ i + 1 \in 0 .. m /\ i + 1 - 1 = i
            OBVIOUS
        <3>2. g[i] \in Seq(T) /\ ss[i + 1] \in Seq(T)
            BY <1>4, <2>1, <2>3, <3>1
        <3>3. g[i + 1] = g[i] \o ss[i + 1]
            BY <1>1, <3>1
        <3>4. g[i + 1] \in Seq(T)
            BY <3>2, <3>3, Joins
        <3> QED
            BY <2>1, <3>1, <3>4
    <2>4. \A i \in 0 .. m - 1 : i \in S => i + 1 \in S
        BY <2>3
    <2>5. \A i \in 0 .. m : i \in S
        BY <2>2, <2>4, UpTo
    <2> QED
        BY <2>1, <2>5
<1>5. \A i \in 0 .. m : g[i] \in Seq(U)
    BY <1>3, <1>4
<1>6. PICK h : h = [i \in 0 .. m |-> Len(g[i])]
    OBVIOUS
<1>7. DOMAIN h = 0 .. m /\ h[0] = 0 /\ \A i \in 1 .. m : h[i] = h[i - 1] + l[i]
    <2>1. h[0] = 0
        BY <1>1, <1>6
    <2>2. ASSUME NEW i \in 1 .. m PROVE h[i] = h[i - 1] + l[i]
        <3>1. i - 1 \in 0 .. m /\ i \in 0 .. m
            OBVIOUS
        <3>2. g[i - 1] \in Seq(U) /\ ss[i] \in Seq(U) /\ g[i] = g[i - 1] \o ss[i] /\ Len(ss[i]) = l[i]
            BY <1>1, <1>3, <1>5, <3>1
        <3>3. Len(g[i]) = Len(g[i - 1]) + Len(ss[i])
            <4>1. PICK a, b : a = g[i - 1] /\ b = ss[i] /\ a \in Seq(U) /\ b \in Seq(U)
                BY <3>2
            <4>2. Len(a \o b) = Len(a) + Len(b)
                BY <4>1, Joins
            <4> QED
                BY <3>2, <4>1, <4>2
        <3> QED
            BY <1>6, <3>1, <3>2, <3>3
    <2> QED
        BY <1>6, <2>1, <2>2
<1>8. \A i \in 0 .. m : IsFiniteSet(Cells(l, i)) /\ h[i] = Cardinality(Cells(l, i))
    <2>1. l \in [1 .. m -> Nat]
        BY DEF Lengthy
    <2> QED
        BY <1>7, <2>1, Sums
<1>9. \A i \in 0 .. m : \A p \in Cells(l, i) : \E k \in 1 .. Len(g[i]) : g[i][k] = ss[p[1]][p[2]]
    <2>1. PICK S : S = {i \in 0 .. m : \A p \in Cells(l, i) : \E k \in 1 .. Len(g[i]) : g[i][k] = ss[p[1]][p[2]]}
        OBVIOUS
    <2>2. 0 \in S
        <3>1. \A p \in (1 .. 0) \X Nat : FALSE
            <4> SUFFICES ASSUME NEW p \in (1 .. 0) \X Nat PROVE FALSE
                OBVIOUS
            <4>1. p[1] \in 1 .. 0
                OBVIOUS
            <4> QED
                BY <4>1
        <3>2. \A p \in Cells(l, 0) : FALSE
            BY <3>1 DEF Cells
        <3> QED
            BY <2>1, <3>2
    <2>3. ASSUME NEW i \in 0 .. m - 1, i \in S PROVE i + 1 \in S
        <3>1. i + 1 \in 1 .. m /\ i + 1 \in 0 .. m /\ i + 1 - 1 = i /\ i \in 0 .. m
            OBVIOUS
        <3>2. PICK a, b : a = g[i] /\ b = ss[i + 1]
            OBVIOUS
        <3>3. a \in Seq(U) /\ b \in Seq(U) /\ g[i + 1] = a \o b /\ Len(b) = l[i + 1]
            <4>1. g[i + 1] = g[i] \o ss[i + 1]
                BY <1>1, <3>1
            <4>2. g[i] \in Seq(U)
                BY <1>5, <3>1
            <4>3. ss[i + 1] \in Seq(U) /\ Len(ss[i + 1]) = l[i + 1]
                BY <1>3, <3>1
            <4> QED
                BY <3>2, <4>1, <4>2, <4>3
        <3>4. ASSUME NEW p \in Cells(l, i + 1) PROVE \E k \in 1 .. Len(g[i + 1]) : g[i + 1][k] = ss[p[1]][p[2]]
            <4>1. p \in (1 .. i + 1) \X Nat /\ 1 <= p[2] /\ p[2] <= l[p[1]]
                BY DEF Cells
            <4>2. p[1] \in 1 .. i + 1 /\ p[2] \in Nat
                BY <4>1
            <4>3. CASE p[1] = i + 1
                <5>1. p[2] \in 1 .. Len(b)
                    BY <3>3, <4>1, <4>2, <4>3
                <5>2. a \in Seq(U) /\ b \in Seq(U)
                    BY <3>3, Zenon
                <5>3. (a \o b)[Len(a) + p[2]] = b[p[2]] /\ Len(a) + p[2] \in 1 .. Len(a \o b)
                    BY <5>1, <5>2, JoinsAt, Zenon
                <5> QED
                    BY <3>2, <3>3, <4>3, <5>3
            <4>4. CASE p[1] # i + 1
                <5>1. p \in (1 .. i) \X Nat
                    <6>1. p[1] \in 1 .. i /\ p = <<p[1], p[2]>>
                        BY <4>1, <4>2, <4>4
                    <6> QED
                        BY <4>2, <6>1
                <5>2. p \in Cells(l, i)
                    BY <4>1, <5>1 DEF Cells
                <5>3. PICK k \in 1 .. Len(a) : a[k] = ss[p[1]][p[2]]
                    BY <2>1, <2>3, <3>2, <5>2
                <5>4. (a \o b)[k] = a[k] /\ k \in 1 .. Len(a \o b)
                    BY <3>3
                <5> QED
                    BY <3>3, <5>3, <5>4
            <4> QED
                BY <4>3, <4>4
        <3> QED
            BY <2>1, <3>1, <3>4
    <2>4. \A i \in 0 .. m - 1 : i \in S => i + 1 \in S
        BY <2>3
    <2>5. \A i \in 0 .. m : i \in S
        BY <2>2, <2>4, UpTo
    <2> QED
        BY <2>1, <2>5
<1>10. m \in 0 .. m /\ g[m] \in Seq(U)
    BY <1>5
<1>11. DOMAIN g[m] = 1 .. Len(g[m]) /\ Len(g[m]) \in Nat
    BY <1>10
<1>12. \A T : (\A i \in 1 .. m : ss[i] \in Seq(T)) => Concat(ss) \in Seq(T)
    BY <1>1, <1>4, <1>10
<1>13. IsFiniteSet(Cells(l, m)) /\ Cardinality(Cells(l, m)) = Len(Concat(ss))
    BY <1>1, <1>6, <1>8, <1>10
<1>14. \A p \in Cells(l, m) : \E k \in DOMAIN Concat(ss) : Concat(ss)[k] = ss[p[1]][p[2]]
    BY <1>1, <1>9, <1>10, <1>11
<1> QED
    BY <1>1, <1>11, <1>12, <1>13, <1>14

LEMMA ConcatTogether ==
    ASSUME NEW m \in Nat, NEW l, NEW ss, Lengthy(ss, m, l), NEW tt, Lengthy(tt, m, l)
    PROVE  /\ DOMAIN Concat(tt) = DOMAIN Concat(ss)
           /\ \A k \in DOMAIN Concat(ss) : \E p \in Cells(l, m) : /\ Concat(ss)[k] = ss[p[1]][p[2]]
                                                                 /\ Concat(tt)[k] = tt[p[1]][p[2]]
<1>1. PICK g : /\ DOMAIN g = 0 .. m /\ g[0] = <<>>
               /\ \A i \in 1 .. m : g[i] = g[i - 1] \o ss[i]
               /\ Concat(ss) = g[m]
    BY ConcatTraced DEF Lengthy
<1>2. PICK h : /\ DOMAIN h = 0 .. m /\ h[0] = <<>>
               /\ \A i \in 1 .. m : h[i] = h[i - 1] \o tt[i]
               /\ Concat(tt) = h[m]
    BY ConcatTraced DEF Lengthy
<1>0. PICK A, B : A = UNION {Range(ss[i]) : i \in 1 .. m} /\ B = UNION {Range(tt[i]) : i \in 1 .. m}
    OBVIOUS
<1>3. PICK U : U = A \cup B
    OBVIOUS
<1>4. \A i \in 1 .. m : /\ ss[i] \in Seq(U) /\ Len(ss[i]) = l[i] /\ l[i] \in Nat
                        /\ tt[i] \in Seq(U) /\ Len(tt[i]) = l[i]
    <2> SUFFICES ASSUME NEW i \in 1 .. m
                 PROVE  /\ ss[i] \in Seq(U) /\ Len(ss[i]) = l[i] /\ l[i] \in Nat
                        /\ tt[i] \in Seq(U) /\ Len(tt[i]) = l[i]
        OBVIOUS
    <2>1. ss[i] \in Seq(Range(ss[i])) /\ Len(ss[i]) = l[i] /\ l[i] \in Nat
          /\ tt[i] \in Seq(Range(tt[i])) /\ Len(tt[i]) = l[i]
        BY DEF Lengthy
    <2>2. (\A k \in DOMAIN ss[i] : ss[i][k] \in U) /\ \A k \in DOMAIN tt[i] : tt[i][k] \in U
        <3>1. ASSUME NEW k \in DOMAIN ss[i] PROVE ss[i][k] \in U
            <4>1. ss[i][k] \in Range(ss[i])
                BY DEF Range
            <4>2. ss[i][k] \in A
                BY <1>0, <4>1
            <4> QED
                BY <1>3, <4>2
        <3>2. ASSUME NEW k \in DOMAIN tt[i] PROVE tt[i][k] \in U
            <4>1. tt[i][k] \in Range(tt[i])
                BY DEF Range
            <4>2. tt[i][k] \in B
                BY <1>0, <4>1
            <4> QED
                BY <1>3, <4>2
        <3> QED
            BY <3>1, <3>2
    <2> QED
        BY <2>1, <2>2, InSeq
<1>5. PICK S : S = {i \in 0 .. m : /\ g[i] \in Seq(U) /\ h[i] \in Seq(U) /\ Len(g[i]) = Len(h[i])
                                   /\ \A k \in 1 .. Len(g[i]) : \E p \in Cells(l, i) :
                                        g[i][k] = ss[p[1]][p[2]] /\ h[i][k] = tt[p[1]][p[2]]}
    OBVIOUS
<1>6. 0 \in S
    <2>1. PICK e : e = <<>>
        OBVIOUS
    <2>2. e \in Seq(U) /\ Len(e) = 0 /\ \A k \in 1 .. Len(e) : FALSE
        BY <2>1
    <2> QED
        BY <1>1, <1>2, <1>5, <2>1, <2>2
<1>7. ASSUME NEW i \in 0 .. m - 1, i \in S PROVE i + 1 \in S
    <2>1. i + 1 \in 1 .. m /\ i + 1 \in 0 .. m /\ i + 1 - 1 = i /\ i \in 0 .. m /\ \A j \in 1 .. i : j \in 1 .. i + 1
        OBVIOUS
    <2>2. PICK a, b, c, d : a = g[i] /\ b = ss[i + 1] /\ c = h[i] /\ d = tt[i + 1]
        OBVIOUS
    <2>3. a \in Seq(U) /\ c \in Seq(U) /\ Len(a) = Len(c)
        BY <1>5, <1>7, <2>2
    <2>4. b \in Seq(U) /\ d \in Seq(U) /\ Len(b) = l[i + 1] /\ Len(d) = l[i + 1]
        BY <1>4, <2>1, <2>2
    <2>5. g[i + 1] = a \o b /\ h[i + 1] = c \o d
        BY <1>1, <1>2, <2>1, <2>2
    <2>6. a \o b \in Seq(U) /\ c \o d \in Seq(U) /\ Len(a \o b) = Len(c \o d)
        <3>1. a \o b \in Seq(U) /\ Len(a \o b) = Len(a) + Len(b)
            BY <2>3, <2>4, Joins, Zenon
        <3>2. c \o d \in Seq(U) /\ Len(c \o d) = Len(c) + Len(d)
            BY <2>3, <2>4, Joins, Zenon
        <3> QED
            BY <2>3, <2>4, <3>1, <3>2, Zenon
    <2>7. ASSUME NEW k \in 1 .. Len(a \o b)
          PROVE  \E p \in Cells(l, i + 1) : (a \o b)[k] = ss[p[1]][p[2]] /\ (c \o d)[k] = tt[p[1]][p[2]]
        <3>1. CASE k \in 1 .. Len(a)
            <4>1. (a \o b)[k] = a[k] /\ (c \o d)[k] = c[k]
                BY <2>3, <2>4, <3>1
            <4>2. PICK p \in Cells(l, i) : a[k] = ss[p[1]][p[2]] /\ c[k] = tt[p[1]][p[2]]
                BY <1>5, <1>7, <2>2, <3>1
            <4>3. p \in Cells(l, i + 1)
                <5>1. p \in (1 .. i) \X Nat /\ 1 <= p[2] /\ p[2] <= l[p[1]]
                    BY <4>2 DEF Cells
                <5>2. p \in (1 .. i + 1) \X Nat
                    BY <2>1, <5>1
                <5> QED
                    BY <5>1, <5>2 DEF Cells
            <4> QED
                BY <4>1, <4>2, <4>3
        <3>2. CASE k \notin 1 .. Len(a)
            <4>1. PICK j \in Nat : j = k - Len(a) /\ 1 <= j /\ j <= l[i + 1]
                <5>1. k - Len(a) \in 1 .. Len(b)
                    BY <2>3, <2>4, <3>2, Joins
                <5>2. Len(b) \in Nat /\ Len(b) = l[i + 1]
                    BY <2>4
                <5> QED
                    BY <5>1, <5>2
            <4>2. (a \o b)[k] = b[j] /\ (c \o d)[k] = d[j]
                <5>1. j \in 1 .. Len(b) /\ j \in 1 .. Len(d) /\ k = Len(a) + j /\ k = Len(c) + j
                    BY <2>3, <2>4, <4>1
                <5>2. (a \o b)[Len(a) + j] = b[j] /\ (c \o d)[Len(c) + j] = d[j]
                    BY <2>3, <2>4, <5>1, Joins
                <5> QED
                    BY <5>1, <5>2
            <4>3. PICK p : p = <<i + 1, j>>
                OBVIOUS
            <4>4. p \in Cells(l, i + 1) /\ p[1] = i + 1 /\ p[2] = j
                BY <2>1, <4>1, <4>3 DEF Cells
            <4> QED
                BY <2>2, <4>2, <4>4
        <3> QED
            BY <3>1, <3>2
    <2>8. \A k \in 1 .. Len(g[i + 1]) : \E p \in Cells(l, i + 1) :
             g[i + 1][k] = ss[p[1]][p[2]] /\ h[i + 1][k] = tt[p[1]][p[2]]
        BY <2>5, <2>7
    <2> QED
        BY <1>5, <2>1, <2>5, <2>6, <2>8
<1>8. m \in S
    <2>1. \A i \in 0 .. m - 1 : i \in S => i + 1 \in S
        BY <1>7
    <2>2. \A i \in 0 .. m : i \in S
        BY <1>6, <2>1, UpTo
    <2> QED
        BY <2>2
<1>9. /\ g[m] \in Seq(U) /\ h[m] \in Seq(U) /\ Len(g[m]) = Len(h[m])
      /\ \A k \in 1 .. Len(g[m]) : \E p \in Cells(l, m) : g[m][k] = ss[p[1]][p[2]] /\ h[m][k] = tt[p[1]][p[2]]
    BY <1>5, <1>8
<1>10. DOMAIN g[m] = 1 .. Len(g[m]) /\ DOMAIN h[m] = 1 .. Len(g[m])
    BY <1>9
<1> QED
    BY <1>1, <1>2, <1>9, <1>10

----------------------------------------------------------------------------
(* THE TABLES AND THE ROWS OF A DATASET.                                    *)

(* Files by name, each with a part that is a sequence.                      *)
Files(fs) == IsFiniteSet(DOMAIN fs) /\ DOMAIN fs \subseteq Nat \X Nat

Joint(fs, part) == LET names == InOrder(fs) IN Concat([k \in DOMAIN names |-> part[names[k]]])

InFiles(fs, part) == {p \in (DOMAIN fs) \X Nat : p[2] \in DOMAIN part[p[1]]}

LEMMA FilesInOrder ==
    ASSUME NEW fs, Files(fs)
    PROVE  \E m \in Nat : /\ InOrder(fs) \in [1 .. m -> DOMAIN fs]
                          /\ \A f \in DOMAIN fs : \E k \in 1 .. m : InOrder(fs)[k] = f
                          /\ \A i, k \in 1 .. m : InOrder(fs)[i] = InOrder(fs)[k] => i = k
<1>1. PICK D : D = DOMAIN fs
    OBVIOUS
<1>2. IsFiniteSet(D) /\ Cardinality(D) \in Nat /\ D \subseteq Nat \X Nat
    BY <1>1, FS_CardinalityType DEF Files
<1>3. PICK R : R = {p \in D \X D : Before(p[1], p[2])}
    OBVIOUS
<1>4. StrictOrder(D, R)
    <2>1. \A x, y \in D : <<x, y>> \in R <=> Before(x, y)
        BY <1>3
    <2>2. \A x \in D : x[1] \in Nat /\ x[2] \in Nat /\ x = <<x[1], x[2]>>
        BY <1>2
    <2>3. \A x \in D : ~Before(x, x)
        BY <2>2 DEF Before
    <2>4. ASSUME NEW x \in D, NEW y \in D, NEW z \in D, Before(x, y), Before(y, z) PROVE Before(x, z)
        BY <2>2, <2>4 DEF Before
    <2>5. ASSUME NEW x \in D, NEW y \in D, x # y PROVE Before(x, y) \/ Before(y, x)
        <3>1. x[1] # y[1] \/ x[2] # y[2]
            BY <2>2, <2>5
        <3> QED
            BY <2>2, <3>1 DEF Before
    <2> QED
        BY <2>1, <2>3, <2>4, <2>5 DEF StrictOrder
<1>5. Lists(InOrder(fs), D, R)
    BY <1>1, <1>2, <1>3, <1>4, OrderedLists DEF InOrder
<1>6. PICK m \in Nat : m = Cardinality(D)
    BY <1>2
<1>7. PICK o : o = InOrder(fs)
    OBVIOUS
<1>8. o \in [1 .. m -> D] /\ (\A f \in D : \E k \in 1 .. m : o[k] = f)
      /\ \A i, k \in 1 .. m : i < k => o[i] # o[k]
    BY <1>5, <1>6, <1>7 DEF Lists
<1>9. \A i, k \in 1 .. m : o[i] = o[k] => i = k
    <2> SUFFICES ASSUME NEW i \in 1 .. m, NEW k \in 1 .. m, o[i] = o[k], i # k PROVE FALSE
        OBVIOUS
    <2>1. i < k \/ k < i
        OBVIOUS
    <2> QED
        BY <1>8, <2>1
<1> QED
    BY <1>1, <1>7, <1>8, <1>9

LEMMA PartsJoined ==
    ASSUME NEW fs, Files(fs), NEW T, NEW part, \A f \in DOMAIN fs : part[f] \in Seq(T)
    PROVE  /\ Joint(fs, part) \in Seq(T)
           /\ Len(Joint(fs, part)) \in Nat /\ DOMAIN Joint(fs, part) = 1 .. Len(Joint(fs, part))
           /\ \A p \in InFiles(fs, part) :
                \E k \in DOMAIN Joint(fs, part) : Joint(fs, part)[k] = part[p[1]][p[2]]
           /\ \A k \in DOMAIN Joint(fs, part) :
                \E p \in InFiles(fs, part) : Joint(fs, part)[k] = part[p[1]][p[2]]
           /\ IsFiniteSet(InFiles(fs, part)) /\ Cardinality(InFiles(fs, part)) = Len(Joint(fs, part))
<1>1. PICK names : names = InOrder(fs)
    OBVIOUS
<1>2. PICK m \in Nat : /\ names \in [1 .. m -> DOMAIN fs]
                       /\ \A f \in DOMAIN fs : \E k \in 1 .. m : names[k] = f
                       /\ \A i, k \in 1 .. m : names[i] = names[k] => i = k
    BY <1>1, FilesInOrder
<1>3. PICK ss : ss = [k \in 1 .. m |-> part[names[k]]]
    OBVIOUS
<1>4. PICK l : l = [k \in 1 .. m |-> Len(ss[k])]
    OBVIOUS
<1>5. ASSUME NEW k \in 1 .. m PROVE ss[k] \in Seq(T) /\ l[k] \in Nat /\ Len(ss[k]) = l[k] /\ DOMAIN ss[k] = 1 .. l[k]
    <2>1. ss[k] \in Seq(T)
        BY <1>2, <1>3
    <2> QED
        BY <1>4, <2>1
<1>6. Lengthy(ss, m, l)
    <2>1. \A k \in 1 .. m : ss[k] \in Seq(Range(ss[k]))
        <3> SUFFICES ASSUME NEW k \in 1 .. m PROVE ss[k] \in Seq(Range(ss[k]))
            OBVIOUS
        <3>1. \A j \in DOMAIN ss[k] : ss[k][j] \in Range(ss[k])
            BY DEF Range
        <3> QED
            BY <1>5, <3>1, InSeq
    <2>2. l \in [1 .. m -> Nat]
        BY <1>4, <1>5
    <2> QED
        BY <1>3, <1>5, <2>1, <2>2 DEF Lengthy
<1>7. PICK J : J = Concat(ss)
    OBVIOUS
<1>8. Joint(fs, part) = J
    BY <1>1, <1>2, <1>3, <1>7 DEF Joint
<1>9. J \in Seq(T)
    BY <1>5, <1>6, <1>7, ConcatCells
<1>10. /\ IsFiniteSet(Cells(l, m)) /\ Cardinality(Cells(l, m)) = Len(J)
       /\ Len(J) \in Nat /\ DOMAIN J = 1 .. Len(J)
       /\ \A p \in Cells(l, m) : \E k \in DOMAIN J : J[k] = ss[p[1]][p[2]]
       /\ \A k \in DOMAIN J : \E p \in Cells(l, m) : J[k] = ss[p[1]][p[2]]
    <2>1. /\ IsFiniteSet(Cells(l, m)) /\ Cardinality(Cells(l, m)) = Len(J)
          /\ Len(J) \in Nat /\ DOMAIN J = 1 .. Len(J)
          /\ \A p \in Cells(l, m) : \E k \in DOMAIN J : J[k] = ss[p[1]][p[2]]
        BY <1>6, <1>7, ConcatCells
    <2>2. \A k \in DOMAIN J : \E p \in Cells(l, m) : J[k] = ss[p[1]][p[2]]
        BY <1>6, <1>7, ConcatTogether
    <2> QED
        BY <2>1, <2>2
<1>11. PICK P : P = InFiles(fs, part)
    OBVIOUS
<1>12. ASSUME NEW p \in Cells(l, m)
       PROVE  /\ p[1] \in 1 .. m /\ p[2] \in Nat /\ p = <<p[1], p[2]>>
              /\ <<names[p[1]], p[2]>> \in P /\ ss[p[1]][p[2]] = part[names[p[1]]][p[2]]
    <2>1. p[1] \in 1 .. m /\ p[2] \in Nat /\ p = <<p[1], p[2]>> /\ 1 <= p[2] /\ p[2] <= l[p[1]]
        BY DEF Cells
    <2>2. p[2] \in DOMAIN ss[p[1]] /\ ss[p[1]] = part[names[p[1]]]
        BY <1>3, <1>5, <2>1
    <2>3. names[p[1]] \in DOMAIN fs
        BY <1>2, <2>1
    <2> QED
        BY <1>11, <2>1, <2>2, <2>3 DEF InFiles
<1>13. ASSUME NEW p \in P
       PROVE  \E c \in Cells(l, m) : p = <<names[c[1]], c[2]>> /\ ss[c[1]][c[2]] = part[p[1]][p[2]]
    <2>1. p[1] \in DOMAIN fs /\ p[2] \in Nat /\ p = <<p[1], p[2]>> /\ p[2] \in DOMAIN part[p[1]]
        BY <1>11 DEF InFiles
    <2>2. PICK k \in 1 .. m : names[k] = p[1]
        BY <1>2, <2>1
    <2>3. PICK c : c = <<k, p[2]>>
        OBVIOUS
    <2>4. ss[k] = part[p[1]] /\ p[2] \in 1 .. l[k]
        BY <1>3, <1>5, <2>1, <2>2
    <2>5. c \in Cells(l, m)
        BY <1>5, <2>1, <2>3, <2>4 DEF Cells
    <2> QED
        BY <2>1, <2>2, <2>3, <2>4, <2>5
<1>14. PICK b : b = [c \in Cells(l, m) |-> <<names[c[1]], c[2]>>]
    OBVIOUS
<1>15. b \in Surjection(Cells(l, m), P)
    BY <1>12, <1>13, <1>14 DEF Surjection
<1>16. b \in Injection(Cells(l, m), P)
    <2> SUFFICES ASSUME NEW c \in Cells(l, m), NEW d \in Cells(l, m), b[c] = b[d] PROVE c = d
        BY <1>15 DEF Injection, IsInjective, Surjection
    <2>1. names[c[1]] = names[d[1]] /\ c[2] = d[2]
        BY <1>14
    <2>3. c[1] \in 1 .. m /\ d[1] \in 1 .. m
        BY <1>12
    <2>2. c[1] = d[1]
        BY <1>2, <2>1, <2>3
    <2> QED
        BY <1>12, <2>1, <2>2
<1>17. IsFiniteSet(P) /\ Cardinality(P) = Len(J)
    <2>1. IsFiniteSet(P) /\ Cardinality(P) = Cardinality(Cells(l, m))
        BY <1>10, <1>15, <1>16, FS_Surjection
    <2> QED
        BY <1>10, <2>1
<1>18. \A p \in P : \E k \in DOMAIN J : J[k] = part[p[1]][p[2]]
    BY <1>10, <1>13
<1>19. ASSUME NEW k \in DOMAIN J PROVE \E p \in P : J[k] = part[p[1]][p[2]]
    <2>1. PICK c \in Cells(l, m) : J[k] = ss[c[1]][c[2]]
        BY <1>10
    <2>2. PICK p : p = <<names[c[1]], c[2]>>
        OBVIOUS
    <2>3. p \in P /\ p[1] = names[c[1]] /\ p[2] = c[2] /\ J[k] = part[names[c[1]]][c[2]]
        BY <1>12, <2>1, <2>2
    <2> QED
        BY <2>3
<1> QED
    BY <1>8, <1>9, <1>10, <1>11, <1>17, <1>18, <1>19

----------------------------------------------------------------------------
(* RANGES THAT TILE.                                                        *)

CursorFold(k, c, p) == IF p[1] = c THEN p[2] ELSE -1
Cursors == INSTANCE FoldProofs WITH Step <- CursorFold

LEMMA CursorTraced ==
    ASSUME NEW o, NEW n \in Nat, DOMAIN o = 1 .. n
    PROVE  \E g : /\ DOMAIN g = 0 .. n /\ g[0] = 0
                  /\ \A i \in 1 .. n : g[i] = IF o[i][1] = g[i - 1] THEN o[i][2] ELSE -1
                  /\ Cursor(o) = g[n]
<1>1. Cursor(o) = Cursors!Fold(o, 0, o)
    BY DEF Cursor, CursorFold, FoldLeft, MapThenFoldSet, Max,
           Cursors!Fold, Cursors!Latest
<1>2. PICK g : Cursors!Traces(o, 0, o, n, g) /\ Cursors!Fold(o, 0, o) = g[n]
    BY Upward, Cursors!FoldIsTraced DEF Cursors!Induction
<1> QED
    BY <1>1, <1>2 DEF CursorFold, Cursors!Traces

(* Ranges F[k] .. T[k] - 1, in a row.                                       *)
Ranges(F, T, n) == {<<F[k], T[k], k>> : k \in 1 .. n}
RangeOrder(R) == {r \in R \X R : \/ Before(r[1], r[2])
                                 \/ r[1][1] = r[2][1] /\ r[1][2] = r[2][2] /\ r[1][3] < r[2][3]}
InRow(F, T, n) == Ordered(Ranges(F, T, n), RangeOrder(Ranges(F, T, n)))

Tile(F, T, n, N) ==
    /\ \A k \in 1 .. n : F[k] .. T[k] - 1 # {}
    /\ \A i, k \in 1 .. n : i # k => (F[i] .. T[i] - 1) \cap (F[k] .. T[k] - 1) = {}
    /\ UNION {F[k] .. T[k] - 1 : k \in 1 .. n} = 0 .. N - 1

Earlier(F, T, i, j) == \/ F[i] < F[j]
                       \/ F[i] = F[j] /\ T[i] < T[j]
                       \/ F[i] = F[j] /\ T[i] = T[j] /\ i < j

LEMMA EarlierOrders ==
    ASSUME NEW n \in Nat, NEW F \in [1 .. n -> Int], NEW T \in [1 .. n -> Int]
    PROVE  /\ \A i \in 1 .. n : ~Earlier(F, T, i, i)
           /\ \A i, j, k \in 1 .. n : Earlier(F, T, i, j) /\ Earlier(F, T, j, k) => Earlier(F, T, i, k)
           /\ \A i, j \in 1 .. n : i # j => Earlier(F, T, i, j) \/ Earlier(F, T, j, i)
<1>1. \A i \in 1 .. n : F[i] \in Int /\ T[i] \in Int
    OBVIOUS
<1> QED
    BY <1>1 DEF Earlier

Arranged(at, m, F, n) ==
    /\ at \in [1 .. m -> 1 .. n]
    /\ \A k \in 1 .. n : \E i \in 1 .. m : at[i] = k
    /\ \A i, j \in 1 .. m : i < j => at[i] # at[j] /\ F[at[i]] <= F[at[j]]

LEMMA RangesInRow ==
    ASSUME NEW n \in Nat, NEW F \in [1 .. n -> Int], NEW T \in [1 .. n -> Int]
    PROVE  \E m \in Nat : \E at : /\ Arranged(at, m, F, n)
                                   /\ InRow(F, T, n) = [i \in 1 .. m |-> <<F[at[i]], T[at[i]], at[i]>>]
<1>1. PICK R : R = Ranges(F, T, n)
    OBVIOUS
<1>2. IsFiniteSet(R)
    <2>1. PICK b : b = [k \in 1 .. n |-> <<F[k], T[k], k>>]
        OBVIOUS
    <2>2. b \in Surjection(1 .. n, R)
        BY <1>1, <2>1 DEF Ranges, Surjection
    <2>3. IsFiniteSet(1 .. n)
        BY FS_Interval
    <2> QED
        BY <2>2, <2>3, FS_Surjection
<1>3. \A r \in R : r[3] \in 1 .. n /\ r[1] = F[r[3]] /\ r[2] = T[r[3]] /\ r = <<F[r[3]], T[r[3]], r[3]>>
                   /\ r[1] \in Int /\ r[2] \in Int
    BY <1>1 DEF Ranges
<1>4. PICK O : O = RangeOrder(R)
    OBVIOUS
<1>5. StrictOrder(R, O)
    <2>1. ASSUME NEW x \in R, NEW y \in R
          PROVE  <<x, y>> \in O <=> Earlier(F, T, x[3], y[3])
        BY <1>3, <1>4 DEF RangeOrder, Before, Earlier
    <2>6. \A x \in R : x[3] \in 1 .. n
        BY <1>3
    <2>5. /\ \A i \in 1 .. n : ~Earlier(F, T, i, i)
          /\ \A i, j, k \in 1 .. n : Earlier(F, T, i, j) /\ Earlier(F, T, j, k) => Earlier(F, T, i, k)
          /\ \A i, j \in 1 .. n : i # j => Earlier(F, T, i, j) \/ Earlier(F, T, j, i)
        BY EarlierOrders
    <2>2. \A x \in R : <<x, x>> \notin O
        BY <2>1, <2>6, <2>5
    <2>3. ASSUME NEW x \in R, NEW y \in R, NEW z \in R, <<x, y>> \in O, <<y, z>> \in O PROVE <<x, z>> \in O
        <3>1. PICK i, j, k \in 1 .. n : i = x[3] /\ j = y[3] /\ k = z[3]
            BY <2>6
        <3>2. Earlier(F, T, i, j) /\ Earlier(F, T, j, k)
            BY <2>1, <2>3, <3>1
        <3>3. Earlier(F, T, i, k)
            BY <2>5, <3>2
        <3> QED
            BY <2>1, <3>1, <3>3
    <2>4. ASSUME NEW x \in R, NEW y \in R, x # y PROVE <<x, y>> \in O \/ <<y, x>> \in O
        <3>1. x[3] # y[3]
            <4>1. x = <<F[x[3]], T[x[3]], x[3]>> /\ y = <<F[y[3]], T[y[3]], y[3]>>
                BY <1>3
            <4> QED
                BY <2>4, <4>1
        <3> QED
            BY <2>1, <2>6, <3>1, <2>5
    <2> QED
        BY <2>2, <2>3, <2>4 DEF StrictOrder
<1>6. PICK o : o = InRow(F, T, n)
    OBVIOUS
<1>7. PICK m \in Nat : m = Cardinality(R)
    BY <1>2, FS_CardinalityType
<1>8. Lists(o, R, O)
    BY <1>1, <1>2, <1>4, <1>5, <1>6, OrderedLists DEF InRow
<1>9. /\ o \in [1 .. m -> R]
      /\ \A x \in R : \E k \in 1 .. m : o[k] = x
      /\ \A i, k \in 1 .. m : i < k => <<o[i], o[k]>> \in O /\ o[i] # o[k]
    BY <1>7, <1>8 DEF Lists
<1>10. PICK at : at = [i \in 1 .. m |-> o[i][3]]
    OBVIOUS
<1>11. \A i \in 1 .. m : at[i] \in 1 .. n /\ o[i] = <<F[at[i]], T[at[i]], at[i]>>
    BY <1>3, <1>9, <1>10
<1>12. at \in [1 .. m -> 1 .. n] /\ o = [i \in 1 .. m |-> <<F[at[i]], T[at[i]], at[i]>>]
    BY <1>9, <1>10, <1>11
<1>13. ASSUME NEW k \in 1 .. n PROVE \E i \in 1 .. m : at[i] = k
    <2>1. <<F[k], T[k], k>> \in R
        BY <1>1 DEF Ranges
    <2>2. PICK i \in 1 .. m : o[i] = <<F[k], T[k], k>>
        BY <1>9, <2>1
    <2> QED
        BY <1>10, <2>2
<1>14. ASSUME NEW i \in 1 .. m, NEW j \in 1 .. m, i < j PROVE at[i] # at[j] /\ F[at[i]] <= F[at[j]]
    <2>1. o[i] # o[j] /\ <<o[i], o[j]>> \in O /\ o[i] \in R /\ o[j] \in R
        BY <1>9, <1>14
    <2>2. at[i] # at[j]
        BY <1>11, <2>1
    <2>3. Before(o[i], o[j]) \/ o[i][1] = o[j][1]
        BY <1>4, <2>1 DEF RangeOrder
    <2>4. o[i][1] = F[at[i]] /\ o[j][1] = F[at[j]] /\ F[at[i]] \in Int /\ F[at[j]] \in Int
        <3>1. PICK k, l \in 1 .. n : k = at[i] /\ l = at[j]
            BY <1>11
        <3>2. o[i] = <<F[k], T[k], k>> /\ o[j] = <<F[l], T[l], l>>
            BY <1>11, <3>1
        <3>3. F[k] \in Int /\ F[l] \in Int
            OBVIOUS
        <3> QED
            BY <3>1, <3>2, <3>3
    <2> QED
        BY <2>2, <2>3, <2>4 DEF Before
<1>15. Arranged(at, m, F, n)
    BY <1>12, <1>13, <1>14 DEF Arranged
<1> QED
    BY <1>6, <1>12, <1>15

(* The cursor gets through such a row just when the ranges leave no gap and *)
(* do not overlap.                                                          *)
Walks(g, f, t, m) == /\ DOMAIN g = 0 .. m /\ g[0] = 0
                     /\ \A i \in 1 .. m : g[i] = IF f[i] = g[i - 1] THEN t[i] ELSE -1

Proper(f, t, m) == \A i \in 1 .. m : f[i] >= 0 /\ t[i] > f[i]
Chained(g, f, t, m) == /\ DOMAIN g = 0 .. m /\ g[0] = 0
                       /\ \A i \in 1 .. m : f[i] = g[i - 1] /\ t[i] = g[i] /\ t[i] > f[i]

LEMMA WalkHasNoGap ==
    ASSUME NEW m \in Nat, NEW f \in [1 .. m -> Int], NEW t \in [1 .. m -> Int], NEW g, Walks(g, f, t, m),
           Proper(f, t, m), g[m] # -1
    PROVE  Chained(g, f, t, m)
<1>1. \A i \in 0 .. m : g[m - i] # -1
    <2>1. PICK S : S = {i \in 0 .. m : g[m - i] # -1}
        OBVIOUS
    <2>2. 0 \in S
        BY <2>1
    <2>3. ASSUME NEW i \in 0 .. m - 1, i \in S PROVE i + 1 \in S
        <3>1. PICK j \in 1 .. m : j = m - i /\ j - 1 = m - (i + 1)
            OBVIOUS
        <3>2. g[j] # -1
            BY <2>1, <2>3, <3>1
        <3>3. f[j] = g[j - 1] /\ f[j] \in Int /\ f[j] >= 0
            BY <3>2 DEF Walks, Proper
        <3>4. g[m - (i + 1)] # -1
            BY <3>1, <3>3
        <3> QED
            BY <2>1, <3>4
    <2>4. \A i \in 0 .. m : i \in S
        <3>1. \A i \in 0 .. m - 1 : i \in S => i + 1 \in S
            BY <2>3
        <3> QED
            BY <2>2, <3>1, UpTo
    <2> QED
        BY <2>1, <2>4
<1>2. ASSUME NEW i \in 1 .. m PROVE f[i] = g[i - 1] /\ t[i] = g[i] /\ t[i] > f[i]
    <2>1. m - i \in 0 .. m /\ m - (m - i) = i
        OBVIOUS
    <2>2. g[i] # -1
        BY <1>1, <2>1
    <2> QED
        BY <2>2 DEF Walks, Proper
<1> QED
    BY <1>2 DEF Chained, Walks

(* Ranges that begin where the one before ends.                             *)
LEMMA ChainTiles ==
    ASSUME NEW m \in Nat, NEW f \in [1 .. m -> Int], NEW t \in [1 .. m -> Int], NEW g, Chained(g, f, t, m)
    PROVE  /\ g[m] \in Nat
           /\ \A i \in 1 .. m : f[i] >= 0 /\ t[i] <= g[m]
           /\ \A i, j \in 1 .. m : i < j => t[i] <= f[j]
           /\ \A x \in 0 .. g[m] - 1 : \E i \in 1 .. m : x \in f[i] .. t[i] - 1
<1>1. PICK S : S = {i \in 0 .. m : /\ g[i] \in Nat
                                   /\ \A j \in 1 .. i : f[j] >= 0 /\ t[j] <= g[i]
                                   /\ \A x \in 0 .. g[i] - 1 : \E j \in 1 .. i : x \in f[j] .. t[j] - 1}
    OBVIOUS
<1>2. 0 \in S
    BY <1>1 DEF Chained
<1>3. ASSUME NEW i \in 0 .. m - 1, i \in S PROVE i + 1 \in S
    <2>1. i + 1 \in 1 .. m /\ i + 1 \in 0 .. m /\ i + 1 - 1 = i
        OBVIOUS
    <2>2. PICK a \in Nat : a = g[i] /\ (\A j \in 1 .. i : f[j] >= 0 /\ t[j] <= a)
                           /\ \A x \in 0 .. a - 1 : \E j \in 1 .. i : x \in f[j] .. t[j] - 1
        BY <1>1, <1>3
    <2>3. PICK b \in Int : b = g[i + 1] /\ f[i + 1] = a /\ t[i + 1] = b /\ b > a
        BY <2>1, <2>2 DEF Chained
    <2>4. \A j \in 1 .. i + 1 : j = i + 1 \/ j \in 1 .. i
        OBVIOUS
    <2>5. \A j \in 1 .. i + 1 : f[j] >= 0 /\ t[j] <= b
        <3> SUFFICES ASSUME NEW j \in 1 .. i + 1 PROVE f[j] >= 0 /\ t[j] <= b
            OBVIOUS
        <3>1. CASE j = i + 1
            BY <2>3, <3>1
        <3>2. CASE j \in 1 .. i
            <4>1. f[j] >= 0 /\ t[j] <= a /\ t[j] \in Int
                BY <2>1, <2>2, <3>2
            <4> QED
                BY <2>3, <4>1
        <3> QED
            BY <2>4, <3>1, <3>2
    <2>6. ASSUME NEW x \in 0 .. b - 1 PROVE \E j \in 1 .. i + 1 : x \in f[j] .. t[j] - 1
        <3>1. CASE x < a
            <4>1. x \in 0 .. a - 1 /\ \A j \in 1 .. i : j \in 1 .. i + 1
                BY <3>1
            <4> QED
                BY <2>2, <4>1
        <3>2. CASE x >= a
            <4>1. x \in f[i + 1] .. t[i + 1] - 1 /\ i + 1 \in 1 .. i + 1
                BY <2>3, <3>2
            <4> QED
                BY <4>1
        <3> QED
            BY <3>1, <3>2
    <2>7. b \in Nat
        BY <2>3
    <2> QED
        BY <1>1, <2>1, <2>3, <2>5, <2>6, <2>7
<1>4. \A i \in 0 .. m : i \in S
    <2>1. \A i \in 0 .. m - 1 : i \in S => i + 1 \in S
        BY <1>3
    <2> QED
        BY <1>2, <2>1, UpTo
<1>5. ASSUME NEW i \in 1 .. m, NEW j \in 1 .. m, i < j PROVE t[i] <= f[j]
    <2>1. j - 1 \in 0 .. m /\ i \in 1 .. j - 1
        BY <1>5
    <2>2. t[i] <= g[j - 1]
        BY <1>1, <1>4, <2>1
    <2> QED
        BY <2>2 DEF Chained
<1> QED
    <2>1. m \in S
        BY <1>4
    <2> QED
        BY <1>1, <1>5, <2>1

Through(F, at, m) == [i \in 1 .. m |-> F[at[i]]]

AtTheEndOf(g, f, t, m, N, i) ==
    /\ g[i] \in 0 .. N /\ (i # 0 => g[i] = t[i])
    /\ \A j \in 1 .. i : t[j] <= g[i]
    /\ \A j \in 1 .. m : j > i => g[i] <= f[j]

LEMMA TilesInRow ==
    ASSUME NEW n \in Nat, NEW F \in [1 .. n -> Int], NEW T \in [1 .. n -> Int], NEW N \in Nat, Tile(F, T, n, N),
           NEW m \in Nat, NEW at, Arranged(at, m, F, n),
           NEW f, f = Through(F, at, m), NEW t, t = Through(T, at, m),
           NEW g, Walks(g, f, t, m)
    PROVE  g[m] = N
<1>1. f = [i \in 1 .. m |-> F[at[i]]] /\ t = [i \in 1 .. m |-> T[at[i]]]
    BY DEF Through
<1>2. f \in [1 .. m -> Int] /\ t \in [1 .. m -> Int] /\ Walks(g, f, t, m)
    <2>1. \A i \in 1 .. m : F[at[i]] \in Int /\ T[at[i]] \in Int
        BY DEF Arranged
    <2> QED
        BY <1>1, <2>1
<1>3. ASSUME NEW k \in 1 .. n PROVE F[k] >= 0 /\ F[k] < T[k] /\ T[k] <= N
    <2>1. F[k] \in Int /\ T[k] \in Int
        OBVIOUS
    <2>2. F[k] < T[k]
        BY <2>1 DEF Tile
    <2>3. F[k] .. T[k] - 1 \subseteq 0 .. N - 1
        BY DEF Tile
    <2>4. F[k] \in F[k] .. T[k] - 1 /\ T[k] - 1 \in F[k] .. T[k] - 1
        BY <2>1, <2>2
    <2>5. F[k] \in 0 .. N - 1 /\ T[k] - 1 \in 0 .. N - 1
        BY <2>3, <2>4
    <2> QED
        BY <2>1, <2>2, <2>5
<1>4. \A i \in 1 .. m : f[i] >= 0 /\ f[i] < t[i] /\ t[i] <= N
    BY <1>1, <1>3 DEF Arranged
<1>5. ASSUME NEW i \in 1 .. m, NEW j \in 1 .. m, i < j PROVE t[i] <= f[j] /\ f[i] <= f[j]
    <2>1. PICK k, l \in 1 .. n : k = at[i] /\ l = at[j] /\ k # l /\ F[k] <= F[l]
        BY <1>5 DEF Arranged
    <2>2. F[k] \in Int /\ T[k] \in Int /\ F[l] \in Int /\ T[l] \in Int
        OBVIOUS
    <2>3. (F[k] .. T[k] - 1) \cap (F[l] .. T[l] - 1) = {}
        BY <2>1 DEF Tile
    <2>4. F[l] \in F[l] .. T[l] - 1
        BY <1>3, <2>2
    <2>5. F[l] \notin F[k] .. T[k] - 1
        BY <2>3, <2>4
    <2>6. T[k] <= F[l]
        <3>1. PICK u, v, w \in Int : u = F[k] /\ v = T[k] /\ w = F[l]
            BY <2>2, Zenon
        <3>2. u <= w /\ w \notin u .. v - 1
            BY <2>1, <2>5, <3>1
        <3>3. v <= w
            BY <3>2
        <3> QED
            BY <3>1, <3>3
    <2> QED
        BY <1>1, <2>1, <2>6
<1>6. ASSUME NEW x \in 0 .. N - 1 PROVE \E i \in 1 .. m : f[i] <= x /\ x < t[i]
    <2>0. x \in UNION {F[k] .. T[k] - 1 : k \in 1 .. n}
        BY DEF Tile
    <2>1. PICK k \in 1 .. n : x \in F[k] .. T[k] - 1
        BY <2>0
    <2>2. PICK i \in 1 .. m : at[i] = k
        BY DEF Arranged
    <2>3. f[i] = F[k] /\ t[i] = T[k] /\ F[k] \in Int /\ T[k] \in Int
        BY <1>1, <2>2
    <2> QED
        BY <2>1, <2>3
<1>7. \A i \in 1 .. m : f[i] \in Int /\ t[i] \in Int
    BY <1>2
(* So far the cursor is where the last range ended.                         *)
<1>8. \A i \in 0 .. m : AtTheEndOf(g, f, t, m, N, i)
    <2>1. PICK S : S = {i \in 0 .. m : AtTheEndOf(g, f, t, m, N, i)}
        OBVIOUS
    <2>2. 0 \in S
        <3>1. g[0] = 0 /\ 0 \in 0 .. N /\ 0 \in 0 .. m /\ \A j \in 1 .. 0 : FALSE
            BY <1>2 DEF Walks
        <3> QED
            BY <1>4, <2>1, <3>1 DEF AtTheEndOf
    <2>3. ASSUME NEW i \in 0 .. m - 1, i \in S PROVE i + 1 \in S
        <3>1. PICK k \in 1 .. m : k = i + 1 /\ k - 1 = i /\ i + 1 \in 0 .. m
            OBVIOUS
        <3>2. g[i] \in 0 .. N /\ (\A j \in 1 .. i : t[j] <= g[i]) /\ g[i] <= f[k]
            <4>1. AtTheEndOf(g, f, t, m, N, i)
                BY <2>1, <2>3
            <4>2. g[i] \in 0 .. N /\ \A j \in 1 .. i : t[j] <= g[i]
                BY <4>1 DEF AtTheEndOf
            <4>3. k > i
                BY <3>1
            <4>4. g[i] <= f[k]
                BY <4>1, <4>3 DEF AtTheEndOf
            <4> QED
                BY <4>2, <4>4
        <3>3. f[k] = g[i]
            <4> SUFFICES ASSUME g[i] < f[k] PROVE FALSE
                BY <1>7, <3>2
            <4>0. f[k] < t[k] /\ t[k] <= N /\ f[k] \in Int /\ t[k] \in Int
                BY <1>4, <1>7
            <4>1. g[i] \in 0 .. N - 1
                BY <3>2, <4>0
            <4>2. PICK j \in 1 .. m : f[j] <= g[i] /\ g[i] < t[j]
                <5>1. PICK x \in 0 .. N - 1 : x = g[i]
                    BY <4>1, Zenon
                <5>2. PICK j \in 1 .. m : f[j] <= x /\ x < t[j]
                    BY <1>6
                <5> QED
                    BY <5>1, <5>2, Zenon
            <4>6. g[i] \in Int /\ f[j] \in Int /\ t[j] \in Int /\ f[k] \in Int
                BY <1>7, <3>2
            <4>3. j \notin 1 .. i
                <5> SUFFICES ASSUME j \in 1 .. i PROVE FALSE
                    OBVIOUS
                <5>1. t[j] <= g[i]
                    BY <3>2
                <5> QED
                    BY <4>2, <4>6, <5>1
            <4>4. j = k \/ k < j
                BY <3>1, <4>3
            <4>5. f[k] <= f[j]
                BY <1>5, <1>7, <4>4
            <4> QED
                BY <4>2, <4>5, <4>6
        <3>4. g[k] = t[k]
            BY <1>2, <3>1, <3>3 DEF Walks
        <3>5. g[k] \in 0 .. N
            <4>1. f[k] >= 0 /\ f[k] < t[k] /\ t[k] <= N
                BY <1>4
            <4>2. f[k] \in Int /\ t[k] \in Int
                BY <1>7
            <4> QED
                BY <3>4, <4>1, <4>2
        <3>6. ASSUME NEW j \in 1 .. k PROVE t[j] <= g[k]
            <4>1. CASE j = k
                BY <1>7, <3>4, <4>1
            <4>2. CASE j # k
                <5>1. j \in 1 .. i /\ j \in 1 .. m
                    BY <3>1, <4>2
                <5>2. t[j] <= g[i]
                    BY <3>2, <5>1
                <5>3. g[i] \in Int /\ t[j] \in Int /\ t[k] \in Int /\ f[k] < t[k] /\ f[k] = g[i] /\ g[k] = t[k]
                    BY <1>4, <1>7, <3>2, <3>3, <3>4, <5>1
                <5> QED
                    BY <5>2, <5>3
            <4> QED
                BY <4>1, <4>2
        <3>7. \A j \in 1 .. m : j > k => g[k] <= f[j]
            BY <1>5, <3>4
        <3>8. AtTheEndOf(g, f, t, m, N, k)
            BY <3>4, <3>5, <3>6, <3>7 DEF AtTheEndOf
        <3> QED
            BY <2>1, <3>1, <3>8
    <2>4. \A i \in 0 .. m : i \in S
        <3>1. \A i \in 0 .. m - 1 : i \in S => i + 1 \in S
            BY <2>3
        <3> QED
            BY <2>2, <3>1, UpTo
    <2> QED
        BY <2>1, <2>4
<1>9. g[m] \in 0 .. N /\ \A j \in 1 .. m : t[j] <= g[m]
    <2>1. m \in 0 .. m
        OBVIOUS
    <2> QED
        BY <1>8, <2>1 DEF AtTheEndOf
<1>10. ~ g[m] < N
    <2> SUFFICES ASSUME g[m] < N PROVE FALSE
        OBVIOUS
    <2>1. g[m] \in 0 .. N - 1
        BY <1>9
    <2>2. PICK j \in 1 .. m : f[j] <= g[m] /\ g[m] < t[j]
        BY <1>6, <2>1
    <2>3. t[j] \in Int /\ t[j] <= g[m] /\ g[m] \in Int
        BY <1>7, <1>9, <2>2
    <2> QED
        BY <2>2, <2>3
<1> QED
    BY <1>9, <1>10

LEMMA CursorTiles ==
    ASSUME NEW n \in Nat, NEW F \in [1 .. n -> Int], NEW T \in [1 .. n -> Int], NEW N \in Nat
    PROVE  (\A k \in 1 .. n : F[k] >= 0 /\ T[k] > F[k]) /\ Cursor(InRow(F, T, n)) = N <=> Tile(F, T, n, N)
<1>0. PICK m \in Nat : \E at : /\ Arranged(at, m, F, n)
                               /\ InRow(F, T, n) = [i \in 1 .. m |-> <<F[at[i]], T[at[i]], at[i]>>]
    BY RangesInRow
<1>1. PICK at : Arranged(at, m, F, n) /\ InRow(F, T, n) = [i \in 1 .. m |-> <<F[at[i]], T[at[i]], at[i]>>]
    BY <1>0
<1>2. PICK f, t : f = [i \in 1 .. m |-> F[at[i]]] /\ t = [i \in 1 .. m |-> T[at[i]]]
    OBVIOUS
<1>3. f \in [1 .. m -> Int] /\ t \in [1 .. m -> Int]
    BY <1>1, <1>2 DEF Arranged
<1>4. PICK o : o = InRow(F, T, n)
    OBVIOUS
<1>5. DOMAIN o = 1 .. m /\ \A i \in 1 .. m : o[i][1] = f[i] /\ o[i][2] = t[i]
    BY <1>1, <1>2, <1>4
<1>6. PICK g : /\ DOMAIN g = 0 .. m /\ g[0] = 0
               /\ \A i \in 1 .. m : g[i] = IF o[i][1] = g[i - 1] THEN o[i][2] ELSE -1
               /\ Cursor(o) = g[m]
    BY <1>5, CursorTraced
<1>7. Walks(g, f, t, m)
    BY <1>5, <1>6 DEF Walks
<1>8. ASSUME Tile(F, T, n, N)
      PROVE  (\A k \in 1 .. n : F[k] >= 0 /\ T[k] > F[k]) /\ Cursor(o) = N
    <2>1. g[m] = N
        <3>1. Arranged(at, m, F, n)
            BY <1>1
        <3>2. f = Through(F, at, m) /\ t = Through(T, at, m)
            BY <1>2 DEF Through
        <3> QED
            BY <1>7, <1>8, <3>1, <3>2, TilesInRow
    <2>2. ASSUME NEW k \in 1 .. n PROVE F[k] >= 0 /\ T[k] > F[k]
        <3>1. F[k] \in Int /\ T[k] \in Int
            OBVIOUS
        <3>2. F[k] < T[k] /\ F[k] .. T[k] - 1 \subseteq 0 .. N - 1
            BY <1>8, <3>1 DEF Tile
        <3>3. F[k] \in F[k] .. T[k] - 1
            BY <3>1, <3>2
        <3>4. F[k] \in 0 .. N - 1
            BY <3>2, <3>3
        <3> QED
            BY <3>1, <3>2, <3>4
    <2> QED
        BY <1>6, <2>1, <2>2
<1>9. ASSUME \A k \in 1 .. n : F[k] >= 0 /\ T[k] > F[k], Cursor(o) = N
      PROVE  Tile(F, T, n, N)
    <2>1. Proper(f, t, m)
        BY <1>1, <1>2, <1>9 DEF Arranged, Proper
    <2>2. g[m] = N /\ g[m] # -1
        BY <1>6, <1>9
    <2>3. Chained(g, f, t, m)
        BY <1>3, <1>7, <2>1, <2>2, WalkHasNoGap
    <2>4. /\ \A i \in 1 .. m : f[i] >= 0 /\ t[i] <= N
          /\ \A i, j \in 1 .. m : i < j => t[i] <= f[j]
          /\ \A x \in 0 .. N - 1 : \E i \in 1 .. m : x \in f[i] .. t[i] - 1
        BY <1>3, <2>2, <2>3, ChainTiles
    <2>5. ASSUME NEW k \in 1 .. n
          PROVE  /\ F[k] .. T[k] - 1 # {} /\ \A x \in F[k] .. T[k] - 1 : x \in 0 .. N - 1
                 /\ \E i \in 1 .. m : at[i] = k /\ f[i] = F[k] /\ t[i] = T[k]
        <3>1. PICK i \in 1 .. m : at[i] = k
            BY <1>1 DEF Arranged
        <3>2. f[i] = F[k] /\ t[i] = T[k] /\ F[k] \in Int /\ T[k] \in Int
            BY <1>2, <3>1
        <3>3. F[k] >= 0 /\ T[k] <= N /\ F[k] < T[k]
            BY <1>9, <2>4, <3>2
        <3>4. F[k] \in F[k] .. T[k] - 1 /\ \A x \in F[k] .. T[k] - 1 : x \in 0 .. N - 1
            BY <3>2, <3>3
        <3> QED
            BY <3>1, <3>2, <3>4
    <2>6. ASSUME NEW k \in 1 .. n, NEW l \in 1 .. n, k # l, NEW x \in F[k] .. T[k] - 1, x \in F[l] .. T[l] - 1
          PROVE  FALSE
        <3>1. PICK i \in 1 .. m : at[i] = k /\ f[i] = F[k] /\ t[i] = T[k]
            BY <2>5
        <3>2. PICK j \in 1 .. m : at[j] = l /\ f[j] = F[l] /\ t[j] = T[l]
            BY <2>5
        <3>3. f[i] \in Int /\ t[i] \in Int /\ f[j] \in Int /\ t[j] \in Int
            BY <1>3
        <3>4. i < j \/ j < i
            BY <2>6, <3>1, <3>2
        <3>5. t[i] <= f[j] \/ t[j] <= f[i]
            BY <2>4, <3>4
        <3>6. f[i] <= x /\ x < t[i] /\ f[j] <= x /\ x < t[j] /\ x \in Int
            BY <2>6, <3>1, <3>2, <3>3
        <3>7. CASE t[i] <= f[j]
            BY <3>3, <3>6, <3>7
        <3>8. CASE t[j] <= f[i]
            BY <3>3, <3>6, <3>8
        <3> QED
            BY <3>5, <3>7, <3>8
    <2>7. ASSUME NEW x \in 0 .. N - 1 PROVE \E k \in 1 .. n : x \in F[k] .. T[k] - 1
        <3>1. PICK i \in 1 .. m : x \in f[i] .. t[i] - 1
            BY <2>4
        <3>2. at[i] \in 1 .. n /\ f[i] = F[at[i]] /\ t[i] = T[at[i]]
            BY <1>1, <1>2 DEF Arranged
        <3> QED
            BY <3>1, <3>2
    <2>8. UNION {F[k] .. T[k] - 1 : k \in 1 .. n} = 0 .. N - 1
        BY <2>5, <2>7
    <2> QED
        BY <2>5, <2>6, <2>8 DEF Tile
<1> QED
    BY <1>4, <1>8, <1>9

LEMMA DatasetFiles ==
    ASSUME NEW d, IsDataset(d)
    PROVE  /\ Files(d.tables) /\ Files(d.data) /\ Files(d.video)
           /\ \A f \in DOMAIN d.tables : d.tables[f] \in Seq(EpisodeType)
           /\ \A f \in DOMAIN d.data : /\ d.data[f].rows \in Seq(RowType) /\ d.data[f].stamped \in BOOLEAN
                                       /\ d.data[f] = [stamped |-> d.data[f].stamped, rows |-> d.data[f].rows]
           /\ d.tasks \in Seq(TaskType) /\ d.info \in InfoType
<1>1. Files(d.tables) /\ Files(d.data) /\ Files(d.video)
    BY DEF IsDataset, AreFiles, Files
<1>2. \A f \in DOMAIN d.data : d.data[f] \in FileType
    BY DEF IsDataset
<1> QED
    BY <1>1, <1>2 DEF IsDataset, FileType

RowsOf(d) == [f \in DOMAIN d.data |-> d.data[f].rows]

LEMMA TablesJoined ==
    ASSUME NEW d, IsDataset(d)
    PROVE  /\ TableRows(d) = Joint(d.tables, d.tables) /\ TableRows(d) \in Seq(EpisodeType)
           /\ Len(TableRows(d)) \in Nat /\ DOMAIN TableRows(d) = 1 .. Len(TableRows(d))
<1>1. TableRows(d) = Joint(d.tables, d.tables)
    BY DEF TableRows, Joint
<1>2. Files(d.tables) /\ \A f \in DOMAIN d.tables : d.tables[f] \in Seq(EpisodeType)
    BY DatasetFiles
<1>3. /\ Joint(d.tables, d.tables) \in Seq(EpisodeType)
      /\ Len(Joint(d.tables, d.tables)) \in Nat
      /\ DOMAIN Joint(d.tables, d.tables) = 1 .. Len(Joint(d.tables, d.tables))
    BY <1>2, PartsJoined
<1> QED
    BY <1>1, <1>3

LEMMA DataJoined ==
    ASSUME NEW d, IsDataset(d)
    PROVE  /\ DataRows(d) = Joint(d.data, RowsOf(d)) /\ DataRows(d) \in Seq(RowType)
           /\ Len(DataRows(d)) \in Nat /\ DOMAIN DataRows(d) = 1 .. Len(DataRows(d))
<1>1. Files(d.data) /\ \A f \in DOMAIN d.data : d.data[f].rows \in Seq(RowType)
    BY DatasetFiles
<1>2. DataRows(d) = Joint(d.data, RowsOf(d))
    <2>1. PICK m \in Nat : InOrder(d.data) \in [1 .. m -> DOMAIN d.data]
        BY <1>1, FilesInOrder
    <2>2. PICK names : names = InOrder(d.data)
        OBVIOUS
    <2>3. [k \in DOMAIN names |-> d.data[names[k]].rows] = [k \in DOMAIN names |-> RowsOf(d)[names[k]]]
        BY <2>1, <2>2 DEF RowsOf
    <2> QED
        BY <2>2, <2>3 DEF DataRows, Joint
<1>3. \A f \in DOMAIN d.data : RowsOf(d)[f] \in Seq(RowType)
    BY <1>1 DEF RowsOf
<1>4. /\ Joint(d.data, RowsOf(d)) \in Seq(RowType)
      /\ Len(Joint(d.data, RowsOf(d))) \in Nat
      /\ DOMAIN Joint(d.data, RowsOf(d)) = 1 .. Len(Joint(d.data, RowsOf(d)))
    BY <1>1, <1>3, PartsJoined
<1> QED
    BY <1>2, <1>4

(* The quick check is what it means.                                        *)
LEMMA RangesTileExact ==
    ASSUME NEW d, IsDataset(d)
    PROVE  RangesTile(d) <=>
             /\ \A k \in DOMAIN TableRows(d) : Span(TableRows(d)[k]) # {}
             /\ \A i, k \in DOMAIN TableRows(d) : i # k => Span(TableRows(d)[i]) \cap Span(TableRows(d)[k]) = {}
             /\ UNION {Span(TableRows(d)[k]) : k \in DOMAIN TableRows(d)} = 0 .. Len(DataRows(d)) - 1
<1>1. PICK eps : eps = TableRows(d)
    OBVIOUS
<1>2. PICK n \in Nat : n = Len(eps) /\ DOMAIN eps = 1 .. n
    BY <1>1, TablesJoined
<1>3. eps \in Seq(EpisodeType) /\ \A k \in 1 .. n : eps[k] \in EpisodeType
    BY <1>1, <1>2, TablesJoined
<1>4. PICK F, T : F = [k \in 1 .. n |-> eps[k].from] /\ T = [k \in 1 .. n |-> eps[k].to]
    OBVIOUS
<1>5. F \in [1 .. n -> Int] /\ T \in [1 .. n -> Int]
    <2>1. \A k \in 1 .. n : eps[k].from \in Int /\ eps[k].to \in Int
        BY <1>3 DEF EpisodeType
    <2> QED
        BY <1>4, <2>1
<1>6. PICK N \in Nat : N = Len(DataRows(d))
    BY DataJoined
<1>7. {<<eps[k].from, eps[k].to, k>> : k \in DOMAIN eps} = Ranges(F, T, n)
    BY <1>2, <1>4 DEF Ranges
<1>8. RangesTile(d) <=> /\ \A k \in 1 .. n : F[k] >= 0 /\ T[k] > F[k]
                        /\ Cursor(InRow(F, T, n)) = N
    <2>1. PICK R : R = {<<eps[k].from, eps[k].to, k>> : k \in DOMAIN eps}
        OBVIOUS
    <2>2. PICK o : o = Ordered(R, {r \in R \X R :
                    \/ Before(r[1], r[2])
                    \/ r[1][1] = r[2][1] /\ r[1][2] = r[2][2] /\ r[1][3] < r[2][3]})
        OBVIOUS
    <2>3. o = InRow(F, T, n)
        BY <1>7, <2>1, <2>2 DEF InRow, RangeOrder
    <2>4. RangesTile(d) <=> /\ \A k \in DOMAIN eps : eps[k].from >= 0 /\ eps[k].to > eps[k].from
                            /\ Cursor(o) = N
        BY <1>1, <1>6, <2>1, <2>2 DEF RangesTile
    <2>5. (\A k \in DOMAIN eps : eps[k].from >= 0 /\ eps[k].to > eps[k].from)
            <=> \A k \in 1 .. n : F[k] >= 0 /\ T[k] > F[k]
        BY <1>2, <1>4
    <2> QED
        BY <2>3, <2>4, <2>5
<1>9. \A k \in 1 .. n : Span(eps[k]) = F[k] .. T[k] - 1
    BY <1>4 DEF Span
<1>10. {Span(eps[k]) : k \in DOMAIN eps} = {F[k] .. T[k] - 1 : k \in 1 .. n}
    BY <1>2, <1>9
<1>11. Tile(F, T, n, N) <=>
             /\ \A k \in DOMAIN eps : Span(eps[k]) # {}
             /\ \A i, k \in DOMAIN eps : i # k => Span(eps[i]) \cap Span(eps[k]) = {}
             /\ UNION {Span(eps[k]) : k \in DOMAIN eps} = 0 .. N - 1
    <2>1. UNION {Span(eps[k]) : k \in DOMAIN eps} = UNION {F[k] .. T[k] - 1 : k \in 1 .. n}
        BY <1>10
    <2>2. (\A k \in DOMAIN eps : Span(eps[k]) # {}) <=> \A k \in 1 .. n : F[k] .. T[k] - 1 # {}
        BY <1>2, <1>9
    <2>3. (\A i, k \in DOMAIN eps : i # k => Span(eps[i]) \cap Span(eps[k]) = {})
            <=> \A i, k \in 1 .. n : i # k => (F[i] .. T[i] - 1) \cap (F[k] .. T[k] - 1) = {}
        <3>1. ASSUME NEW i \in 1 .. n, NEW k \in 1 .. n
              PROVE  Span(eps[i]) \cap Span(eps[k]) = (F[i] .. T[i] - 1) \cap (F[k] .. T[k] - 1)
            BY <1>9
        <3>2. ASSUME \A i, k \in DOMAIN eps : i # k => Span(eps[i]) \cap Span(eps[k]) = {},
                     NEW i \in 1 .. n, NEW k \in 1 .. n, i # k
              PROVE  (F[i] .. T[i] - 1) \cap (F[k] .. T[k] - 1) = {}
            <4>1. Span(eps[i]) \cap Span(eps[k]) = {}
                BY <1>2, <3>2
            <4> QED
                BY <3>1, <4>1
        <3>3. ASSUME \A i, k \in 1 .. n : i # k => (F[i] .. T[i] - 1) \cap (F[k] .. T[k] - 1) = {},
                     NEW i \in DOMAIN eps, NEW k \in DOMAIN eps, i # k
              PROVE  Span(eps[i]) \cap Span(eps[k]) = {}
            <4>1. i \in 1 .. n /\ k \in 1 .. n
                BY <1>2
            <4>2. (F[i] .. T[i] - 1) \cap (F[k] .. T[k] - 1) = {}
                BY <3>3, <4>1
            <4> QED
                BY <3>1, <4>1, <4>2
        <3> QED
            BY <3>2, <3>3
    <2> QED
        BY <2>1, <2>2, <2>3 DEF Tile
<1>12. (\A k \in 1 .. n : F[k] >= 0 /\ T[k] > F[k]) /\ Cursor(InRow(F, T, n)) = N <=> Tile(F, T, n, N)
    BY <1>5, CursorTiles
<1> QED
    BY <1>1, <1>6, <1>8, <1>11, <1>12

LEMMA QuickMeans ==
    ASSUME NEW d, IsDataset(d)
    PROVE  ValidateQuick(d) = "passed" <=> Sound(d)
BY RangesTileExact DEF ValidateQuick, Sound

LEMMA QuickOrNot == ASSUME NEW d PROVE ValidateQuick(d) \in {"passed", "failed"}
BY DEF ValidateQuick

----------------------------------------------------------------------------
(* REFERENCES OF THE ROWS.                                                  *)

ReferFold(segments, s, r) == Referred(segments, s, r)
Refers == INSTANCE FoldProofs WITH Step <- ReferFold

LEMMA ReferTraced ==
    ASSUME NEW segments, NEW refs, NEW n \in Nat, DOMAIN refs = 1 .. n
    PROVE  \E g : /\ DOMAIN g = 0 .. n /\ g[0] = 1
                  /\ \A i \in 1 .. n : g[i] = Referred(segments, g[i - 1], refs[i])
                  /\ (AllReferred(segments, refs) => g[n] # 0) /\ (g[n] # 0 => AllReferred(segments, refs))
<1>1. AllReferred(segments, refs) <=> Refers!Fold(segments, 1, refs) # 0
    BY DEF AllReferred, ReferFold, FoldLeft, MapThenFoldSet, Max,
           Refers!Fold, Refers!Latest
<1>2. PICK g : Refers!Traces(segments, 1, refs, n, g) /\ Refers!Fold(segments, 1, refs) = g[n]
    BY Upward, Refers!FoldIsTraced DEF Refers!Induction
<1> QED
    BY <1>1, <1>2 DEF ReferFold, Refers!Traces

(* Segments in a row, each with its rows.                                   *)
InRowSegments(segments, n) ==
    /\ DOMAIN segments = 1 .. n /\ segments \in Seq(EpisodeType) /\ Len(segments) = n
    /\ \A k \in 1 .. n : segments[k].from < segments[k].to
    /\ \A j, k \in 1 .. n : j < k => segments[j].to <= segments[k].from

Refer(r, e) == /\ e.from <= r.index /\ r.index < e.to
               /\ r.episode = e.episode /\ r.task = e.task

LEMMA SegmentFound ==
    ASSUME NEW n \in Nat, NEW segments, InRowSegments(segments, n), NEW s \in Nat \ {0}, NEW index \in Int
    PROVE  /\ SegmentOf(segments, index, s) # 0 =>
                LET q == SegmentOf(segments, index, s) IN
                q \in s .. n /\ segments[q].from <= index /\ index < segments[q].to
           /\ \A q \in s .. n : segments[q].from <= index /\ index < segments[q].to =>
                SegmentOf(segments, index, s) = q
<1>1. PICK A : A = {k \in s .. n : index < segments[k].to}
    OBVIOUS
<1>2. SegmentOf(segments, index, s) = IF A # {} /\ segments[Min(A)].from <= index THEN Min(A) ELSE 0
    BY <1>1 DEF SegmentOf, InRowSegments
<1>3. A # {} => Min(A) \in A /\ \A k \in A : Min(A) <= k
    <2>1. A \subseteq Nat
        BY <1>1
    <2>2. A # {} => \E m \in A : \A k \in A : m <= k
        BY <2>1, LeastOf
    <2> QED
        BY <2>2 DEF Min
<1>4. \A k \in s .. n : segments[k].from \in Int /\ segments[k].to \in Int /\ k \in 1 .. n
    <2>1. \A k \in 1 .. n : segments[k] \in EpisodeType
        BY DEF InRowSegments
    <2>2. \A k \in 1 .. n : segments[k].from \in Int /\ segments[k].to \in Int
        BY <2>1 DEF EpisodeType
    <2> QED
        BY <2>2
<1>5. SegmentOf(segments, index, s) # 0 =>
        A # {} /\ segments[Min(A)].from <= index /\ SegmentOf(segments, index, s) = Min(A)
    BY <1>2
<1>6. ASSUME NEW q \in s .. n, segments[q].from <= index, index < segments[q].to
      PROVE  SegmentOf(segments, index, s) = q
    <2>1. q \in A
        BY <1>1, <1>6
    <2>2. PICK m \in s .. n : m = Min(A) /\ m \in A /\ m <= q /\ index < segments[m].to
        BY <1>1, <1>3, <2>1
    <2>3. ~ m < q
        <3> SUFFICES ASSUME m < q PROVE FALSE
            OBVIOUS
        <3>1. segments[m].to <= segments[q].from
            BY <1>4 DEF InRowSegments
        <3> QED
            BY <1>4, <1>6, <2>2, <3>1
    <2>4. m = q
        BY <2>2, <2>3
    <2> QED
        BY <1>2, <1>6, <2>1, <2>2, <2>4
<1> QED
    BY <1>1, <1>3, <1>5, <1>6

Numbered(refs, N) == DOMAIN refs = 1 .. N /\ \A k \in 1 .. N : refs[k].index = k - 1

LEMMA AllReferredExact ==
    ASSUME NEW n \in Nat, NEW segments, InRowSegments(segments, n),
           NEW N \in Nat, NEW refs, Numbered(refs, N)
    PROVE  AllReferred(segments, refs) <=> \A i \in 1 .. N : \E q \in 1 .. n : Refer(refs[i], segments[q])
<1>1. PICK g : /\ DOMAIN g = 0 .. N /\ g[0] = 1
               /\ \A i \in 1 .. N : g[i] = Referred(segments, g[i - 1], refs[i])
               /\ (AllReferred(segments, refs) => g[N] # 0) /\ (g[N] # 0 => AllReferred(segments, refs))
    <2>1. DOMAIN refs = 1 .. N
        BY DEF Numbered
    <2> QED
        BY <2>1, ReferTraced
<1>2. ASSUME NEW i \in 1 .. N, g[i] # 0
      PROVE  g[i - 1] # 0 /\ LET q == SegmentOf(segments, i - 1, g[i - 1]) IN
                             /\ q # 0 /\ g[i] = q
                             /\ refs[i].episode = segments[q].episode /\ refs[i].task = segments[q].task
    <2>1. g[i] = Referred(segments, g[i - 1], refs[i]) /\ refs[i].index = i - 1
        BY <1>1 DEF Numbered
    <2> QED
        BY <1>2, <2>1 DEF Referred
<1>3. ASSUME NEW i \in 1 .. N, g[i - 1] # 0,
             LET q == SegmentOf(segments, i - 1, g[i - 1]) IN
             q # 0 /\ refs[i].episode = segments[q].episode /\ refs[i].task = segments[q].task
      PROVE  g[i] = SegmentOf(segments, i - 1, g[i - 1])
    <2>1. g[i] = Referred(segments, g[i - 1], refs[i]) /\ refs[i].index = i - 1
        BY <1>1 DEF Numbered
    <2> QED
        BY <1>3, <2>1 DEF Referred
<1>4. ASSUME g[N] # 0 PROVE \A i \in 1 .. N : \E q \in 1 .. n : Refer(refs[i], segments[q])
    <2>1. \A i \in 0 .. N : g[N - i] # 0
        <3>1. PICK S : S = {i \in 0 .. N : g[N - i] # 0}
            OBVIOUS
        <3>2. 0 \in S
            BY <1>4, <3>1
        <3>3. ASSUME NEW i \in 0 .. N - 1, i \in S PROVE i + 1 \in S
            <4>1. PICK k \in 1 .. N : k = N - i /\ k - 1 = N - (i + 1)
                OBVIOUS
            <4>2. g[k] # 0
                BY <3>1, <3>3, <4>1
            <4>3. g[k - 1] # 0
                BY <1>2, <4>2
            <4> QED
                BY <3>1, <4>1, <4>3
        <3>4. \A i \in 0 .. N : i \in S
            <4>1. \A i \in 0 .. N - 1 : i \in S => i + 1 \in S
                BY <3>3
            <4> QED
                BY <3>2, <4>1, UpTo
        <3> QED
            BY <3>1, <3>4
    <2>2. \A i \in 0 .. N : g[i] # 0
        <3> SUFFICES ASSUME NEW i \in 0 .. N PROVE g[i] # 0
            OBVIOUS
        <3>1. N - i \in 0 .. N /\ N - (N - i) = i
            OBVIOUS
        <3> QED
            BY <2>1, <3>1
    <2>3. \A i \in 0 .. N : g[i] \in Nat \ {0}
        <3>1. PICK S : S = {i \in 0 .. N : g[i] \in Nat \ {0}}
            OBVIOUS
        <3>2. 0 \in S
            BY <1>1, <3>1
        <3>3. ASSUME NEW i \in 0 .. N - 1, i \in S PROVE i + 1 \in S
            <4>1. PICK k \in 1 .. N : k = i + 1 /\ k - 1 = i
                OBVIOUS
            <4>2. PICK s \in Nat \ {0} : s = g[k - 1]
                BY <3>1, <3>3, <4>1
            <4>3. PICK q : q = SegmentOf(segments, k - 1, s)
                OBVIOUS
            <4>4. q # 0 /\ g[k] = q
                BY <1>2, <2>2, <4>2, <4>3
            <4>5. q \in s .. n
                BY <4>3, <4>4, SegmentFound
            <4>6. g[k] \in Nat \ {0}
                BY <4>4, <4>5
            <4> QED
                BY <3>1, <4>1, <4>6
        <3>4. \A i \in 0 .. N : i \in S
            <4>1. \A i \in 0 .. N - 1 : i \in S => i + 1 \in S
                BY <3>3
            <4> QED
                BY <3>2, <4>1, UpTo
        <3> QED
            BY <3>1, <3>4
    <2>4. ASSUME NEW i \in 1 .. N PROVE \E q \in 1 .. n : Refer(refs[i], segments[q])
        <3>1. PICK s \in Nat \ {0} : s = g[i - 1]
            <4>1. i - 1 \in 0 .. N
                OBVIOUS
            <4> QED
                BY <2>3, <4>1
        <3>2. PICK q : q = SegmentOf(segments, i - 1, s)
            OBVIOUS
        <3>3. q # 0 /\ refs[i].episode = segments[q].episode /\ refs[i].task = segments[q].task
            BY <1>2, <2>2, <3>1, <3>2
        <3>4. q \in s .. n /\ segments[q].from <= i - 1 /\ i - 1 < segments[q].to
            BY <3>2, <3>3, SegmentFound
        <3>5. q \in 1 .. n /\ refs[i].index = i - 1
            BY <3>4 DEF Numbered
        <3> QED
            BY <3>3, <3>4, <3>5 DEF Refer
    <2> QED
        BY <2>4
<1>5. ASSUME \A i \in 1 .. N : \E q \in 1 .. n : Refer(refs[i], segments[q]) PROVE g[N] # 0
    <2>1. PICK S : S = {i \in 0 .. N : g[i] \in Nat \ {0} /\ \A q \in 1 .. n : q < g[i] => segments[q].to <= i}
        OBVIOUS
    <2>2. 0 \in S
        <3>1. g[0] = 1 /\ \A q \in 1 .. n : ~ q < 1
            BY <1>1
        <3> QED
            BY <2>1, <3>1
    <2>3. ASSUME NEW i \in 0 .. N - 1, i \in S PROVE i + 1 \in S
        <3>1. PICK k \in 1 .. N : k = i + 1 /\ k - 1 = i /\ k \in 0 .. N
            OBVIOUS
        <3>2. PICK s \in Nat \ {0} : s = g[k - 1] /\ \A q \in 1 .. n : q < s => segments[q].to <= i
            BY <2>1, <2>3, <3>1
        <3>3. PICK q \in 1 .. n : Refer(refs[k], segments[q])
            BY <1>5
        <3>4. refs[k].index = i /\ segments[q].from <= i /\ i < segments[q].to
              /\ refs[k].episode = segments[q].episode /\ refs[k].task = segments[q].task
            BY <3>1, <3>3 DEF Refer, Numbered
        <3>5. \A l \in 1 .. n : segments[l].from \in Int /\ segments[l].to \in Int
            <4>1. \A l \in 1 .. n : segments[l] \in EpisodeType
                BY DEF InRowSegments
            <4> QED
                BY <4>1 DEF EpisodeType
        <3>6. q \in s .. n
            <4>1. ~ q < s
                BY <3>2, <3>4, <3>5
            <4> QED
                BY <4>1
        <3>7. SegmentOf(segments, k - 1, s) = q
            BY <3>1, <3>4, <3>6, SegmentFound
        <3>8. g[k] = q
            <4>1. g[k - 1] # 0 /\ q # 0
                BY <3>2
            <4> QED
                BY <1>3, <3>2, <3>4, <3>7, <4>1
        <3>9. ASSUME NEW l \in 1 .. n, l < q PROVE segments[l].to <= k
            <4>1. segments[l].to <= segments[q].from
                BY <3>9 DEF InRowSegments
            <4> QED
                BY <3>1, <3>4, <3>5, <4>1
        <3> QED
            BY <2>1, <3>1, <3>8, <3>9
    <2>4. \A i \in 0 .. N : i \in S
        <3>1. \A i \in 0 .. N - 1 : i \in S => i + 1 \in S
            BY <2>3
        <3> QED
            BY <2>2, <3>1, UpTo
    <2>5. N \in S
        BY <2>4
    <2> QED
        BY <2>1, <2>5
<1> QED
    BY <1>1, <1>4, <1>5

FromOf(eps) == [k \in DOMAIN eps |-> eps[k].from]

ARowOf(segments, eps, n) ==
    /\ InRowSegments(segments, n)
    /\ \A k \in 1 .. n : \E q \in 1 .. n : segments[q] = eps[k]
    /\ \A q \in 1 .. n : \E k \in 1 .. n : segments[q] = eps[k]

LEMMA SegmentsInRow ==
    ASSUME NEW d, IsDataset(d), Sound(d), NEW eps, eps = TableRows(d), NEW n \in Nat, n = Len(eps),
           NEW key, key = FromOf(eps), NEW segments, segments = SortedBy(eps, key)
    PROVE  ARowOf(segments, eps, n)
<1>1. DOMAIN eps = 1 .. n
    BY TablesJoined
<1>2. \A k \in 1 .. n : eps[k] \in EpisodeType
    <2>1. eps \in Seq(EpisodeType)
        BY TablesJoined
    <2> QED
        BY <1>1, <2>1
<1>3. \A k \in 1 .. n : eps[k].from \in Int /\ eps[k].to \in Int
    BY <1>2 DEF EpisodeType
<1>4. key = [k \in DOMAIN eps |-> eps[k].from]
    BY DEF FromOf
<1>5. PICK at : Sorts(at, key, n) /\ segments = [k \in 1 .. n |-> eps[at[k]]]
    <2>1. \A k \in 1 .. n : key[k] \in Int
        BY <1>1, <1>3, <1>4
    <2> QED
        <3>1. SortedAt(eps, key, n)
            BY <1>1, <2>1, SortedBySorts
        <3> QED
            BY <3>1 DEF SortedAt
<1>6. \A k \in 1 .. n : at[k] \in 1 .. n /\ segments[k] = eps[at[k]]
    BY <1>5 DEF Sorts
<1>7. \A k \in 1 .. n : eps[k].from < eps[k].to
    <2> SUFFICES ASSUME NEW k \in 1 .. n PROVE eps[k].from < eps[k].to
        OBVIOUS
    <2>1. Span(eps[k]) # {}
        BY <1>1 DEF Sound
    <2> QED
        BY <1>3, <2>1 DEF Span
<1>8. ASSUME NEW j \in 1 .. n, NEW k \in 1 .. n, j < k PROVE segments[j].to <= segments[k].from
    <2>1. PICK x, y \in 1 .. n : x = at[j] /\ y = at[k]
        BY <1>6
    <2>2. key[at[j]] <= key[at[k]] /\ at[j] # at[k]
        BY <1>5, <1>8 DEF Sorts
    <2>3. eps[x].from <= eps[y].from /\ x # y
        BY <1>1, <1>4, <2>1, <2>2
    <2>4. Span(eps[x]) \cap Span(eps[y]) = {}
        BY <1>1, <2>3 DEF Sound
    <2>5. eps[y].from \in Span(eps[y])
        BY <1>3, <1>7 DEF Span
    <2>6. eps[y].from \notin Span(eps[x])
        BY <2>4, <2>5
    <2>7. eps[x].to <= eps[y].from
        BY <1>3, <2>3, <2>6 DEF Span
    <2> QED
        BY <1>6, <2>1, <2>7
<1>9. DOMAIN segments = 1 .. n /\ segments \in Seq(EpisodeType) /\ Len(segments) = n
    <2>1. \A k \in 1 .. n : eps[at[k]] \in EpisodeType
        BY <1>2, <1>6
    <2> QED
        BY <1>5, <2>1
<1>10. InRowSegments(segments, n)
    BY <1>6, <1>7, <1>8, <1>9 DEF InRowSegments
<1>11. ASSUME NEW k \in 1 .. n PROVE \E q \in 1 .. n : segments[q] = eps[k]
    <2>1. PICK q \in 1 .. n : at[q] = k
        BY <1>5 DEF Sorts
    <2> QED
        BY <1>6, <2>1
<1>12. ASSUME NEW q \in 1 .. n PROVE \E k \in 1 .. n : segments[q] = eps[k]
    BY <1>6
<1> QED
    BY <1>10, <1>11, <1>12, Zenon DEF ARowOf

Referenced(d) ==
    \A i \in 0 .. Len(DataRows(d)) - 1 : \E r \in Range(DataRows(d)) :
         /\ r.index = i
         /\ \E e \in Range(TableRows(d)) : i \in Span(e) /\ e.episode = r.episode /\ e.task = r.task

LEMMA ReferencesMatchExact ==
    ASSUME NEW d, IsDataset(d), Sound(d)
    PROVE  ReferencesMatch(d) <=> Referenced(d)
<1>1. PICK eps, rows : eps = TableRows(d) /\ rows = DataRows(d)
    OBVIOUS
<1>2. PICK n \in Nat : n = Len(eps) /\ DOMAIN eps = 1 .. n
    BY <1>1, TablesJoined
<1>3. PICK N \in Nat : N = Len(rows) /\ DOMAIN rows = 1 .. N
    BY <1>1, DataJoined
<1>4. \A k \in 1 .. N : rows[k] \in RowType /\ rows[k].index \in Int
    <2>1. rows \in Seq(RowType)
        BY <1>1, DataJoined
    <2>2. \A k \in 1 .. N : rows[k] \in RowType
        BY <1>3, <2>1
    <2> QED
        BY <2>2 DEF RowType
<1>5. PICK segments : segments = SortedBy(eps, FromOf(eps))
    OBVIOUS
<1>6. /\ InRowSegments(segments, n)
      /\ \A k \in 1 .. n : \E q \in 1 .. n : segments[q] = eps[k]
      /\ \A q \in 1 .. n : \E k \in 1 .. n : segments[q] = eps[k]
    <2>1. PICK from : from = FromOf(eps)
        OBVIOUS
    <2>2. segments = SortedBy(eps, from)
        BY <1>5, <2>1
    <2>3. eps = TableRows(d) /\ n = Len(eps)
        BY <1>1, <1>2
    <2>4. ARowOf(segments, eps, n)
        BY <2>1, <2>2, <2>3, SegmentsInRow
    <2> QED
        BY <2>4 DEF ARowOf
<1>7. PICK key : key = [k \in DOMAIN rows |-> rows[k].index]
    OBVIOUS
<1>8. PICK refs : refs = SortedBy(rows, key)
    OBVIOUS
<1>9. \A k \in 1 .. N : key[k] = rows[k].index /\ key[k] \in Int
    BY <1>3, <1>4, <1>7
<1>10. PICK at : Sorts(at, key, N) /\ refs = [k \in 1 .. N |-> rows[at[k]]]
    <2>1. SortedAt(rows, key, N)
        BY <1>3, <1>9, SortedBySorts
    <2> QED
        BY <1>8, <2>1 DEF SortedAt
<1>11. \A k \in 1 .. N : at[k] \in 1 .. N /\ refs[k] = rows[at[k]] /\ refs[k].index = key[at[k]]
    <2>1. \A k \in 1 .. N : at[k] \in 1 .. N
        BY <1>10 DEF Sorts
    <2> QED
        BY <1>9, <1>10, <2>1
<1>12. ReferencesMatch(d) <=> Numbered(refs, N) /\ AllReferred(segments, refs)
    <2>1. DOMAIN refs = 1 .. N
        BY <1>10
    <2> QED
        BY <1>1, <1>5, <1>7, <1>8, <2>1 DEF ReferencesMatch, Numbered, FromOf
<1>13. ASSUME Numbered(refs, N)
       PROVE  AllReferred(segments, refs) <=> \A i \in 1 .. N : \E q \in 1 .. n : Refer(refs[i], segments[q])
    BY <1>6, <1>13, AllReferredExact
<1>14. ASSUME NEW r \in RowType, NEW q \in 1 .. n
       PROVE  Refer(r, segments[q]) <=> r.index \in Span(segments[q]) /\ segments[q].episode = r.episode
                                         /\ segments[q].task = r.task
    <2>1. segments[q] \in EpisodeType
        BY <1>6 DEF InRowSegments
    <2>2. segments[q].from \in Int /\ segments[q].to \in Int /\ r.index \in Int
        BY <2>1 DEF EpisodeType, RowType
    <2> QED
        BY <2>2 DEF Refer, Span
<1>15. ASSUME Numbered(refs, N), AllReferred(segments, refs) PROVE Referenced(d)
    <2> SUFFICES ASSUME NEW i \in 0 .. N - 1
                 PROVE  \E r \in Range(rows) : /\ r.index = i
                          /\ \E e \in Range(eps) : i \in Span(e) /\ e.episode = r.episode /\ e.task = r.task
        BY <1>1, <1>3 DEF Referenced
    <2>1. PICK k \in 1 .. N : k - 1 = i /\ k = i + 1
        OBVIOUS
    <2>2. PICK q \in 1 .. n : Refer(refs[k], segments[q])
        BY <1>13, <1>15
    <2>3. refs[k].index = i /\ refs[k] = rows[at[k]] /\ at[k] \in 1 .. N
        BY <1>11, <1>15, <2>1 DEF Numbered
    <2>4. refs[k] \in RowType /\ refs[k] \in Range(rows)
        BY <1>3, <1>4, <2>3 DEF Range
    <2>5. PICK l \in 1 .. n : segments[q] = eps[l]
        BY <1>6
    <2>6. eps[l] \in Range(eps)
        BY <1>2 DEF Range
    <2>7. i \in Span(eps[l]) /\ eps[l].episode = refs[k].episode /\ eps[l].task = refs[k].task
        BY <1>14, <2>2, <2>3, <2>4, <2>5
    <2> QED
        BY <2>3, <2>4, <2>6, <2>7
<1>16. ASSUME Referenced(d) PROVE Numbered(refs, N) /\ AllReferred(segments, refs)
    <2>1. ASSUME NEW i \in 0 .. N - 1
          PROVE  \E k \in 1 .. N : /\ rows[k].index = i
                    /\ \E l \in 1 .. n : i \in Span(eps[l]) /\ eps[l].episode = rows[k].episode
                                         /\ eps[l].task = rows[k].task
        <3>1. PICK r \in Range(rows) : /\ r.index = i
                 /\ \E e \in Range(eps) : i \in Span(e) /\ e.episode = r.episode /\ e.task = r.task
            BY <1>1, <1>3, <1>16 DEF Referenced
        <3>2. PICK e \in Range(eps) : i \in Span(e) /\ e.episode = r.episode /\ e.task = r.task
            BY <3>1
        <3>3. PICK k \in 1 .. N : r = rows[k]
            BY <1>3 DEF Range
        <3>4. PICK l \in 1 .. n : e = eps[l]
            BY <1>2 DEF Range
        <3> QED
            BY <3>1, <3>2, <3>3, <3>4
    <2>2. \A v \in 0 .. N - 1 : \E k \in 1 .. N : key[k] = v
        BY <1>9, <2>1
    <2>3. \A k \in 1 .. N : key[at[k]] = k - 1
        BY <1>9, <1>10, <2>2, KeysCount
    <2>4. Numbered(refs, N)
        BY <1>10, <1>11, <2>3 DEF Numbered
    <2>5. ASSUME NEW i \in 1 .. N PROVE \E q \in 1 .. n : Refer(refs[i], segments[q])
        <3>1. i - 1 \in 0 .. N - 1
            OBVIOUS
        <3>2. PICK k, l \in Nat : /\ k \in 1 .. N /\ rows[k].index = i - 1
                         /\ l \in 1 .. n /\ i - 1 \in Span(eps[l]) /\ eps[l].episode = rows[k].episode
                         /\ eps[l].task = rows[k].task
            <4>1. PICK k \in 1 .. N : /\ rows[k].index = i - 1
                    /\ \E l \in 1 .. n : i - 1 \in Span(eps[l]) /\ eps[l].episode = rows[k].episode
                                         /\ eps[l].task = rows[k].task
                BY <2>1, <3>1
            <4> QED
                BY <4>1
        <3>3. PICK x \in 1 .. N : at[x] = k
            BY <1>10, <3>2 DEF Sorts
        <3>4. x = i
            <4>1. key[k] = i - 1 /\ key[at[x]] = x - 1
                BY <1>9, <2>3, <3>2
            <4> QED
                BY <3>3, <4>1
        <3>5. refs[i] = rows[k]
            BY <1>11, <3>3, <3>4
        <3>6. PICK q \in 1 .. n : segments[q] = eps[l]
            BY <1>6, <3>2
        <3>7. rows[k] \in RowType
            BY <1>4, <3>2
        <3>8. Refer(refs[i], segments[q])
            BY <1>14, <3>2, <3>5, <3>6, <3>7
        <3> QED
            BY <3>8
    <2> QED
        BY <1>13, <2>4, <2>5
<1> QED
    BY <1>12, <1>15, <1>16

----------------------------------------------------------------------------
(* TASKS AND VERSIONS: WHAT THE CHECKS MEAN.                                *)

(* L tasks that take every index below L have no other.                     *)
LEMMA TasksCount ==
    ASSUME NEW d, IsDataset(d), NEW L, L = Len(d.tasks),
           \A i \in 0 .. L - 1 : \E t \in Range(d.tasks) : t.index = i
    PROVE  {d.tasks[k].index : k \in DOMAIN d.tasks} = 0 .. L - 1
<1>1. d.tasks \in Seq(TaskType)
    BY DEF IsDataset
<1>2. L \in Nat /\ DOMAIN d.tasks = 1 .. L
    BY <1>1
<1>3. PICK V : V = {d.tasks[k].index : k \in DOMAIN d.tasks}
    OBVIOUS
<1>4. PICK f : f = [k \in 1 .. L |-> d.tasks[k].index]
    OBVIOUS
<1>5. f \in Surjection(1 .. L, V) /\ IsFiniteSet(1 .. L) /\ Cardinality(1 .. L) = L
    <2>1. f \in Surjection(1 .. L, V)
        <3>1. \A v \in V : \E k \in 1 .. L : f[k] = v
            BY <1>2, <1>3, <1>4
        <3>2. f \in [1 .. L -> V]
            BY <1>2, <1>3, <1>4
        <3> QED
            BY <3>1, <3>2, Zenon DEF Surjection
    <2>2. IsFiniteSet(1 .. L) /\ Cardinality(1 .. L) = L
        BY <1>2, FS_Interval
    <2> QED
        BY <2>1, <2>2
<1>6. IsFiniteSet(V) /\ Cardinality(V) <= L
    BY <1>5, FS_Surjection
<1>7. 0 .. L - 1 \in SUBSET V
    BY <1>2, <1>3 DEF Range
<1>8. Cardinality(0 .. L - 1) = L /\ Cardinality(V) \in Nat
    <2>1. Cardinality(0 .. L - 1) = L
        BY <1>2, FS_Interval
    <2>2. Cardinality(V) \in Nat
        BY <1>6, FS_CardinalityType
    <2> QED
        BY <2>1, <2>2
<1>9. Cardinality(0 .. L - 1) <= Cardinality(V)
    BY <1>6, <1>7, FS_Subset
<1>10. Cardinality(0 .. L - 1) = Cardinality(V)
    BY <1>2, <1>6, <1>8, <1>9
<1> QED
    BY <1>3, <1>6, <1>7, <1>10, FS_Subset

TasksFit(d) ==
    /\ {e.task : e \in Range(TableRows(d))} = 0 .. Len(d.tasks) - 1
    /\ \A i \in 0 .. Len(d.tasks) - 1 : \E t \in Range(d.tasks) : t.index = i

LEMMA TasksMatchExact == ASSUME NEW d, IsDataset(d) PROVE TaskIndicesMatch(d) <=> TasksFit(d)
<1>1. PICK eps : eps = TableRows(d)
    OBVIOUS
<1>2. PICK L : L = Len(d.tasks)
    OBVIOUS
<1>3. PICK listed, used : /\ listed = {d.tasks[k].index : k \in DOMAIN d.tasks}
                          /\ used = {eps[k].task : k \in DOMAIN eps}
    OBVIOUS
<1>4. used = {e.task : e \in Range(eps)}
    BY <1>3 DEF Range
<1>5. TaskIndicesMatch(d) <=> listed = 0 .. L - 1 /\ used = listed
    BY <1>1, <1>2, <1>3 DEF TaskIndicesMatch
<1>6. ASSUME listed = 0 .. L - 1, NEW i \in 0 .. L - 1 PROVE \E t \in Range(d.tasks) : t.index = i
    <2>1. PICK k \in DOMAIN d.tasks : i = d.tasks[k].index
        BY <1>3, <1>6
    <2> QED
        BY <2>1 DEF Range
<1>7. ASSUME \A i \in 0 .. L - 1 : \E t \in Range(d.tasks) : t.index = i PROVE listed = 0 .. L - 1
    BY <1>2, <1>3, <1>7, TasksCount
<1> QED
    BY <1>1, <1>2, <1>4, <1>5, <1>6, <1>7 DEF TasksFit

LEMMA VideosExact ==
    ASSUME NEW d, Sound(d)
    PROVE  (d.info.video => VideosAccessible(d)) <=>
             (d.info.video => "video" \notin d.torn /\ \A e \in Range(TableRows(d)) : e.file \in DOMAIN d.video)
<1>1. d.info.video => d.video # NoFiles
    BY DEF Sound
<1>2. (\A e \in Range(TableRows(d)) : e.file \in DOMAIN d.video)
        <=> \A k \in DOMAIN TableRows(d) : TableRows(d)[k].file \in DOMAIN d.video
    BY DEF Range
<1> QED
    BY <1>1, <1>2 DEF VideosAccessible

LEMMA ThroughMeans ==
    ASSUME NEW d, IsDataset(d)
    PROVE  ThroughAndThrough(d) <=> /\ Sound(d) /\ TasksFit(d) /\ Referenced(d)
                                    /\ d.info.video => /\ "video" \notin d.torn
                                                       /\ \A e \in Range(TableRows(d)) : e.file \in DOMAIN d.video
BY DEF ThroughAndThrough, TasksFit, Referenced

(* Versions.                                                                *)
LEMMA RecentIsSupported ==
    ASSUME NEW v \in Seq(Nat)
    PROVE  VersionIsSupported(v) <=> Recent(v)
<1>1. PICK n \in Nat : n = Len(v) /\ DOMAIN v = 1 .. n
    OBVIOUS
<1>2. \A k \in 1 .. n : v[k] \in Nat
    BY <1>1
<1>3. v # <<>> <=> n >= 1
    BY <1>1
<1>4. Len(MinVersion) = 3 /\ DOMAIN MinVersion = 1 .. 3 /\ MinVersion[1] = 0 /\ MinVersion[2] = 3 /\ MinVersion[3] = 0
    BY DEF MinVersion
<1>5. PICK w : w = Padded(v)
    OBVIOUS
<1>6. \A k \in 1 .. 3 : w[k] = IF k \in 1 .. n THEN v[k] ELSE 0
    <2>1. PICK m : m = Max({n, 3})
        OBVIOUS
    <2>2. m \in {n, 3} /\ m >= 3
        <3>1. \E x \in {n, 3} : \A y \in {n, 3} : x >= y
            OBVIOUS
        <3> QED
            BY <2>1, <3>1 DEF Max
    <2>3. w = [k \in 1 .. m |-> IF k \in 1 .. n THEN v[k] ELSE 0]
        BY <1>1, <1>4, <1>5, <2>1 DEF Padded
    <2>4. 1 .. 3 \subseteq 1 .. m
        BY <2>2
    <2> QED
        BY <2>3, <2>4
<1>7. w[1] \in Nat /\ w[2] \in Nat /\ w[3] \in Nat
    BY <1>2, <1>6
<1>8. VersionIsSupported(v) <=>
        /\ n >= 1
        /\ \/ w[1] = 0 /\ w[2] = 3 /\ w[3] = 0
           \/ w[1] > 0
           \/ w[2] > 3 /\ w[1] = 0
           \/ w[3] > 0 /\ w[1] = 0 /\ w[2] = 3
    <2>1. 1 .. 3 = {1, 2, 3}
        OBVIOUS
    <2>2. (\A k \in DOMAIN MinVersion : w[k] = MinVersion[k]) <=> w[1] = 0 /\ w[2] = 3 /\ w[3] = 0
        BY <1>4, <2>1
    <2>3. 1 .. 1 - 1 = {} /\ 1 .. 2 - 1 = {1} /\ 1 .. 3 - 1 = {1, 2}
        OBVIOUS
    <2>4. (\E k \in DOMAIN MinVersion : w[k] > MinVersion[k] /\ \A i \in 1 .. k - 1 : w[i] = MinVersion[i])
             <=> \/ w[1] > 0
                 \/ w[2] > 3 /\ w[1] = 0
                 \/ w[3] > 0 /\ w[1] = 0 /\ w[2] = 3
        <3>1. (\A i \in 1 .. 1 - 1 : w[i] = MinVersion[i])
              /\ ((\A i \in 1 .. 2 - 1 : w[i] = MinVersion[i]) <=> w[1] = 0)
              /\ ((\A i \in 1 .. 3 - 1 : w[i] = MinVersion[i]) <=> w[1] = 0 /\ w[2] = 3)
            BY <1>4, <2>3
        <3> QED
            BY <1>4, <2>1, <3>1
    <2> QED
        BY <1>3, <1>5, <2>2, <2>4 DEF VersionIsSupported
<1>9. Recent(v) <=> n >= 1 /\ 100 * w[1] + w[2] >= 3
    <2>1. n >= 1 => w[1] = v[1] /\ w[2] = IF n > 1 THEN v[2] ELSE 0
        BY <1>6
    <2> QED
        BY <1>1, <2>1 DEF Recent
<1> QED
    BY <1>7, <1>8, <1>9

FullVerdict(d, l) ==
    IF d = Absent \/ ~ThroughAndThrough(d) THEN "failed"
    ELSE IF ~Recent(l.version) \/ l.fromLocal = "absent" THEN "partial"
    ELSE IF l.fromLocal = "raises" THEN "failed" ELSE "passed"

LEMMA SmokeTestExact ==
    ASSUME NEW l \in Loaders
    PROVE  SmokeTest(l) = IF ~Recent(l.version) \/ l.fromLocal = "absent" THEN "partial"
                          ELSE IF l.fromLocal = "raises" THEN "failed" ELSE "passed"
<1>1. l.version \in Seq(Nat) /\ l.fromLocal \in {"absent", "loads", "raises"}
    BY DEF Loaders
<1>2. VersionIsSupported(l.version) <=> Recent(l.version)
    BY <1>1, RecentIsSupported
<1> QED
    BY <1>1, <1>2 DEF SmokeTest

LEMMA FullMeans ==
    ASSUME NEW d, d = Absent \/ IsDataset(d), NEW l \in Loaders
    PROVE  ValidateFull(d, l) = FullVerdict(d, l)
<1>1. CASE d = Absent
    <2>1. ValidateQuick(d) = "failed"
        BY <1>1 DEF ValidateQuick
    <2> QED
        BY <1>1, <2>1 DEF ValidateFull, FullVerdict
<1>2. CASE d # Absent /\ IsDataset(d)
    <2>1. ValidateQuick(d) = "passed" <=> Sound(d)
        BY <1>2, QuickMeans
    <2>2. CASE ~Sound(d)
        <3>1. ~ThroughAndThrough(d)
            BY <1>2, <2>2, ThroughMeans
        <3> QED
            BY <2>1, <2>2, <3>1 DEF ValidateFull, FullVerdict
    <2>3. CASE Sound(d)
        <3>1. TaskIndicesMatch(d) <=> TasksFit(d)
            BY <1>2, TasksMatchExact
        <3>2. ReferencesMatch(d) <=> Referenced(d)
            BY <1>2, <2>3, ReferencesMatchExact
        <3>3. (d.info.video => VideosAccessible(d)) <=>
                (d.info.video => "video" \notin d.torn /\ \A e \in Range(TableRows(d)) : e.file \in DOMAIN d.video)
            BY <2>3, VideosExact
        <3>4. ThroughAndThrough(d) <=> /\ ValidateQuick(d) = "passed"
                                       /\ TaskIndicesMatch(d)
                                       /\ ReferencesMatch(d)
                                       /\ d.info.video => VideosAccessible(d)
            BY <1>2, <2>1, <3>1, <3>2, <3>3, ThroughMeans
        <3>5. SmokeTest(l) = IF ~Recent(l.version) \/ l.fromLocal = "absent" THEN "partial"
                             ELSE IF l.fromLocal = "raises" THEN "failed" ELSE "passed"
            BY SmokeTestExact
        <3> QED
            BY <1>2, <3>4, <3>5 DEF ValidateFull, FullVerdict
    <2> QED
        BY <2>2, <2>3
<1> QED
    BY <1>1, <1>2

----------------------------------------------------------------------------
(* ELEMENTS OF WHAT AN EDIT KEEPS.                                          *)

(* Which elements are in what is kept, sorted or joined.                    *)
LEMMA KeptTyped ==
    ASSUME NEW T, NEW s \in Seq(T), NEW K \in SUBSET (1 .. Len(s))
    PROVE  /\ Kept(s, K) \in Seq(T)
           /\ \A i \in DOMAIN Kept(s, K) : \E k \in K : Kept(s, K)[i] = s[k]
<1>1. PICK n \in Nat : n = Len(s) /\ DOMAIN s = 1 .. n
    OBVIOUS
<1>2. K \in SUBSET (1 .. n)
    BY <1>1
<1>0. KeptAt(s, K)
    BY <1>2, KeptPicks
<1>3. PICK c \in Nat : c = Cardinality(K)
    BY <1>0 DEF KeptAt
<1>4. PICK at : Picks(at, K) /\ Kept(s, K) = [i \in 1 .. Cardinality(K) |-> s[at[i]]]
    BY <1>0 DEF KeptAt
<1>5. at \in [1 .. c -> K] /\ Kept(s, K) = [i \in 1 .. c |-> s[at[i]]]
    BY <1>3, <1>4 DEF Picks
<1>6. ASSUME NEW i \in 1 .. c PROVE at[i] \in K /\ s[at[i]] \in T
    <2>1. at[i] \in K
        BY <1>5
    <2>2. at[i] \in 1 .. n
        BY <1>2, <2>1
    <2> QED
        BY <1>1, <2>1, <2>2
<1>7. Kept(s, K) \in Seq(T)
    BY <1>5, <1>6
<1>8. \A i \in DOMAIN Kept(s, K) : \E k \in K : Kept(s, K)[i] = s[k]
    BY <1>5, <1>6
<1> QED
    BY <1>7, <1>8

LEMMA SortedTyped ==
    ASSUME NEW T, NEW s \in Seq(T), NEW key, \A k \in 1 .. Len(s) : key[k] \in Int
    PROVE  /\ SortedBy(s, key) \in Seq(T) /\ Len(SortedBy(s, key)) = Len(s)
           /\ \A i \in DOMAIN SortedBy(s, key) : \E k \in 1 .. Len(s) : SortedBy(s, key)[i] = s[k]
<1>1. PICK n \in Nat : n = Len(s) /\ DOMAIN s = 1 .. n
    OBVIOUS
<1>2. PICK at : Sorts(at, key, n) /\ SortedBy(s, key) = [k \in 1 .. n |-> s[at[k]]]
    <2>1. \A k \in 1 .. n : key[k] \in Int
        BY <1>1
    <2>2. SortedAt(s, key, n)
        BY <1>1, <2>1, SortedBySorts
    <2> QED
        BY <2>2 DEF SortedAt
<1>3. \A i \in 1 .. n : at[i] \in 1 .. n /\ s[at[i]] \in T
    BY <1>1, <1>2 DEF Sorts
<1> QED
    BY <1>1, <1>2, <1>3

LEMMA ConcatTyped ==
    ASSUME NEW T, NEW m \in Nat, NEW ss, DOMAIN ss = 1 .. m, \A i \in 1 .. m : ss[i] \in Seq(T)
    PROVE  Concat(ss) \in Seq(T)
<1>1. PICK g : /\ DOMAIN g = 0 .. m /\ g[0] = <<>>
               /\ \A i \in 1 .. m : g[i] = g[i - 1] \o ss[i]
               /\ Concat(ss) = g[m]
    BY ConcatTraced
<1>2. PICK S : S = {i \in 0 .. m : g[i] \in Seq(T)}
    OBVIOUS
<1>3. 0 \in S
    <2>1. g[0] \in Seq(T) /\ 0 \in 0 .. m
        BY <1>1
    <2> QED
        BY <1>2, <2>1
<1>4. ASSUME NEW i \in 0 .. m - 1, i \in S PROVE i + 1 \in S
    <2>1. PICK k \in 1 .. m : k = i + 1 /\ k - 1 = i
        OBVIOUS
    <2>2. PICK a, b \in Seq(T) : a = g[i] /\ b = ss[k]
        BY <1>2, <1>4
    <2>3. g[k] = a \o b
        BY <1>1, <2>1, <2>2
    <2>4. a \o b \in Seq(T) /\ k \in 0 .. m
        OBVIOUS
    <2> QED
        BY <1>2, <2>1, <2>3, <2>4
<1>5. \A i \in 0 .. m : i \in S
    <2>1. \A i \in 0 .. m - 1 : i \in S => i + 1 \in S
        BY <1>4
    <2> QED
        BY <1>3, <2>1, UpTo
<1> QED
    BY <1>1, <1>2, <1>5

LEMMA ConcatOfOne ==
    ASSUME NEW T, NEW s \in Seq(T)
    PROVE  Concat(<<s>>) = s
<1>1. PICK ss : ss = <<s>>
    OBVIOUS
<1>2. DOMAIN ss = 1 .. 1 /\ ss[1] = s
    BY <1>1
<1>3. PICK m \in Nat : m = 1
    OBVIOUS
<1>4. PICK g : /\ DOMAIN g = 0 .. m /\ g[0] = <<>>
               /\ \A i \in 1 .. m : g[i] = g[i - 1] \o ss[i]
               /\ Concat(ss) = g[m]
    BY <1>2, <1>3, ConcatTraced
<1>5. 1 \in 1 .. m /\ 1 - 1 = 0
    BY <1>3
<1>6. g[1] = <<>> \o s
    BY <1>2, <1>4, <1>5
<1>7. <<>> \o s = s
    OBVIOUS
<1> QED
    BY <1>1, <1>3, <1>4, <1>6, <1>7

----------------------------------------------------------------------------
TotalFold(k, n, x) == n + x
Totals == INSTANCE FoldProofs WITH Step <- TotalFold

LEMMA TotalTraced ==
    ASSUME NEW s, NEW n \in Nat, DOMAIN s = 1 .. n
    PROVE  \E g : /\ DOMAIN g = 0 .. n /\ g[0] = 0
                  /\ \A i \in 1 .. n : g[i] = g[i - 1] + s[i]
                  /\ Total(s) = g[n]
<1>1. Total(s) = Totals!Fold(s, 0, s)
    BY DEF Total, TotalFold, FoldLeft, MapThenFoldSet, Max,
           Totals!Fold, Totals!Latest
<1>2. PICK g : Totals!Traces(s, 0, s, n, g) /\ Totals!Fold(s, 0, s) = g[n]
    BY Upward, Totals!FoldIsTraced DEF Totals!Induction
<1> QED
    BY <1>1, <1>2 DEF TotalFold, Totals!Traces

LEMMA TotalTyped ==
    ASSUME NEW n \in Nat, NEW s \in [1 .. n -> Int]
    PROVE  Total(s) \in Int
<1>1. PICK g : /\ DOMAIN g = 0 .. n /\ g[0] = 0
               /\ \A i \in 1 .. n : g[i] = g[i - 1] + s[i]
               /\ Total(s) = g[n]
    BY TotalTraced
<1>2. PICK S : S = {i \in 0 .. n : g[i] \in Int}
    OBVIOUS
<1>3. 0 \in S
    BY <1>1, <1>2
<1>4. \A i \in 0 .. n - 1 : i \in S => i + 1 \in S
    <2> SUFFICES ASSUME NEW i \in 0 .. n - 1, i \in S PROVE i + 1 \in S
        OBVIOUS
    <2>1. PICK k \in 1 .. n : k = i + 1 /\ k - 1 = i
        OBVIOUS
    <2>2. g[k] = g[i] + s[k]
        BY <1>1, <2>1
    <2> QED
        BY <1>2, <2>1, <2>2
<1>5. \A i \in 0 .. n : i \in S
    BY <1>3, <1>4, UpTo
<1> QED
    BY <1>1, <1>2, <1>5

----------------------------------------------------------------------------
LEMMA FileTyped == ASSUME NEW k \in Nat PROVE File(k) \in Nat \X Nat
<1>1. ASSUME NEW c \in Nat, c > 0, c = ChunksSize PROVE File(k) \in Nat \X Nat
    <2>1. k \div c \in Nat /\ k % c \in Nat
        BY <1>1, SMTT(30)
    <2> QED
        BY <1>1, <2>1 DEF File
<1>2. ChunksSize \in Nat /\ ChunksSize > 0
    BY EngineAssumption DEF EngineAssumption
<1> QED
    BY <1>1, <1>2

LEMMA Divided ==
    ASSUME NEW c \in Nat, c > 0, NEW j \in Nat, NEW k \in Nat, j \div c = k \div c, j % c = k % c
    PROVE  j = k
BY SMTT(30)

LEMMA FilesDiffer == ASSUME NEW j \in Nat, NEW k \in Nat, File(j) = File(k) PROVE j = k
<1>1. ChunksSize \in Nat /\ ChunksSize > 0
    BY EngineAssumption DEF EngineAssumption
<1>2. j \div ChunksSize = k \div ChunksSize /\ j % ChunksSize = k % ChunksSize
    BY DEF File
<1> QED
    BY <1>1, <1>2, Divided

----------------------------------------------------------------------------
(* REINDEXED EPISODES.                                                      *)

PlaceFold(k, new, e) == Append(new, Renumbered(new, e))
Placing == INSTANCE FoldProofs WITH Step <- PlaceFold

LEMMA ReindexedTraced ==
    ASSUME NEW eps, NEW n \in Nat, DOMAIN eps = 1 .. n
    PROVE  \E g : /\ DOMAIN g = 0 .. n /\ g[0] = <<>>
                  /\ \A i \in 1 .. n : g[i] = Append(g[i - 1], Renumbered(g[i - 1], eps[i]))
                  /\ Reindexed(eps) = g[n]
<1>1. Reindexed(eps) = Placing!Fold(eps, <<>>, eps)
    BY DEF Reindexed, PlaceFold, FoldLeft, MapThenFoldSet, Max,
           Placing!Fold, Placing!Latest
<1>2. PICK g : Placing!Traces(eps, <<>>, eps, n, g) /\ Placing!Fold(eps, <<>>, eps) = g[n]
    BY Upward, Placing!FoldIsTraced DEF Placing!Induction
<1> QED
    BY <1>1, <1>2 DEF PlaceFold, Placing!Traces

(* What reindex_episodes makes of each episode.                             *)
Placed(x, e, k, from) ==
    /\ x \in EpisodeType
    /\ x.episode = k - 1 /\ x.file = File(k - 1)
    /\ x.length = e.length /\ x.of = e.of /\ x.task = e.task
    /\ x.from = from /\ x.to = from + e.length

AreReindexed(new, eps, n) ==
    /\ new \in Seq(EpisodeType) /\ Len(new) = n
    /\ \A k \in 1 .. n : Placed(new[k], eps[k], k, IF k = 1 THEN 0 ELSE new[k - 1].to)

LEMMA OnePlaced ==
    ASSUME NEW i \in Nat, NEW a \in Seq(EpisodeType), Len(a) = i, NEW e \in EpisodeType
    PROVE  Placed(Renumbered(a, e), e, i + 1, IF i = 0 THEN 0 ELSE a[i].to)
<1>1. PICK from : from = IF a = <<>> THEN 0 ELSE Last(a).to
    OBVIOUS
<1>2. from = (IF i = 0 THEN 0 ELSE a[i].to) /\ from \in Int
    <2>1. CASE i = 0
        BY <1>1, <2>1
    <2>2. CASE i # 0
        <3>1. a[i] \in EpisodeType /\ Last(a) = a[i] /\ a # <<>>
            BY <2>2 DEF Last
        <3>2. a[i].to \in Int
            BY <3>1 DEF EpisodeType
        <3> QED
            BY <1>1, <2>2, <3>1, <3>2
    <2> QED
        BY <2>1, <2>2
<1>3. PICK f \in Nat \X Nat : f = File(i)
    BY FileTyped
<1>4. PICK x : x = [e EXCEPT !.episode = i, !.from = from, !.to = from + e.length, !.file = f]
    OBVIOUS
<1>5. x = Renumbered(a, e)
    BY <1>1, <1>3, <1>4 DEF Renumbered
<1>6. e.length \in Int /\ from + e.length \in Int
    <2>1. e.length \in Int
        BY DEF EpisodeType
    <2> QED
        BY <1>2, <2>1
<1>7. x \in EpisodeType /\ x.episode = i /\ x.file = f /\ x.length = e.length /\ x.of = e.of /\ x.task = e.task
      /\ x.from = from /\ x.to = from + e.length
    <2>1. PICK to \in Int : to = from + e.length
        BY <1>6
    <2>2. from \in Int /\ i \in Int /\ f \in Nat \X Nat
        BY <1>2
    <2>3. x = [e EXCEPT !.episode = i, !.from = from, !.to = to, !.file = f]
        BY <1>4, <2>1
    <2>4. x \in EpisodeType
        BY <2>2, <2>3 DEF EpisodeType
    <2>5. x.episode = i /\ x.file = f /\ x.length = e.length /\ x.of = e.of /\ x.task = e.task
          /\ x.from = from /\ x.to = to
        BY <2>3 DEF EpisodeType
    <2> QED
        BY <2>1, <2>4, <2>5
<1>8. i + 1 - 1 = i
    OBVIOUS
<1> QED
    BY <1>2, <1>3, <1>5, <1>7, <1>8 DEF Placed

LEMMA ReindexedExact ==
    ASSUME NEW n \in Nat, NEW eps \in Seq(EpisodeType), Len(eps) = n
    PROVE  AreReindexed(Reindexed(eps), eps, n)
<1>1. PICK g : /\ DOMAIN g = 0 .. n /\ g[0] = <<>>
               /\ \A i \in 1 .. n : g[i] = Append(g[i - 1], Renumbered(g[i - 1], eps[i]))
               /\ Reindexed(eps) = g[n]
    <2>1. DOMAIN eps = 1 .. n
        OBVIOUS
    <2> QED
        BY <2>1, ReindexedTraced
<1>2. PICK S : S = {i \in 0 .. n : AreReindexed(g[i], eps, i)}
    OBVIOUS
<1>3. 0 \in S
    <2>1. g[0] \in Seq(EpisodeType) /\ Len(g[0]) = 0 /\ \A k \in 1 .. 0 : FALSE
        BY <1>1
    <2>2. AreReindexed(g[0], eps, 0)
        BY <2>1 DEF AreReindexed
    <2> QED
        BY <1>2, <2>2
<1>4. ASSUME NEW i \in 0 .. n - 1, i \in S PROVE i + 1 \in S
    <2>1. PICK m \in 1 .. n : m = i + 1 /\ m - 1 = i /\ m \in 0 .. n /\ i \in Nat
        OBVIOUS
    <2>2. PICK a, e, x : a = g[i] /\ e = eps[m] /\ x = Renumbered(a, e)
        OBVIOUS
    <2>3. a \in Seq(EpisodeType) /\ Len(a) = i
          /\ \A k \in 1 .. i : Placed(a[k], eps[k], k, IF k = 1 THEN 0 ELSE a[k - 1].to)
        BY <1>2, <1>4, <2>2 DEF AreReindexed
    <2>4. e \in EpisodeType
        BY <2>2
    <2>5. Placed(x, e, m, IF i = 0 THEN 0 ELSE a[i].to)
        BY <2>1, <2>2, <2>3, <2>4, OnePlaced
    <2>6. PICK b : b = Append(a, x)
        OBVIOUS
    <2>7. g[m] = b
        BY <1>1, <2>1, <2>2, <2>6
    <2>8. x \in EpisodeType
        BY <2>5 DEF Placed
    <2>9. b \in Seq(EpisodeType) /\ Len(b) = m /\ b[m] = x /\ \A k \in 1 .. i : b[k] = a[k]
        BY <2>1, <2>3, <2>6, <2>8
    <2>10. ASSUME NEW k \in 1 .. m PROVE Placed(b[k], eps[k], k, IF k = 1 THEN 0 ELSE b[k - 1].to)
        <3>1. CASE k = m
            <4>1. (IF k = 1 THEN 0 ELSE b[k - 1].to) = (IF i = 0 THEN 0 ELSE a[i].to)
                <5>1. k # 1 => i \in 1 .. i /\ k - 1 = i
                    BY <2>1, <3>1
                <5>2. k = 1 <=> i = 0
                    BY <2>1, <3>1
                <5> QED
                    BY <2>9, <5>1, <5>2
            <4> QED
                BY <2>2, <2>5, <2>9, <3>1, <4>1
        <3>2. CASE k # m
            <4>1. k \in 1 .. i /\ (k # 1 => k - 1 \in 1 .. i)
                BY <2>1, <3>2
            <4>2. b[k] = a[k] /\ (k # 1 => b[k - 1] = a[k - 1])
                BY <2>9, <4>1
            <4>3. Placed(a[k], eps[k], k, IF k = 1 THEN 0 ELSE a[k - 1].to)
                BY <2>3, <4>1
            <4>4. (IF k = 1 THEN 0 ELSE b[k - 1].to) = (IF k = 1 THEN 0 ELSE a[k - 1].to)
                BY <4>2
            <4> QED
                BY <4>2, <4>3, <4>4
        <3> QED
            BY <3>1, <3>2
    <2>11. AreReindexed(b, eps, m)
        BY <2>9, <2>10 DEF AreReindexed
    <2> QED
        BY <1>2, <2>1, <2>7, <2>11
<1>5. \A i \in 0 .. n : i \in S
    <2>1. \A i \in 0 .. n - 1 : i \in S => i + 1 \in S
        BY <1>4
    <2> QED
        BY <1>3, <2>1, UpTo
<1>6. n \in S
    BY <1>5
<1> QED
    BY <1>1, <1>2, <1>6

----------------------------------------------------------------------------
(* A DATASET IS WRITTEN.                                                    *)

(* Files with one more, or one replaced.                                    *)
Held(w, fs, name, x) == /\ DOMAIN w = DOMAIN fs \cup {name} /\ w[name] = x
                        /\ \A f \in DOMAIN fs : f # name => w[f] = fs[f]

LEMMA WithFiles ==
    ASSUME NEW fs, AreFiles(fs), NEW name \in Nat \X Nat, NEW x
    PROVE  AreFiles(With(fs, name, x)) /\ Held(With(fs, name, x), fs, name, x)
<1>1. PICK w : w = With(fs, name, x)
    OBVIOUS
<1>2. DOMAIN w = DOMAIN fs \cup {name} /\ w = [f \in DOMAIN w |-> w[f]] /\ w[name] = x
      /\ \A f \in DOMAIN fs : f # name => w[f] = fs[f]
    BY <1>1 DEF With
<1>3. IsFiniteSet(DOMAIN fs) /\ DOMAIN fs \subseteq Nat \X Nat
    BY DEF AreFiles
<1>4. IsFiniteSet(DOMAIN fs \cup {name})
    <2>1. IsFiniteSet({name})
        BY FS_Singleton
    <2> QED
        BY <1>3, <2>1, FS_Union
<1>5. IsFiniteSet(DOMAIN w) /\ DOMAIN w \subseteq Nat \X Nat
    <2>1. IsFiniteSet(DOMAIN w)
        BY <1>2, <1>4
    <2> QED
        BY <1>2, <1>3, <2>1
<1>6. AreFiles(w)
    BY <1>2, <1>5 DEF AreFiles
<1> QED
    BY <1>1, <1>2, <1>6 DEF Held

LEMMA RelabelledTyped ==
    ASSUME NEW file \in FileType, NEW x \in Int
    PROVE  /\ Relabelled(file, x) \in FileType /\ Relabelled(file, x).stamped = file.stamped
           /\ DOMAIN Relabelled(file, x).rows = DOMAIN file.rows /\ Len(Relabelled(file, x).rows) = Len(file.rows)
           /\ \A k \in DOMAIN file.rows : Relabelled(file, x).rows[k] = [file.rows[k] EXCEPT !.episode = x]
<1>1. file.rows \in Seq(RowType) /\ file.stamped \in BOOLEAN
    BY DEF FileType
<1>2. PICK n \in Nat : n = Len(file.rows) /\ DOMAIN file.rows = 1 .. n
    BY <1>1
<1>3. PICK new : new = [r \in DOMAIN file.rows |-> [file.rows[r] EXCEPT !.episode = x]]
    OBVIOUS
<1>4. Relabelled(file, x) = [stamped |-> file.stamped, rows |-> new]
    <2>1. file = [stamped |-> file.stamped, rows |-> file.rows]
        BY DEF FileType
    <2>2. Relabelled(file, x) = [file EXCEPT !.rows = new]
        BY <1>3 DEF Relabelled
    <2> QED
        BY <2>1, <2>2
<1>5. \A r \in 1 .. n : [file.rows[r] EXCEPT !.episode = x] \in RowType
    <2>1. \A r \in 1 .. n : file.rows[r] \in RowType
        BY <1>1, <1>2
    <2> QED
        BY <2>1 DEF RowType
<1>6. new \in Seq(RowType) /\ Len(new) = n /\ DOMAIN new = 1 .. n
    BY <1>2, <1>3, <1>5
<1>7. Relabelled(file, x) \in FileType
    BY <1>1, <1>4, <1>6 DEF FileType
<1> QED
    BY <1>2, <1>3, <1>4, <1>6, <1>7

----------------------------------------------------------------------------
(* A disk with one directory replaced.                                      *)
OnDisk(dk, D) == dk = [m \in D |-> dk[m]]
Shape(d) == d = [info |-> d.info, tasks |-> d.tasks, tables |-> d.tables, data |-> d.data,
                 video |-> d.video, torn |-> d.torn]

CopyOf(d, source, from, e) ==
    [info |-> d.info, tasks |-> d.tasks, tables |-> d.tables,
     data |-> IF from.file \notin DOMAIN source.data THEN d.data
              ELSE With(d.data, e.file, Relabelled(source.data[from.file], e.episode)),
     video |-> IF from.file \notin DOMAIN source.video THEN d.video
               ELSE With(d.video, e.file, source.video[from.file]),
     torn |-> d.torn]

LEMMA CopiedShape ==
    ASSUME NEW D, NEW dk, OnDisk(dk, D), NEW out \in D, Shape(dk[out]), NEW from, NEW e
    PROVE  Copied(dk, out, from, e)
             = [m \in D |-> IF m = out THEN CopyOf(dk[out], dk[from.root], from, e) ELSE dk[m]]
<1>1. PICK source : source = dk[from.root]
    OBVIOUS
<1>2. PICK d : d = dk[out]
    OBVIOUS
<1>3. d = [info |-> d.info, tasks |-> d.tasks, tables |-> d.tables, data |-> d.data,
           video |-> d.video, torn |-> d.torn]
    BY <1>2 DEF Shape
<1>4. PICK data, video :
        /\ data = IF from.file \notin DOMAIN source.data THEN d.data
                  ELSE With(d.data, e.file, Relabelled(source.data[from.file], e.episode))
        /\ video = IF from.file \notin DOMAIN source.video THEN d.video
                   ELSE With(d.video, e.file, source.video[from.file])
    OBVIOUS
<1>5. dk = [m \in D |-> dk[m]]
    BY DEF OnDisk
<1>6. CopyOf(d, source, from, e) = [info |-> d.info, tasks |-> d.tasks, tables |-> d.tables, data |-> data,
                                    video |-> video, torn |-> d.torn]
    BY <1>4 DEF CopyOf
<1>7. PICK dj : dj = [m \in D |-> IF m = out THEN [info |-> d.info, tasks |-> d.tasks, tables |-> d.tables,
                                                   data |-> data, video |-> d.video, torn |-> d.torn]
                                  ELSE dk[m]]
    OBVIOUS
<1>8. dj = [dk EXCEPT ![out].data = data]
    <2>1. [d EXCEPT !.data = data] = [info |-> d.info, tasks |-> d.tasks, tables |-> d.tables,
                                      data |-> data, video |-> d.video, torn |-> d.torn]
        BY <1>3
    <2>2. [dk EXCEPT ![out].data = data] = [dk EXCEPT ![out] = [d EXCEPT !.data = data]]
        BY <1>2, <1>5
    <2> QED
        BY <1>5, <1>7, <2>1, <2>2
<1>9. [dj EXCEPT ![out].video = video]
         = [m \in D |-> IF m = out THEN CopyOf(d, source, from, e) ELSE dk[m]]
    <2>1. PICK dd : dd = [info |-> d.info, tasks |-> d.tasks, tables |-> d.tables,
                          data |-> data, video |-> d.video, torn |-> d.torn]
        OBVIOUS
    <2>2. dj[out] = dd /\ \A m \in D : m # out => dj[m] = dk[m]
        BY <1>7, <2>1
    <2>3. [dd EXCEPT !.video = video] = CopyOf(d, source, from, e)
        BY <1>6, <2>1
    <2>4. [dj EXCEPT ![out].video = video] = [dj EXCEPT ![out] = [dd EXCEPT !.video = video]]
        BY <1>7, <2>2
    <2> QED
        BY <1>7, <2>2, <2>3, <2>4
<1>10. Copied(dk, out, from, e) = [[dk EXCEPT ![out].data = data] EXCEPT ![out].video = video]
    <2>1. d.video = dj[out].video /\ d.data = dk[out].data
        BY <1>2, <1>7
    <2> QED
        BY <1>1, <1>2, <1>4, <1>8, <2>1 DEF Copied
<1> QED
    BY <1>1, <1>2, <1>8, <1>9, <1>10

(* One field of one directory replaced.                                     *)
Rec(info, tasks, tables, data, video, torn) ==
    [info |-> info, tasks |-> tasks, tables |-> tables, data |-> data, video |-> video, torn |-> torn]
Put(dk, D, out, d) == [m \in D |-> IF m = out THEN d ELSE dk[m]]

Outside(dk, was, out, D) == OnDisk(dk, D) /\ \A m \in D : m # out => dk[m] = was[m]

LEMMA PutIn ==
    ASSUME NEW D, NEW dk, NEW out \in D, NEW d
    PROVE  Outside(Put(dk, D, out, d), dk, out, D) /\ Put(dk, D, out, d)[out] = d
BY DEF OnDisk, Put, Outside

LEMMA PutTwice ==
    ASSUME NEW D, NEW dk, NEW out \in D, NEW c, NEW d
    PROVE  Put(Put(dk, D, out, c), D, out, d) = Put(dk, D, out, d)
BY DEF Put

LEMMA PutTables ==
    ASSUME NEW D, NEW dk, OnDisk(dk, D), NEW out \in D, Shape(dk[out]), NEW x
    PROVE  [dk EXCEPT ![out].tables = x]
             = Put(dk, D, out, Rec(dk[out].info, dk[out].tasks, x, dk[out].data, dk[out].video, dk[out].torn))
<1>1. PICK d : d = dk[out]
    OBVIOUS
<1>2. [d EXCEPT !.tables = x] = Rec(d.info, d.tasks, x, d.data, d.video, d.torn)
    BY <1>1 DEF Shape, Rec
<1>3. [dk EXCEPT ![out].tables = x] = [dk EXCEPT ![out] = [d EXCEPT !.tables = x]]
    BY <1>1 DEF OnDisk
<1> QED
    BY <1>1, <1>2, <1>3 DEF OnDisk, Put

LEMMA PutTasks ==
    ASSUME NEW D, NEW dk, OnDisk(dk, D), NEW out \in D, Shape(dk[out]), NEW x
    PROVE  [dk EXCEPT ![out].tasks = x]
             = Put(dk, D, out, Rec(dk[out].info, x, dk[out].tables, dk[out].data, dk[out].video, dk[out].torn))
<1>1. PICK d : d = dk[out]
    OBVIOUS
<1>2. [d EXCEPT !.tasks = x] = Rec(d.info, x, d.tables, d.data, d.video, d.torn)
    BY <1>1 DEF Shape, Rec
<1>3. [dk EXCEPT ![out].tasks = x] = [dk EXCEPT ![out] = [d EXCEPT !.tasks = x]]
    BY <1>1 DEF OnDisk
<1> QED
    BY <1>1, <1>2, <1>3 DEF OnDisk, Put

LEMMA PutInfo ==
    ASSUME NEW D, NEW dk, OnDisk(dk, D), NEW out \in D, Shape(dk[out]), NEW x
    PROVE  [dk EXCEPT ![out].info = x]
             = Put(dk, D, out, Rec(x, dk[out].tasks, dk[out].tables, dk[out].data, dk[out].video, dk[out].torn))
<1>1. PICK d : d = dk[out]
    OBVIOUS
<1>2. [d EXCEPT !.info = x] = Rec(x, d.tasks, d.tables, d.data, d.video, d.torn)
    BY <1>1 DEF Shape, Rec
<1>3. [dk EXCEPT ![out].info = x] = [dk EXCEPT ![out] = [d EXCEPT !.info = x]]
    BY <1>1 DEF OnDisk
<1> QED
    BY <1>1, <1>2, <1>3 DEF OnDisk, Put

LEMMA Shaped ==
    ASSUME NEW info, NEW tasks, NEW tables, NEW data, NEW video, NEW torn
    PROVE  /\ Shape(Rec(info, tasks, tables, data, video, torn))
           /\ Rec(info, tasks, tables, data, video, torn).info = info
           /\ Rec(info, tasks, tables, data, video, torn).tasks = tasks
           /\ Rec(info, tasks, tables, data, video, torn).tables = tables
           /\ Rec(info, tasks, tables, data, video, torn).data = data
           /\ Rec(info, tasks, tables, data, video, torn).video = video
           /\ Rec(info, tasks, tables, data, video, torn).torn = torn
BY DEF Shape, Rec

(* The last steps of write_dataset.                                         *)
Finished(dk, out, tables, tasks, info) ==
    [dk EXCEPT ![out].tables = tables, ![out].tasks = tasks, ![out].info = info]

LEMMA PutAll ==
    ASSUME NEW D, NEW dk, OnDisk(dk, D), NEW out \in D, Shape(dk[out]), NEW tables, NEW tasks, NEW info
    PROVE  Finished(dk, out, tables, tasks, info)
             = Put(dk, D, out, Rec(info, tasks, tables, dk[out].data, dk[out].video, dk[out].torn))
<1>1. PICK d : d = dk[out]
    OBVIOUS
<1>2. PICK r1, r2, r3 : /\ r1 = Rec(d.info, d.tasks, tables, d.data, d.video, d.torn)
                        /\ r2 = Rec(d.info, tasks, tables, d.data, d.video, d.torn)
                        /\ r3 = Rec(info, tasks, tables, d.data, d.video, d.torn)
    OBVIOUS
<1>3. PICK d1 : d1 = Put(dk, D, out, r1)
    OBVIOUS
<1>4. PICK d2 : d2 = Put(dk, D, out, r2)
    OBVIOUS
<1>5. [dk EXCEPT ![out].tables = tables] = d1
    BY <1>1, <1>2, <1>3, PutTables
<1>6. [d1 EXCEPT ![out].tasks = tasks] = d2
    <2>1. OnDisk(d1, D) /\ d1[out] = r1
        BY <1>3, PutIn DEF Outside
    <2>2. /\ Shape(r1) /\ r1.info = d.info /\ r1.tables = tables /\ r1.data = d.data
          /\ r1.video = d.video /\ r1.torn = d.torn
        BY <1>2, Shaped
    <2>3. [d1 EXCEPT ![out].tasks = tasks] = Put(d1, D, out, r2)
        BY <1>2, <2>1, <2>2, PutTasks
    <2> QED
        BY <1>3, <1>4, <2>3, PutTwice
<1>7. [d2 EXCEPT ![out].info = info] = Put(dk, D, out, r3)
    <2>1. OnDisk(d2, D) /\ d2[out] = r2
        BY <1>4, PutIn DEF Outside
    <2>2. /\ Shape(r2) /\ r2.tasks = tasks /\ r2.tables = tables /\ r2.data = d.data
          /\ r2.video = d.video /\ r2.torn = d.torn
        BY <1>2, Shaped
    <2>3. [d2 EXCEPT ![out].info = info] = Put(d2, D, out, r3)
        BY <1>2, <2>1, <2>2, PutInfo
    <2> QED
        BY <1>4, <2>3, PutTwice
<1>8. Finished(dk, out, tables, tasks, info)
        = [[[dk EXCEPT ![out].tables = tables] EXCEPT ![out].tasks = tasks] EXCEPT ![out].info = info]
    BY DEF Finished
<1> QED
    BY <1>1, <1>2, <1>5, <1>6, <1>7, <1>8

FillFold(out, dk, c) == Copied(dk, out, c[1], c[2])
Filling == INSTANCE FoldProofs WITH Step <- FillFold

FillTrace(g, dk, out, copies, n) ==
    /\ DOMAIN g = 0 .. n /\ g[0] = dk
    /\ \A i \in 1 .. n : g[i] = Copied(g[i - 1], out, copies[i][1], copies[i][2])
    /\ Filled(dk, out, copies) = g[n]

LEMMA FilledTraced ==
    ASSUME NEW dk, NEW out, NEW copies, NEW n \in Nat, DOMAIN copies = 1 .. n
    PROVE  \E g : FillTrace(g, dk, out, copies, n)
<1>1. Filled(dk, out, copies) = Filling!Fold(out, dk, copies)
    BY DEF Filled, FillFold, FoldLeft, MapThenFoldSet, Max,
           Filling!Fold, Filling!Latest
<1>2. PICK g : Filling!Traces(out, dk, copies, n, g) /\ Filling!Fold(out, dk, copies) = g[n]
    BY Upward, Filling!FoldIsTraced DEF Filling!Induction
<1> QED
    BY <1>1, <1>2 DEF FillFold, Filling!Traces, FillTrace

AsBefore(new, d) == new.info = d.info /\ new.tasks = d.tasks /\ new.tables = d.tables /\ new.torn = d.torn

LEMMA CopyTyped ==
    ASSUME NEW d, IsDataset(d), NEW source, IsDataset(source), NEW from,
           NEW e, e.file \in Nat \X Nat, e.episode \in Int
    PROVE  IsDataset(CopyOf(d, source, from, e)) /\ AsBefore(CopyOf(d, source, from, e), d)
<1>1. PICK name \in Nat \X Nat, x \in Int : name = e.file /\ x = e.episode
    OBVIOUS
<1>2. PICK f : f = from.file
    OBVIOUS
<1>3. PICK data, video :
        /\ data = IF f \notin DOMAIN source.data THEN d.data
                  ELSE With(d.data, name, Relabelled(source.data[f], x))
        /\ video = IF f \notin DOMAIN source.video THEN d.video
                   ELSE With(d.video, name, source.video[f])
    OBVIOUS
<1>4. PICK c : c = CopyOf(d, source, from, e)
    OBVIOUS
<1>5. c = [info |-> d.info, tasks |-> d.tasks, tables |-> d.tables, data |-> data, video |-> video, torn |-> d.torn]
    BY <1>1, <1>2, <1>3, <1>4 DEF CopyOf
<1>6. AreFiles(data) /\ \A g \in DOMAIN data : data[g] \in FileType
    <2>1. CASE f \notin DOMAIN source.data
        BY <1>3, <2>1 DEF IsDataset
    <2>2. CASE f \in DOMAIN source.data
        <3>1. PICK file \in FileType : file = Relabelled(source.data[f], x)
            <4>1. source.data[f] \in FileType
                BY <2>2 DEF IsDataset
            <4> QED
                BY <4>1, RelabelledTyped
        <3>2. AreFiles(d.data) /\ \A g \in DOMAIN d.data : d.data[g] \in FileType
            BY DEF IsDataset
        <3>3. PICK fs : fs = d.data
            OBVIOUS
        <3>4. data = With(fs, name, file)
            BY <1>3, <2>2, <3>1, <3>3
        <3>5. AreFiles(fs)
            BY <3>2, <3>3
        <3>6. AreFiles(With(fs, name, file)) /\ Held(With(fs, name, file), fs, name, file)
            BY <1>1, <3>5, WithFiles
        <3> QED
            BY <3>2, <3>3, <3>4, <3>6 DEF Held
    <2> QED
        BY <2>1, <2>2
<1>7. AreFiles(video)
    <2>1. AreFiles(d.video)
        BY DEF IsDataset
    <2> QED
        BY <1>3, <2>1, WithFiles
<1>8. /\ c.info = d.info /\ c.tasks = d.tasks /\ c.tables = d.tables /\ c.data = data
      /\ c.video = video /\ c.torn = d.torn
      /\ c = [info |-> c.info, tasks |-> c.tasks, tables |-> c.tables, data |-> c.data,
              video |-> c.video, torn |-> c.torn]
    BY <1>5
<1>9. IsDataset(c)
    BY <1>6, <1>7, <1>8 DEF IsDataset
<1> QED
    BY <1>4, <1>8, <1>9 DEF AsBefore

CopiesFrom(copies, n, R) ==
    /\ DOMAIN copies = 1 .. n
    /\ \A k \in 1 .. n : copies[k][1].root \in R /\ copies[k][2].file \in Nat \X Nat
                         /\ copies[k][2].episode \in Int

LEMMA OneCopied ==
    ASSUME NEW D, NEW dk, OnDisk(dk, D), NEW out \in D, IsDataset(dk[out]),
           NEW from, from.root \in D, IsDataset(dk[from.root]),
           NEW e, e.file \in Nat \X Nat, e.episode \in Int
    PROVE  /\ Outside(Copied(dk, out, from, e), dk, out, D)
           /\ Copied(dk, out, from, e)[out] = CopyOf(dk[out], dk[from.root], from, e)
           /\ IsDataset(Copied(dk, out, from, e)[out])
           /\ AsBefore(Copied(dk, out, from, e)[out], dk[out])
<1>1. PICK c : c = CopyOf(dk[out], dk[from.root], from, e)
    OBVIOUS
<1>2. Shape(dk[out])
    BY DEF IsDataset, Shape
<1>3. PICK new : new = Copied(dk, out, from, e)
    OBVIOUS
<1>4. new = [m \in D |-> IF m = out THEN c ELSE dk[m]]
    BY <1>1, <1>2, <1>3, CopiedShape
<1>5. new = [m \in D |-> new[m]] /\ new[out] = c /\ \A m \in D : m # out => new[m] = dk[m]
    BY <1>4
<1>6. IsDataset(c) /\ AsBefore(c, dk[out])
    BY <1>1, CopyTyped
<1> QED
    BY <1>1, <1>3, <1>5, <1>6 DEF Outside, OnDisk

Kind(dk, was, out, D) == Outside(dk, was, out, D) /\ IsDataset(dk[out]) /\ AsBefore(dk[out], was[out])

LEMMA FilledTyped ==
    ASSUME NEW D, NEW dk, OnDisk(dk, D), NEW out \in D, IsDataset(dk[out]),
           NEW R, R \subseteq D, \A m \in R : IsDataset(dk[m]),
           NEW n \in Nat, NEW copies, CopiesFrom(copies, n, R)
    PROVE  Kind(Filled(dk, out, copies), dk, out, D)
<1>1. PICK g : FillTrace(g, dk, out, copies, n)
    BY FilledTraced DEF CopiesFrom
<1>2. PICK S : S = {i \in 0 .. n : Kind(g[i], dk, out, D)}
    OBVIOUS
<1>3. 0 \in S
    BY <1>1, <1>2 DEF FillTrace, Kind, Outside, AsBefore
<1>4. ASSUME NEW i \in 0 .. n - 1, i \in S PROVE i + 1 \in S
    <2>1. PICK k \in 1 .. n : k = i + 1 /\ k - 1 = i
        OBVIOUS
    <2>2. PICK from, e : from = copies[k][1] /\ e = copies[k][2]
        OBVIOUS
    <2>3. from.root \in R /\ e.file \in Nat \X Nat /\ e.episode \in Int
        BY <2>2 DEF CopiesFrom
    <2>4. PICK a : a = g[i]
        OBVIOUS
    <2>5. Kind(a, dk, out, D)
        BY <1>2, <1>4, <2>4
    <2>6. IsDataset(a[from.root]) /\ from.root \in D
        <3>1. from.root # out => a[from.root] = dk[from.root]
            BY <2>3, <2>5 DEF Kind, Outside
        <3> QED
            BY <2>3, <2>5, <3>1 DEF Kind
    <2>7. PICK b : b = Copied(a, out, from, e)
        OBVIOUS
    <2>8. Outside(b, a, out, D) /\ IsDataset(b[out]) /\ AsBefore(b[out], a[out])
        BY <2>3, <2>5, <2>6, <2>7, OneCopied DEF Kind, Outside
    <2>9. Kind(b, dk, out, D)
        BY <2>5, <2>8 DEF Kind, Outside, AsBefore
    <2>10. g[k] = b
        BY <1>1, <2>1, <2>2, <2>4, <2>7 DEF FillTrace
    <2> QED
        BY <1>2, <2>1, <2>9, <2>10
<1>5. n \in S
    BY <1>3, <1>4, UpTo
<1> QED
    BY <1>1, <1>2, <1>5 DEF FillTrace

Made(dk, out) == IF dk[out] = Absent THEN [dk EXCEPT ![out] = Empty] ELSE dk
CopiesOf(map, eps) == [k \in DOMAIN map |-> <<map[k], eps[k]>>]
Fill(dk, out, map, eps) == Filled(Made(dk, out), out, CopiesOf(map, eps))
TotalOf(eps) == Total([k \in DOMAIN eps |-> eps[k].length])
NewInfo(info, eps) == [info EXCEPT !.episodes = Len(eps), !.frames = TotalOf(eps)]

LEMMA EmptyTyped == IsDataset(Empty)
<1>1. AreFiles(NoFiles) /\ DOMAIN NoFiles = {}
    <2>1. IsFiniteSet({})
        BY FS_EmptySet
    <2>2. DOMAIN NoFiles = {} /\ NoFiles = [f \in DOMAIN NoFiles |-> NoFiles[f]]
        BY DEF NoFiles
    <2> QED
        BY <2>1, <2>2 DEF AreFiles
<1>2. /\ Empty.info = [fps |-> 0, episodes |-> 0, frames |-> 0, video |-> FALSE]
      /\ Empty.tasks = <<>> /\ Empty.tables = NoFiles /\ Empty.data = NoFiles /\ Empty.video = NoFiles
      /\ Empty = [info |-> Empty.info, tasks |-> Empty.tasks, tables |-> Empty.tables, data |-> Empty.data,
                  video |-> Empty.video, torn |-> Empty.torn]
    BY DEF Empty
<1>3. Empty.info \in InfoType
    BY <1>2 DEF InfoType
<1>4. Empty.tasks \in Seq(TaskType)
    BY <1>2
<1> QED
    BY <1>1, <1>2, <1>3, <1>4 DEF IsDataset

LEMMA MadeTyped ==
    ASSUME NEW D, NEW dk, OnDisk(dk, D), NEW out \in D, dk[out] = Absent \/ IsDataset(dk[out])
    PROVE  /\ Outside(Made(dk, out), dk, out, D) /\ IsDataset(Made(dk, out)[out])
           /\ dk[out] = Absent => Made(dk, out)[out] = Empty
           /\ dk[out] # Absent => Made(dk, out) = dk
<1>1. CASE dk[out] = Absent
    <2>1. PICK new : new = [dk EXCEPT ![out] = Empty]
        OBVIOUS
    <2>2. OnDisk(new, D) /\ new[out] = Empty /\ \A m \in D : m # out => new[m] = dk[m]
        BY <2>1 DEF OnDisk
    <2>3. Made(dk, out) = new
        BY <1>1, <2>1 DEF Made
    <2> QED
        BY <1>1, <2>2, <2>3, EmptyTyped DEF Outside
<1>2. CASE dk[out] # Absent
    BY <1>2 DEF Made, Outside
<1> QED
    BY <1>1, <1>2

LEMMA LengthsTotal ==
    ASSUME NEW eps \in Seq(EpisodeType)
    PROVE  TotalOf(eps) \in Int
<1>1. PICK n \in Nat : n = Len(eps) /\ DOMAIN eps = 1 .. n
    OBVIOUS
<1>2. \A k \in 1 .. n : eps[k].length \in Int
    <2>1. \A k \in 1 .. n : eps[k] \in EpisodeType
        BY <1>1
    <2> QED
        BY <2>1 DEF EpisodeType
<1>3. PICK s \in [1 .. n -> Int] : s = [k \in DOMAIN eps |-> eps[k].length]
    BY <1>1, <1>2
<1> QED
    BY <1>1, <1>3, TotalTyped DEF TotalOf

LEMMA NewInfoTyped ==
    ASSUME NEW eps \in Seq(EpisodeType), NEW info \in InfoType
    PROVE  /\ NewInfo(info, eps) \in InfoType /\ NewInfo(info, eps).episodes = Len(eps)
           /\ NewInfo(info, eps).frames = TotalOf(eps) /\ NewInfo(info, eps).video = info.video
<1>1. PICK n \in Int : n = Len(eps)
    OBVIOUS
<1>2. PICK t \in Int : t = TotalOf(eps)
    BY LengthsTotal
<1>3. info = [fps |-> info.fps, episodes |-> info.episodes, frames |-> info.frames, video |-> info.video]
      /\ info.fps \in Int /\ info.video \in BOOLEAN
    BY DEF InfoType
<1>4. NewInfo(info, eps) = [fps |-> info.fps, episodes |-> n, frames |-> t, video |-> info.video]
    <2>1. NewInfo(info, eps) = [info EXCEPT !.episodes = n, !.frames = t]
        BY <1>1, <1>2 DEF NewInfo
    <2>2. [info EXCEPT !.episodes = n] = [fps |-> info.fps, episodes |-> n, frames |-> info.frames, video |-> info.video]
        BY <1>3
    <2> QED
        BY <1>3, <2>1, <2>2
<1> QED
    BY <1>1, <1>2, <1>3, <1>4 DEF InfoType

(* A directory to write, and those to read.                                 *)
Job(dk, D, out, R) ==
    /\ OnDisk(dk, D)
    /\ dk[out] = Absent \/ IsDataset(dk[out])
    /\ R \subseteq D /\ \A m \in R : dk[m] # Absent /\ IsDataset(dk[m])

(* What write_dataset leaves.                                               *)
NewDataset(F, out, info, eps, tasks) ==
    Rec(NewInfo(info, eps), tasks, With(F[out].tables, <<0, 0>>, eps), F[out].data, F[out].video, F[out].torn)

LEMMA WrittenShape ==
    ASSUME NEW D, NEW dk, NEW out \in D, NEW R, Job(dk, D, out, R),
           NEW n \in Nat, NEW map, NEW eps \in Seq(EpisodeType), CopiesFrom(CopiesOf(map, eps), n, R),
           NEW info, NEW tasks
    PROVE  /\ Kind(Fill(dk, out, map, eps), Made(dk, out), out, D)
           /\ Outside(Written(dk, out, info, eps, tasks, map), dk, out, D)
           /\ Written(dk, out, info, eps, tasks, map)[out] = NewDataset(Fill(dk, out, map, eps), out, info, eps, tasks)
<1>1. PICK made : made = Made(dk, out)
    OBVIOUS
<1>2. Outside(made, dk, out, D) /\ IsDataset(made[out]) /\ (dk[out] # Absent => made = dk)
    <2>1. OnDisk(dk, D) /\ (dk[out] = Absent \/ IsDataset(dk[out]))
        BY DEF Job
    <2>2. /\ Outside(Made(dk, out), dk, out, D) /\ IsDataset(Made(dk, out)[out])
          /\ dk[out] # Absent => Made(dk, out) = dk
        BY <2>1, MadeTyped
    <2> QED
        BY <1>1, <2>2
<1>3. \A m \in R : IsDataset(made[m])
    BY <1>2 DEF Outside, Job
<1>4. PICK F : F = Fill(dk, out, map, eps)
    OBVIOUS
<1>5. Kind(F, made, out, D)
    <2>1. OnDisk(made, D) /\ R \subseteq D
        BY <1>2 DEF Outside, Job
    <2> QED
        BY <1>1, <1>2, <1>3, <1>4, <2>1, FilledTyped DEF Fill
<1>6. PICK tables, new : tables = With(F[out].tables, <<0, 0>>, eps) /\ new = NewInfo(info, eps)
    OBVIOUS
<1>7. Written(dk, out, info, eps, tasks, map)
        = [F EXCEPT ![out].tables = tables, ![out].tasks = tasks, ![out].info = new]
    <2>1. OnDisk(F, D)
        BY <1>5 DEF Kind, Outside
    <2> QED
        BY <1>4, <1>6, <2>1 DEF Written, Fill, Made, CopiesOf, NewInfo, TotalOf, OnDisk
<1>8. PICK r : r = Rec(new, tasks, tables, F[out].data, F[out].video, F[out].torn)
    OBVIOUS
<1>9. Written(dk, out, info, eps, tasks, map) = Put(F, D, out, r)
    <2>1. OnDisk(F, D) /\ Shape(F[out])
        BY <1>5 DEF Kind, Outside, IsDataset, Shape
    <2>2. Finished(F, out, tables, tasks, new)
            = Put(F, D, out, Rec(new, tasks, tables, F[out].data, F[out].video, F[out].torn))
        BY <2>1, PutAll
    <2> QED
        BY <1>7, <1>8, <2>2 DEF Finished
<1>10. PICK w : w = Put(F, D, out, r)
    OBVIOUS
<1>11. OnDisk(w, D) /\ w[out] = r /\ \A m \in D : m # out => w[m] = F[m]
    <2>1. Outside(Put(F, D, out, r), F, out, D) /\ Put(F, D, out, r)[out] = r
        BY PutIn
    <2> QED
        BY <1>10, <2>1 DEF Outside
<1>12. Outside(w, dk, out, D)
    BY <1>2, <1>5, <1>11 DEF Outside, Kind
<1>13. r = NewDataset(F, out, info, eps, tasks)
    BY <1>6, <1>8 DEF NewDataset
<1> QED
    BY <1>1, <1>4, <1>5, <1>9, <1>10, <1>11, <1>12, <1>13

LEMMA WrittenTyped ==
    ASSUME NEW D, NEW dk, NEW out \in D, NEW R, Job(dk, D, out, R),
           NEW n \in Nat, NEW map, NEW eps \in Seq(EpisodeType), CopiesFrom(CopiesOf(map, eps), n, R),
           NEW info \in InfoType, NEW tasks \in Seq(TaskType)
    PROVE  /\ Outside(Written(dk, out, info, eps, tasks, map), dk, out, D)
           /\ IsDataset(Written(dk, out, info, eps, tasks, map)[out])
<1>1. PICK F : F = Fill(dk, out, map, eps)
    OBVIOUS
<1>2. PICK w : w = Written(dk, out, info, eps, tasks, map)
    OBVIOUS
<1>3. /\ Kind(F, Made(dk, out), out, D) /\ Outside(w, dk, out, D)
      /\ w[out] = NewDataset(F, out, info, eps, tasks)
    BY <1>1, <1>2, WrittenShape
<1>4. IsDataset(F[out])
    BY <1>3 DEF Kind
<1>5. PICK fs : fs = F[out].tables
    OBVIOUS
<1>6. PICK name \in Nat \X Nat : name = <<0, 0>>
    OBVIOUS
<1>7. PICK tables : tables = With(fs, name, eps)
    OBVIOUS
<1>8. AreFiles(fs) /\ \A f \in DOMAIN fs : fs[f] \in Seq(EpisodeType)
    BY <1>4, <1>5 DEF IsDataset
<1>9. AreFiles(tables) /\ DOMAIN tables = DOMAIN fs \cup {name} /\ tables[name] = eps
      /\ \A f \in DOMAIN fs : f # name => tables[f] = fs[f]
    <2>1. AreFiles(With(fs, name, eps)) /\ Held(With(fs, name, eps), fs, name, eps)
        BY <1>6, <1>8, WithFiles
    <2> QED
        BY <1>7, <2>1 DEF Held
<1>10. AreFiles(tables) /\ \A f \in DOMAIN tables : tables[f] \in Seq(EpisodeType)
    BY <1>8, <1>9
<1>11. PICK new : new = NewInfo(info, eps) /\ new \in InfoType
    BY NewInfoTyped
<1>12. PICK r : r = Rec(new, tasks, tables, F[out].data, F[out].video, F[out].torn)
    OBVIOUS
<1>13. w[out] = r
    BY <1>3, <1>5, <1>6, <1>7, <1>11, <1>12 DEF NewDataset
<1>14. /\ Shape(r) /\ r.info = new /\ r.tasks = tasks /\ r.tables = tables /\ r.data = F[out].data
       /\ r.video = F[out].video /\ r.torn = F[out].torn
    BY <1>12, Shaped
<1>15. IsDataset(r)
    BY <1>4, <1>10, <1>11, <1>14 DEF IsDataset, Shape
<1> QED
    BY <1>2, <1>3, <1>13, <1>15

----------------------------------------------------------------------------
(* WHERE THE EPISODES OF AN EDIT COME FROM.                                 *)

(* Where the episodes of an edit come from: sources, and what is kept of    *)
(* each.                                                                    *)
Roots(roots, all, m) ==
    /\ DOMAIN roots = 1 .. m /\ DOMAIN all = 1 .. m
    /\ \A i \in 1 .. m : all[i] \in Seq(EpisodeType)

Origins(map, old, n, roots, all, m) ==
    /\ DOMAIN map = 1 .. n /\ old \in Seq(EpisodeType) /\ Len(old) = n
    /\ \A k \in 1 .. n : \E i \in 1 .. m : /\ map[k].root = roots[i] /\ map[k].file = old[k].file
                                           /\ \E j \in 1 .. Len(all[i]) : old[k] = all[i][j]

Mapped(roots, originals) ==
    [i \in DOMAIN roots |->
       [k \in DOMAIN originals[i] |-> [root |-> roots[i], file |-> originals[i][k].file]]]

LEMMA LengthyLists ==
    ASSUME NEW m \in Nat, NEW roots, NEW all, Roots(roots, all, m)
    PROVE  \E l : Lengthy(all, m, l) /\ Lengthy(Mapped(roots, all), m, l)
<1>1. \A i \in 1 .. m : all[i] \in Seq(EpisodeType) /\ Len(all[i]) \in Nat /\ DOMAIN all[i] = 1 .. Len(all[i])
    BY DEF Roots
<1>2. PICK l : l = [i \in 1 .. m |-> Len(all[i])]
    OBVIOUS
<1>3. l \in [1 .. m -> Nat] /\ \A i \in 1 .. m : l[i] = Len(all[i])
    BY <1>1, <1>2
<1>4. PICK tt : tt = Mapped(roots, all)
    OBVIOUS
<1>5. DOMAIN tt = 1 .. m
    BY <1>4 DEF Roots, Mapped
<1>6. ASSUME NEW i \in 1 .. m
      PROVE  tt[i] \in Seq(Range(tt[i])) /\ Len(tt[i]) = l[i] /\ DOMAIN tt[i] = 1 .. l[i]
    <2>1. PICK a : a = all[i]
        OBVIOUS
    <2>2. PICK x : x = [k \in DOMAIN a |-> [root |-> roots[i], file |-> a[k].file]]
        OBVIOUS
    <2>3. tt[i] = x
        BY <1>4, <2>1, <2>2 DEF Mapped, Roots
    <2>4. PICK z \in Nat : z = l[i] /\ DOMAIN a = 1 .. z
        BY <1>1, <1>3, <2>1
    <2>5. DOMAIN x = 1 .. z /\ x = [k \in 1 .. z |-> x[k]] /\ \A k \in 1 .. z : x[k] \in Range(x)
        BY <2>2, <2>4 DEF Range
    <2>6. x \in Seq(Range(x)) /\ Len(x) = z
        BY <2>5
    <2> QED
        BY <2>3, <2>4, <2>5, <2>6
<1>7. ASSUME NEW i \in 1 .. m
      PROVE  all[i] \in Seq(Range(all[i])) /\ Len(all[i]) = l[i] /\ DOMAIN all[i] = 1 .. l[i]
    <2>1. PICK a \in Seq(EpisodeType) : a = all[i]
        BY <1>1
    <2>2. \A k \in DOMAIN a : a[k] \in Range(a)
        BY DEF Range
    <2>3. a \in Seq(Range(a))
        BY <2>1, <2>2, InSeq
    <2> QED
        BY <1>1, <1>3, <2>1, <2>3
<1>8. Lengthy(all, m, l)
    BY <1>3, <1>7 DEF Lengthy, Roots
<1>9. Lengthy(tt, m, l)
    BY <1>3, <1>5, <1>6 DEF Lengthy
<1> QED
    BY <1>4, <1>8, <1>9

LEMMA MapExact ==
    ASSUME NEW m \in Nat, NEW roots, NEW all, Roots(roots, all, m)
    PROVE  \E n \in Nat : Origins(SourceMap(roots, all), Concat(all), n, roots, all, m)
<1>1. PICK l : Lengthy(all, m, l) /\ Lengthy(Mapped(roots, all), m, l)
    BY LengthyLists
<1>2. PICK tt : tt = Mapped(roots, all)
    OBVIOUS
<1>3. PICK old : old = Concat(all)
    OBVIOUS
<1>4. PICK map : map = SourceMap(roots, all)
    OBVIOUS
<1>5. map = Concat(tt)
    BY <1>2, <1>4 DEF SourceMap, Mapped
<1>6. old \in Seq(EpisodeType)
    <2>1. DOMAIN all = 1 .. m /\ \A i \in 1 .. m : all[i] \in Seq(EpisodeType)
        BY DEF Roots
    <2> QED
        BY <1>3, <2>1, ConcatTyped
<1>7. PICK n \in Nat : n = Len(old) /\ DOMAIN old = 1 .. n
    BY <1>6
<1>8. Lengthy(tt, m, l)
    BY <1>1, <1>2
<1>9. /\ DOMAIN Concat(tt) = DOMAIN Concat(all)
      /\ \A k \in DOMAIN Concat(all) : \E p \in Cells(l, m) : /\ Concat(all)[k] = all[p[1]][p[2]]
                                                              /\ Concat(tt)[k] = tt[p[1]][p[2]]
    BY <1>1, <1>8, ConcatTogether
<1>10. DOMAIN map = 1 .. n
    BY <1>3, <1>5, <1>7, <1>9
<1>11. ASSUME NEW k \in 1 .. n
       PROVE  \E i \in 1 .. m : /\ map[k].root = roots[i] /\ map[k].file = old[k].file
                                /\ \E j \in 1 .. Len(all[i]) : old[k] = all[i][j]
    <2>1. PICK p \in Cells(l, m) : old[k] = all[p[1]][p[2]] /\ map[k] = tt[p[1]][p[2]]
        BY <1>3, <1>5, <1>7, <1>9
    <2>2. PICK i \in 1 .. m, j \in Nat : i = p[1] /\ j = p[2] /\ 1 <= j /\ j <= l[i]
        BY <2>1 DEF Cells
    <2>3. l[i] \in Nat /\ DOMAIN all[i] = 1 .. l[i] /\ Len(all[i]) = l[i]
        BY <1>1, <2>2 DEF Lengthy
    <2>4. j \in 1 .. l[i]
        BY <2>2, <2>3
    <2>5. PICK a : a = all[i]
        OBVIOUS
    <2>6. PICK x : x = [q \in DOMAIN a |-> [root |-> roots[i], file |-> a[q].file]]
        OBVIOUS
    <2>7. tt[i] = x
        BY <1>2, <2>2, <2>5, <2>6 DEF Mapped, Roots
    <2>8. x[j].root = roots[i] /\ x[j].file = a[j].file
        BY <2>3, <2>4, <2>5, <2>6
    <2>9. map[k] = x[j] /\ old[k] = a[j]
        BY <2>1, <2>2, <2>5, <2>7
    <2>10. \E q \in 1 .. Len(all[i]) : old[k] = all[i][q]
        BY <2>3, <2>4, <2>5, <2>9
    <2> QED
        BY <2>2, <2>8, <2>9, <2>10
<1>12. Origins(map, old, n, roots, all, m)
    BY <1>6, <1>7, <1>10, <1>11 DEF Origins
<1> QED
    BY <1>3, <1>4, <1>12

LEMMA CopiesMade ==
    ASSUME NEW n \in Nat, NEW old, NEW map, NEW m, NEW roots, NEW all, Origins(map, old, n, roots, all, m),
           NEW R, \A i \in 1 .. m : roots[i] \in R
    PROVE  Reindexed(old) \in Seq(EpisodeType) /\ CopiesFrom(CopiesOf(map, Reindexed(old)), n, R)
<1>1. PICK eps : eps = Reindexed(old)
    OBVIOUS
<1>2. AreReindexed(eps, old, n)
    BY <1>1, ReindexedExact DEF Origins
<1>3. eps \in Seq(EpisodeType) /\ Len(eps) = n /\ DOMAIN eps = 1 .. n
    BY <1>2 DEF AreReindexed
<1>4. PICK cs : cs = CopiesOf(map, eps)
    OBVIOUS
<1>5. DOMAIN cs = 1 .. n /\ \A k \in 1 .. n : cs[k][1] = map[k] /\ cs[k][2] = eps[k]
    BY <1>4 DEF CopiesOf, Origins
<1>6. \A k \in 1 .. n : map[k].root \in R
    BY DEF Origins
<1>7. ASSUME NEW k \in 1 .. n PROVE eps[k].file \in Nat \X Nat /\ eps[k].episode \in Int
    <2>1. eps[k] \in EpisodeType
        BY <1>3
    <2> QED
        BY <2>1 DEF EpisodeType
<1>8. CopiesFrom(cs, n, R)
    BY <1>5, <1>6, <1>7 DEF CopiesFrom
<1> QED
    BY <1>1, <1>3, <1>4, <1>8, Zenon

(* What an edit writes.                                                     *)
Result(dk, out, info, tasks, roots, all) ==
    Written(dk, out, info, Reindexed(Concat(all)), tasks, SourceMap(roots, all))

RootSet(roots, m) == {roots[i] : i \in 1 .. m}

LEMMA ResultTyped ==
    ASSUME NEW D, NEW dk, NEW out \in D, NEW m \in Nat, NEW roots, NEW all, Roots(roots, all, m),
           Job(dk, D, out, RootSet(roots, m)), NEW info \in InfoType, NEW tasks \in Seq(TaskType)
    PROVE  /\ Outside(Result(dk, out, info, tasks, roots, all), dk, out, D)
           /\ IsDataset(Result(dk, out, info, tasks, roots, all)[out])
<1>1. PICK R : R = RootSet(roots, m)
    OBVIOUS
<1>2. PICK n \in Nat : Origins(SourceMap(roots, all), Concat(all), n, roots, all, m)
    BY MapExact
<1>3. PICK old, map : old = Concat(all) /\ map = SourceMap(roots, all)
    OBVIOUS
<1>4. Origins(map, old, n, roots, all, m)
    BY <1>2, <1>3
<1>5. \A i \in 1 .. m : roots[i] \in R
    BY <1>1 DEF RootSet
<1>6. Reindexed(old) \in Seq(EpisodeType) /\ CopiesFrom(CopiesOf(map, Reindexed(old)), n, R)
    BY <1>2, <1>4, <1>5, CopiesMade
<1>7. PICK eps \in Seq(EpisodeType) : eps = Reindexed(old)
    BY <1>6
<1>8. Job(dk, D, out, R) /\ CopiesFrom(CopiesOf(map, eps), n, R)
    BY <1>1, <1>6, <1>7
<1>9. /\ Outside(Written(dk, out, info, eps, tasks, map), dk, out, D)
      /\ IsDataset(Written(dk, out, info, eps, tasks, map)[out])
    BY <1>2, <1>8, WrittenTyped
<1> QED
    BY <1>3, <1>7, <1>9 DEF Result

LEMMA EpisodesRead ==
    ASSUME NEW d, IsDataset(d)
    PROVE  /\ ReadEpisodes(d) \in Seq(EpisodeType) /\ Len(ReadEpisodes(d)) = Len(TableRows(d))
           /\ \A i \in DOMAIN ReadEpisodes(d) :
                \E k \in 1 .. Len(TableRows(d)) : ReadEpisodes(d)[i] = TableRows(d)[k]
<1>1. PICK eps : eps = TableRows(d)
    OBVIOUS
<1>2. eps \in Seq(EpisodeType)
    BY <1>1, TablesJoined
<1>3. PICK n \in Nat : n = Len(eps) /\ DOMAIN eps = 1 .. n
    BY <1>2
<1>4. PICK key : key = [k \in DOMAIN eps |-> eps[k].episode]
    OBVIOUS
<1>5. \A k \in 1 .. Len(eps) : key[k] \in Int
    <2>1. \A k \in 1 .. n : eps[k] \in EpisodeType
        BY <1>2, <1>3
    <2> QED
        BY <1>3, <1>4, <2>1 DEF EpisodeType
<1>6. /\ SortedBy(eps, key) \in Seq(EpisodeType) /\ Len(SortedBy(eps, key)) = Len(eps)
      /\ \A i \in DOMAIN SortedBy(eps, key) : \E k \in 1 .. Len(eps) : SortedBy(eps, key)[i] = eps[k]
    BY <1>2, <1>5, SortedTyped
<1>7. ReadEpisodes(d) = SortedBy(eps, key)
    BY <1>1, <1>4 DEF ReadEpisodes
<1> QED
    BY <1>1, <1>6, <1>7

LEMMA DedupedTyped == ASSUME NEW tasks \in Seq(TaskType) PROVE Deduped(tasks) \in Seq(TaskType)
<1>1. PICK K : K = {k \in DOMAIN tasks : \A i \in 1 .. k - 1 : tasks[i].index # tasks[k].index}
    OBVIOUS
<1>2. K \in SUBSET (1 .. Len(tasks))
    BY <1>1
<1>3. Kept(tasks, K) \in Seq(TaskType)
    BY <1>2, KeptTyped
<1> QED
    BY <1>1, <1>3 DEF Deduped

(* Delete and split.                                                        *)
LEMMA SelectIs ==
    ASSUME NEW dk, NEW n, NEW out, NEW kept \in Seq(EpisodeType)
    PROVE  Select(dk, n, out, kept) = Result(dk, out, dk[n].info, dk[n].tasks, <<n>>, <<kept>>)
<1>1. Concat(<<kept>>) = kept
    BY ConcatOfOne
<1> QED
    BY <1>1 DEF Select, Result

----------------------------------------------------------------------------
(* STAMPING.                                                                *)

(* Stamping changes two columns.                                            *)
TerminalsOf(d) == UNION {Terminals(d, x) : x \in LabelsOf(d)}
LastsOf(d) == {LastRow(d, x) : x \in LabelsOf(d)}
Place(f, r) == [file |-> f, row |-> r]

MarkedRow(row, t, l) == [row EXCEPT !.term = t, !.last = l]
MarkedFile(d, f) ==
    [stamped |-> TRUE,
     rows |-> [r \in DOMAIN d.data[f].rows |->
                 MarkedRow(d.data[f].rows[r], Place(f, r) \in TerminalsOf(d), Place(f, r) \in LastsOf(d))]]

SameRow(new, row) == /\ new.index = row.index /\ new.episode = row.episode /\ new.frame = row.frame
                     /\ new.task = row.task /\ new.of = row.of

LEMMA Membership == ASSUME NEW x, NEW S PROVE \E t \in BOOLEAN : t = (x \in S)
<1>1. CASE x \in S
    <2>1. TRUE = (x \in S)
        BY <1>1
    <2> QED
        BY <2>1
<1>2. CASE x \notin S
    <2>1. FALSE = (x \in S)
        BY <1>2
    <2> QED
        BY <2>1
<1> QED
    BY <1>1, <1>2

LEMMA MarkedRowTyped ==
    ASSUME NEW row \in RowType, NEW t \in BOOLEAN, NEW l \in BOOLEAN
    PROVE  /\ MarkedRow(row, t, l) \in RowType /\ SameRow(MarkedRow(row, t, l), row)
           /\ MarkedRow(row, t, l).term = t /\ MarkedRow(row, t, l).last = l
BY DEF RowType, MarkedRow, SameRow

Remarked(rows, old, f, d) ==
    /\ rows \in Seq(RowType) /\ Len(rows) = Len(old) /\ DOMAIN rows = DOMAIN old
    /\ \A r \in DOMAIN old : /\ SameRow(rows[r], old[r])
                             /\ rows[r].term <=> Place(f, r) \in TerminalsOf(d)
                             /\ rows[r].last <=> Place(f, r) \in LastsOf(d)

LEMMA MarkedFileTyped ==
    ASSUME NEW d, IsDataset(d), NEW f \in DOMAIN d.data
    PROVE  /\ MarkedFile(d, f) \in FileType /\ MarkedFile(d, f).stamped = TRUE
           /\ Remarked(MarkedFile(d, f).rows, d.data[f].rows, f, d)
<1>1. PICK old \in Seq(RowType) : old = d.data[f].rows
    BY DatasetFiles
<1>2. PICK n \in Nat : n = Len(old) /\ DOMAIN old = 1 .. n
    BY <1>1
<1>3. PICK T, L : T = TerminalsOf(d) /\ L = LastsOf(d)
    OBVIOUS
<1>4. PICK rows : rows = [r \in DOMAIN old |-> MarkedRow(old[r], Place(f, r) \in T, Place(f, r) \in L)]
    OBVIOUS
<1>5. MarkedFile(d, f) = [stamped |-> TRUE, rows |-> rows]
    BY <1>1, <1>3, <1>4 DEF MarkedFile
<1>6. ASSUME NEW r \in 1 .. n
      PROVE  /\ rows[r] \in RowType /\ SameRow(rows[r], old[r])
             /\ rows[r].term <=> Place(f, r) \in T
             /\ rows[r].last <=> Place(f, r) \in L
    <2>1. old[r] \in RowType
        BY <1>1, <1>2
    <2>2. PICK t \in BOOLEAN : t = (Place(f, r) \in T)
        BY Membership, Zenon
    <2>3. PICK l \in BOOLEAN : l = (Place(f, r) \in L)
        BY Membership, Zenon
    <2>4. rows[r] = MarkedRow(old[r], Place(f, r) \in T, Place(f, r) \in L)
        BY <1>2, <1>4
    <2>5. rows[r] = MarkedRow(old[r], t, l)
        BY <2>2, <2>3, <2>4, Zenon
    <2>6. /\ MarkedRow(old[r], t, l) \in RowType /\ SameRow(MarkedRow(old[r], t, l), old[r])
          /\ MarkedRow(old[r], t, l).term = t /\ MarkedRow(old[r], t, l).last = l
        BY <2>1, <2>2, <2>3, MarkedRowTyped
    <2> QED
        BY <2>2, <2>3, <2>5, <2>6, Zenon
<1>7. rows \in Seq(RowType) /\ Len(rows) = n /\ DOMAIN rows = 1 .. n
    BY <1>2, <1>4, <1>6
<1>8. Remarked(rows, old, f, d)
    <2>1. \A r \in DOMAIN old : /\ SameRow(rows[r], old[r])
                                /\ rows[r].term <=> Place(f, r) \in TerminalsOf(d)
                                /\ rows[r].last <=> Place(f, r) \in LastsOf(d)
        BY <1>2, <1>3, <1>6, Zenon
    <2>2. rows \in Seq(RowType) /\ Len(rows) = Len(old) /\ DOMAIN rows = DOMAIN old
        BY <1>2, <1>7
    <2> QED
        BY <2>1, <2>2, Zenon DEF Remarked
<1>9. MarkedFile(d, f) \in FileType
    BY <1>5, <1>7 DEF FileType
<1> QED
    BY <1>1, <1>5, <1>8, <1>9

StampedAs(new, d) ==
    /\ new = Rec(d.info, d.tasks, d.tables, new.data, d.video, d.torn)
    /\ AreFiles(new.data) /\ DOMAIN new.data = DOMAIN d.data
    /\ \A f \in DOMAIN d.data : /\ new.data[f] \in FileType /\ new.data[f].stamped = TRUE
                                /\ Remarked(new.data[f].rows, d.data[f].rows, f, d)

LEMMA StampExact ==
    ASSUME NEW d, IsDataset(d)
    PROVE  IsDataset(StampDatasetCycles(d)) /\ StampedAs(StampDatasetCycles(d), d)
<1>1. PICK data : data = [f \in DOMAIN d.data |-> MarkedFile(d, f)]
    OBVIOUS
<1>2. PICK new : new = [d EXCEPT !.data = data]
    OBVIOUS
<1>3. new = StampDatasetCycles(d)
    BY <1>1, <1>2 DEF StampDatasetCycles, MarkedFile, MarkedRow, TerminalsOf, LastsOf, Place
<1>4. new = Rec(d.info, d.tasks, d.tables, data, d.video, d.torn)
    BY <1>2 DEF Rec, IsDataset
<1>5. /\ new.info = d.info /\ new.tasks = d.tasks /\ new.tables = d.tables /\ new.data = data
      /\ new.video = d.video /\ new.torn = d.torn /\ Shape(new)
    BY <1>4, Shaped
<1>6. AreFiles(data) /\ DOMAIN data = DOMAIN d.data
    <2>1. AreFiles(d.data)
        BY DEF IsDataset
    <2> QED
        BY <1>1, <2>1 DEF AreFiles
<1>7. \A f \in DOMAIN d.data : /\ data[f] \in FileType /\ data[f].stamped = TRUE
                               /\ Remarked(data[f].rows, d.data[f].rows, f, d)
    BY <1>1, MarkedFileTyped
<1>8. IsDataset(new)
    BY <1>5, <1>6, <1>7 DEF IsDataset, Shape
<1>9. StampedAs(new, d)
    BY <1>4, <1>5, <1>6, <1>7 DEF StampedAs
<1> QED
    BY <1>3, <1>8, <1>9

----------------------------------------------------------------------------
(* JOBS.                                                                    *)

(* Every edit is the writing of episodes of its sources.                    *)
Sourced(dk, D, out, roots, all, m) ==
    /\ Roots(roots, all, m) /\ Job(dk, D, out, RootSet(roots, m))
    /\ \A i \in 1 .. m : \A j \in 1 .. Len(all[i]) :
         \E k \in 1 .. Len(TableRows(dk[roots[i]])) : all[i][j] = TableRows(dk[roots[i]])[k]

IsResult(w, dk, D, out, roots, m) ==
    \E all : \E info \in InfoType : \E tasks \in Seq(TaskType) :
      /\ Sourced(dk, D, out, roots, all, m)
      /\ w = Result(dk, out, info, tasks, roots, all)

LEMMA IsResultTyped ==
    ASSUME NEW D, NEW dk, NEW out \in D, NEW m \in Nat, NEW roots, NEW w, IsResult(w, dk, D, out, roots, m)
    PROVE  Outside(w, dk, out, D) /\ IsDataset(w[out])
<1>1. PICK all : \E info \in InfoType : \E tasks \in Seq(TaskType) :
        /\ Sourced(dk, D, out, roots, all, m)
        /\ w = Result(dk, out, info, tasks, roots, all)
    BY DEF IsResult
<1>2. PICK info \in InfoType : \E tasks \in Seq(TaskType) :
        /\ Sourced(dk, D, out, roots, all, m)
        /\ w = Result(dk, out, info, tasks, roots, all)
    BY <1>1
<1>3. PICK tasks \in Seq(TaskType) : /\ Sourced(dk, D, out, roots, all, m)
                                     /\ w = Result(dk, out, info, tasks, roots, all)
    BY <1>2
<1>4. Roots(roots, all, m) /\ Job(dk, D, out, RootSet(roots, m))
    BY <1>3 DEF Sourced
<1>5. /\ Outside(Result(dk, out, info, tasks, roots, all), dk, out, D)
      /\ IsDataset(Result(dk, out, info, tasks, roots, all)[out])
    BY <1>2, <1>3, <1>4, ResultTyped
<1> QED
    BY <1>3, <1>5

(* Delete and split keep episodes of one source.                            *)
LEMMA KeepingIsResult ==
    ASSUME NEW D, NEW dk, OnDisk(dk, D), NEW out \in D, dk[out] = Absent \/ IsDataset(dk[out]),
           NEW n \in D, dk[n] # Absent, IsDataset(dk[n]), NEW K, K \in SUBSET (DOMAIN ReadEpisodes(dk[n]))
    PROVE  IsResult(Select(dk, n, out, Kept(ReadEpisodes(dk[n]), K)), dk, D, out, <<n>>, 1)
<1>1. PICK d : d = dk[n]
    OBVIOUS
<1>2. PICK eps \in Seq(EpisodeType) : eps = ReadEpisodes(d)
    BY <1>1, EpisodesRead
<1>3. PICK kept : kept = Kept(eps, K)
    OBVIOUS
<1>4. K \in SUBSET (1 .. Len(eps))
    BY <1>1, <1>2
<1>5. kept \in Seq(EpisodeType) /\ \A i \in DOMAIN kept : \E k \in K : kept[i] = eps[k]
    BY <1>2, <1>3, <1>4, KeptTyped
<1>6. \A i \in DOMAIN eps : \E k \in 1 .. Len(TableRows(d)) : eps[i] = TableRows(d)[k]
    BY <1>1, <1>2, EpisodesRead
<1>7. PICK roots, all : roots = <<n>> /\ all = <<kept>>
    OBVIOUS
<1>8. PICK m \in Nat : m = 1
    OBVIOUS
<1>9. Roots(roots, all, m)
    BY <1>5, <1>7, <1>8 DEF Roots
<1>10. RootSet(roots, m) = {n}
    BY <1>7, <1>8 DEF RootSet
<1>11. Job(dk, D, out, RootSet(roots, m))
    BY <1>10 DEF Job
<1>12. ASSUME NEW i \in 1 .. m, NEW j \in 1 .. Len(all[i])
       PROVE  \E k \in 1 .. Len(TableRows(dk[roots[i]])) : all[i][j] = TableRows(dk[roots[i]])[k]
    <2>1. all[i] = kept /\ dk[roots[i]] = d
        BY <1>1, <1>7, <1>8
    <2>2. j \in DOMAIN kept
        BY <1>5, <2>1
    <2>3. PICK q \in K : kept[j] = eps[q]
        BY <1>5, <2>2
    <2>4. q \in DOMAIN eps
        BY <1>1, <1>2, <2>3
    <2>5. PICK k \in 1 .. Len(TableRows(d)) : eps[q] = TableRows(d)[k]
        BY <1>6, <2>4
    <2> QED
        BY <2>1, <2>3, <2>5
<1>13. Sourced(dk, D, out, roots, all, m)
    BY <1>9, <1>11, <1>12 DEF Sourced
<1>14. PICK info \in InfoType, tasks \in Seq(TaskType) : info = dk[n].info /\ tasks = dk[n].tasks
    BY DEF IsDataset
<1>15. PICK w : w = Select(dk, n, out, kept)
    OBVIOUS
<1>16. w = Result(dk, out, info, tasks, roots, all)
    BY <1>5, <1>7, <1>14, <1>15, SelectIs
<1>17. IsResult(w, dk, D, out, roots, m)
    BY <1>13, <1>14, <1>16 DEF IsResult
<1> QED
    BY <1>1, <1>2, <1>3, <1>7, <1>8, <1>15, <1>17

LEMMA DeleteIsResult ==
    ASSUME NEW D, NEW dk, OnDisk(dk, D), NEW out \in D, dk[out] = Absent \/ IsDataset(dk[out]),
           NEW n \in D, dk[n] # Absent, IsDataset(dk[n]), NEW ids
    PROVE  IsResult(DeleteEpisodes(dk, n, ids, out), dk, D, out, <<n>>, 1)
<1>1. PICK eps : eps = ReadEpisodes(dk[n])
    OBVIOUS
<1>2. PICK K : K = {k \in DOMAIN eps : eps[k].episode \notin ids}
    OBVIOUS
<1>3. K \in SUBSET (DOMAIN ReadEpisodes(dk[n]))
    BY <1>1, <1>2
<1>4. DeleteEpisodes(dk, n, ids, out) = Select(dk, n, out, Kept(ReadEpisodes(dk[n]), K))
    BY <1>1, <1>2 DEF DeleteEpisodes
<1> QED
    BY <1>3, <1>4, KeepingIsResult

LEMMA SplitIsResult ==
    ASSUME NEW D, NEW dk, OnDisk(dk, D), NEW out \in D, dk[out] = Absent \/ IsDataset(dk[out]),
           NEW n \in D, dk[n] # Absent, IsDataset(dk[n]), NEW ids
    PROVE  IsResult(SplitDataset(dk, n, ids, out), dk, D, out, <<n>>, 1)
<1>1. PICK eps : eps = ReadEpisodes(dk[n])
    OBVIOUS
<1>2. PICK K : K = {k \in DOMAIN eps : eps[k].episode \in ids}
    OBVIOUS
<1>3. K \in SUBSET (DOMAIN ReadEpisodes(dk[n]))
    BY <1>1, <1>2
<1>4. SplitDataset(dk, n, ids, out) = Select(dk, n, out, Kept(ReadEpisodes(dk[n]), K))
    BY <1>1, <1>2 DEF SplitDataset
<1> QED
    BY <1>3, <1>4, KeepingIsResult

(* Merge takes all the episodes of several.                                 *)
Sources(dk, D, roots, m) == roots \in [1 .. m -> D] /\ \A i \in 1 .. m : dk[roots[i]] # Absent /\ IsDataset(dk[roots[i]])

LEMMA MergeIsResult ==
    ASSUME NEW D, NEW dk, OnDisk(dk, D), NEW out \in D, dk[out] = Absent \/ IsDataset(dk[out]),
           NEW m \in Nat, m > 0, NEW roots, Sources(dk, D, roots, m)
    PROVE  IsResult(MergeDatasets(dk, roots, out), dk, D, out, roots, m)
<1>1. roots \in [1 .. m -> D] /\ DOMAIN roots = 1 .. m
      /\ \A i \in 1 .. m : dk[roots[i]] # Absent /\ IsDataset(dk[roots[i]])
    BY DEF Sources
<1>2. PICK all : all = [i \in DOMAIN roots |-> ReadEpisodes(dk[roots[i]])]
    OBVIOUS
<1>3. DOMAIN all = 1 .. m /\ \A i \in 1 .. m : all[i] = ReadEpisodes(dk[roots[i]])
    BY <1>1, <1>2
<1>4. Roots(roots, all, m)
    <2>1. \A i \in 1 .. m : all[i] \in Seq(EpisodeType)
        BY <1>1, <1>3, EpisodesRead
    <2> QED
        BY <1>1, <1>3, <2>1 DEF Roots
<1>5. Job(dk, D, out, RootSet(roots, m))
    <2>1. RootSet(roots, m) \subseteq D /\ \A x \in RootSet(roots, m) : dk[x] # Absent /\ IsDataset(dk[x])
        BY <1>1 DEF RootSet
    <2> QED
        BY <2>1 DEF Job
<1>6. ASSUME NEW i \in 1 .. m, NEW j \in 1 .. Len(all[i])
      PROVE  \E k \in 1 .. Len(TableRows(dk[roots[i]])) : all[i][j] = TableRows(dk[roots[i]])[k]
    <2>1. PICK d : d = dk[roots[i]]
        OBVIOUS
    <2>2. IsDataset(d) /\ all[i] = ReadEpisodes(d)
        BY <1>1, <1>3, <2>1
    <2>3. /\ ReadEpisodes(d) \in Seq(EpisodeType)
          /\ \A q \in DOMAIN ReadEpisodes(d) :
               \E k \in 1 .. Len(TableRows(d)) : ReadEpisodes(d)[q] = TableRows(d)[k]
        BY <2>2, EpisodesRead
    <2>4. j \in DOMAIN ReadEpisodes(d)
        BY <2>2, <2>3
    <2> QED
        BY <2>1, <2>2, <2>3, <2>4
<1>7. Sourced(dk, D, out, roots, all, m)
    BY <1>4, <1>5, <1>6 DEF Sourced
<1>8. PICK info \in InfoType : info = dk[roots[1]].info
    <2>1. IsDataset(dk[roots[1]])
        BY <1>1
    <2> QED
        BY <2>1 DEF IsDataset
<1>9. PICK tasks \in Seq(TaskType) : tasks = Deduped(Concat([i \in DOMAIN roots |-> dk[roots[i]].tasks]))
    <2>1. PICK ts : ts = [i \in DOMAIN roots |-> dk[roots[i]].tasks]
        OBVIOUS
    <2>2. DOMAIN ts = 1 .. m /\ \A i \in 1 .. m : ts[i] = dk[roots[i]].tasks
        BY <1>1, <2>1
    <2>3. \A i \in 1 .. m : ts[i] \in Seq(TaskType)
        BY <1>1, <2>2 DEF IsDataset
    <2>4. Concat(ts) \in Seq(TaskType)
        BY <2>2, <2>3, ConcatTyped
    <2>5. Deduped(Concat(ts)) \in Seq(TaskType)
        BY <2>4, DedupedTyped
    <2> QED
        BY <2>1, <2>5
<1>10. MergeDatasets(dk, roots, out) = Result(dk, out, info, tasks, roots, all)
    BY <1>2, <1>8, <1>9 DEF MergeDatasets, Result
<1>11. PICK w : w = MergeDatasets(dk, roots, out)
    OBVIOUS
<1>12. IsResult(w, dk, D, out, roots, m)
    BY <1>7, <1>8, <1>9, <1>10, <1>11 DEF IsResult
<1> QED
    BY <1>11, <1>12

----------------------------------------------------------------------------
(* TYPE CORRECTNESS.                                                        *)

Directories == Names \cup {Bak}
Histories == {"fresh", "over", "spoilt"}
Verdicts == {"not_run", "passed", "failed", "partial"}
BadgeType == [quick : Verdicts, full : Verdicts]

IsDisk(dk) == OnDisk(dk, Directories) /\ \A m \in Directories : dk[m] = Absent \/ IsDataset(dk[m])

(* Every directory holds a dataset, perhaps a faulty one, or nothing, and   *)
(* the backup is gone between jobs.                                         *)
EditsTyped ==
    /\ IsDisk(disk) /\ disk[Bak] = Absent
    /\ past \in [Names -> Histories]
    /\ badge \in [Names -> BadgeType]
    /\ loader \in Loaders

LEMMA IsDiskAfter ==
    ASSUME NEW dk, IsDisk(dk), NEW out \in Directories, NEW w, Outside(w, dk, out, Directories), IsDataset(w[out])
    PROVE  IsDisk(w)
BY DEF IsDisk, Outside

LEMMA TypedInit == Init => EditsTyped
<1> SUFFICES ASSUME Init PROVE EditsTyped
    OBVIOUS
<1>1. Bak \notin Names /\ SomeLoaders # {} /\ SomeLoaders \subseteq Loaders
    BY EditsAssumption
<1>2. ASSUME NEW shelf, \A n \in Names : shelf[n] # Absent => IsDataset(shelf[n]),
             disk = [n \in Names \cup {Bak} |-> IF n \in Names THEN shelf[n] ELSE Absent]
      PROVE  IsDisk(disk) /\ disk[Bak] = Absent
    BY <1>1, <1>2 DEF IsDisk, OnDisk, Directories
<1>3. badge \in [Names -> BadgeType]
    BY DEF Init, NoBadge, BadgeType, Verdicts
<1>4. CASE \E shelf \in Shelves :
              /\ disk = [n \in Names \cup {Bak} |-> IF n \in Names THEN shelf[n] ELSE Absent]
              /\ past = [n \in Names |-> "fresh"]
              /\ loader = CHOOSE l \in SomeLoaders : TRUE
              /\ steps = 0
    <2>1. PICK shelf \in Shelves :
            /\ disk = [n \in Names \cup {Bak} |-> IF n \in Names THEN shelf[n] ELSE Absent]
            /\ past = [n \in Names |-> "fresh"]
            /\ loader = CHOOSE l \in SomeLoaders : TRUE
        BY <1>4
    <2>2. \A n \in Names : shelf[n] # Absent => IsDataset(shelf[n])
        BY ShelvesAssumption
    <2>3. IsDisk(disk) /\ disk[Bak] = Absent
        BY <1>2, <2>1, <2>2
    <2>4. loader \in Loaders
        BY <1>1, <2>1
    <2>5. past \in [Names -> Histories]
        BY <2>1 DEF Histories
    <2> QED
        BY <1>3, <2>3, <2>4, <2>5 DEF EditsTyped
<1>5. CASE \E draft \in Drafts, l \in SomeLoaders :
              /\ disk = [n \in Names \cup {Bak} |-> IF n \in Names THEN draft[n] ELSE Absent]
              /\ past = [n \in Names |-> "spoilt"]
              /\ loader = l
              /\ steps = MaxSteps - 1
    <2>1. PICK draft \in Drafts, l \in SomeLoaders :
            /\ disk = [n \in Names \cup {Bak} |-> IF n \in Names THEN draft[n] ELSE Absent]
            /\ past = [n \in Names |-> "spoilt"]
            /\ loader = l
        BY <1>5
    <2>2. \A n \in Names : draft[n] # Absent => IsDataset(draft[n])
        BY <2>1, ShelvesAssumption
    <2>3. IsDisk(disk) /\ disk[Bak] = Absent
        BY <1>2, <2>1, <2>2
    <2>4. loader \in Loaders
        BY <1>1, <2>1
    <2>5. past \in [Names -> Histories]
        BY <2>1 DEF Histories
    <2> QED
        BY <1>3, <2>3, <2>4, <2>5 DEF EditsTyped
<1> QED
    BY <1>4, <1>5 DEF Init

(* What each edit does to the disk.                                         *)
Moved(n) == [disk EXCEPT ![Bak] = disk[n], ![n] = Absent]

LEMMA MovedTyped ==
    ASSUME EditsTyped, NEW n \in Names, disk[n] # Absent
    PROVE  /\ IsDisk(Moved(n)) /\ Moved(n)[n] = Absent /\ Moved(n)[Bak] = disk[n]
           /\ \A x \in Names : x # n => Moved(n)[x] = disk[x]
<1>1. Bak \notin Names /\ n \in Directories /\ Bak \in Directories /\ Names \subseteq Directories
    BY EditsAssumption DEF Directories
<1>2. PICK dk : dk = disk
    OBVIOUS
<1>3. PICK d : d = dk[n]
    OBVIOUS
<1>4. OnDisk(dk, Directories) /\ \A m \in Directories : dk[m] = Absent \/ IsDataset(dk[m])
    BY <1>2 DEF EditsTyped, IsDisk
<1>5. PICK mv : mv = [dk EXCEPT ![Bak] = d, ![n] = Absent]
    OBVIOUS
<1>6. /\ OnDisk(mv, Directories) /\ mv[n] = Absent /\ mv[Bak] = d
      /\ \A x \in Directories : x # n /\ x # Bak => mv[x] = dk[x]
    BY <1>1, <1>4, <1>5 DEF OnDisk
<1>7. \A m \in Directories : mv[m] = Absent \/ IsDataset(mv[m])
    BY <1>1, <1>3, <1>4, <1>6
<1>8. mv = Moved(n)
    BY <1>2, <1>3, <1>5 DEF Moved
<1> QED
    BY <1>1, <1>2, <1>3, <1>6, <1>7, <1>8 DEF IsDisk

LEMMA InPlaceIs ==
    ASSUME EditsTyped, NEW n \in Names, NEW ids, DeleteInPlace(n, ids)
    PROVE  /\ disk[n] # Absent
           /\ \E w : /\ IsResult(w, Moved(n), Directories, n, <<Bak>>, 1)
                     /\ disk' = [w EXCEPT ![Bak] = Absent]
<1>1. disk[n] # Absent
    BY DEF DeleteInPlace, Selectable, Readable
<1>2. PICK mv : mv = Moved(n)
    OBVIOUS
<1>3. IsDisk(mv) /\ mv[n] = Absent /\ mv[Bak] = disk[n]
    BY <1>1, <1>2, MovedTyped
<1>4. n \in Directories /\ Bak \in Directories
    BY DEF Directories
<1>5. OnDisk(mv, Directories) /\ IsDataset(mv[Bak]) /\ mv[Bak] # Absent
    BY <1>1, <1>3, <1>4 DEF IsDisk
<1>6. IsResult(DeleteEpisodes(mv, Bak, ids, n), mv, Directories, n, <<Bak>>, 1)
    BY <1>3, <1>4, <1>5, DeleteIsResult
<1>7. disk' = [DeleteEpisodes(mv, Bak, ids, n) EXCEPT ![Bak] = Absent]
    BY <1>2 DEF DeleteInPlace, Moved
<1> QED
    BY <1>1, <1>2, <1>6, <1>7

LEMMA OutwardIs ==
    ASSUME EditsTyped, NEW n \in Names, NEW out \in Names, NEW ids, DeleteInto(n, ids, out) \/ Split(n, ids, out)
    PROVE  disk[n] # Absent /\ IsResult(disk', disk, Directories, out, <<n>>, 1)
<1>1. disk[n] # Absent
    BY DEF DeleteInto, Split, Selectable, Readable
<1>2. n \in Directories /\ out \in Directories
    BY DEF Directories
<1>3. PICK dk : dk = disk
    OBVIOUS
<1>4. OnDisk(dk, Directories) /\ (dk[out] = Absent \/ IsDataset(dk[out])) /\ dk[n] # Absent /\ IsDataset(dk[n])
    BY <1>1, <1>2, <1>3 DEF EditsTyped, IsDisk
<1>5. disk' = DeleteEpisodes(dk, n, ids, out) \/ disk' = SplitDataset(dk, n, ids, out)
    BY <1>3 DEF DeleteInto, Split
<1>6. IsResult(DeleteEpisodes(dk, n, ids, out), dk, Directories, out, <<n>>, 1)
    BY <1>2, <1>4, DeleteIsResult
<1>7. IsResult(SplitDataset(dk, n, ids, out), dk, Directories, out, <<n>>, 1)
    BY <1>2, <1>4, SplitIsResult
<1> QED
    BY <1>1, <1>3, <1>5, <1>6, <1>7

LEMMA MergeIs ==
    ASSUME EditsTyped, NEW roots \in SeqOf(Names, 2), NEW out \in Names, Merge(roots, out)
    PROVE  \E m \in Nat : /\ roots \in [1 .. m -> Names] /\ \A i \in 1 .. m : disk[roots[i]] # Absent
                          /\ IsResult(disk', disk, Directories, out, roots, m)
<1>1. PICK m \in 0 .. 2 : roots \in [1 .. m -> Names]
    BY DEF SeqOf
<1>2. m \in Nat /\ DOMAIN roots = 1 .. m
    BY <1>1
<1>3. m > 0
    BY <1>1, <1>2 DEF Merge, Mergeable
<1>4. \A i \in 1 .. m : disk[roots[i]] # Absent
    BY <1>1 DEF Merge, Mergeable, Readable
<1>5. PICK dk : dk = disk
    OBVIOUS
<1>6. out \in Directories /\ Names \subseteq Directories
    BY DEF Directories
<1>7. OnDisk(dk, Directories) /\ \A x \in Directories : dk[x] = Absent \/ IsDataset(dk[x])
    BY <1>5 DEF EditsTyped, IsDisk
<1>8. Sources(dk, Directories, roots, m)
    BY <1>1, <1>4, <1>5, <1>6, <1>7 DEF Sources
<1>9. IsResult(MergeDatasets(dk, roots, out), dk, Directories, out, roots, m)
    BY <1>2, <1>3, <1>6, <1>7, <1>8, MergeIsResult
<1>10. disk' = MergeDatasets(dk, roots, out)
    BY <1>5 DEF Merge
<1> QED
    BY <1>1, <1>2, <1>4, <1>5, <1>9, <1>10

LEMMA AfterIs == ASSUME NEW roots, NEW out PROVE After(roots, out) \in Histories
BY DEF After, Histories

LEMMA EditTyped ==
    ASSUME EditsTyped, NEW out \in Names, NEW as \in Histories, Edit(out, as)
    PROVE  past' \in [Names -> Histories] /\ badge' \in [Names -> BadgeType] /\ loader' \in Loaders
BY DEF Edit, EditsTyped

LEMMA IntoTyped ==
    ASSUME EditsTyped, NEW m \in Nat, NEW roots, NEW out \in Names, Into(out, roots),
           IsResult(disk', disk, Directories, out, roots, m)
    PROVE  EditsTyped'
<1>1. PICK was, now : was = disk /\ now = disk'
    OBVIOUS
<1>2. out \in Directories /\ out # Bak /\ Bak \in Directories
    BY EditsAssumption DEF Directories
<1>3. Outside(now, was, out, Directories) /\ IsDataset(now[out])
    BY <1>1, <1>2, IsResultTyped
<1>4. IsDisk(now) /\ now[Bak] = Absent
    BY <1>1, <1>2, <1>3, IsDiskAfter DEF EditsTyped, Outside
<1>5. Edit(out, After(roots, out)) /\ After(roots, out) \in Histories
    BY AfterIs DEF Into
<1>6. past' \in [Names -> Histories] /\ badge' \in [Names -> BadgeType] /\ loader' \in Loaders
    BY <1>5, EditTyped
<1>7. IsDisk(disk') /\ disk'[Bak] = Absent
    BY <1>1, <1>4
<1> QED
    BY <1>6, <1>7 DEF EditsTyped, IsDisk, OnDisk, IsDataset

LEMMA InPlaceTyped ==
    ASSUME EditsTyped, NEW n \in Names, NEW ids, DeleteInPlace(n, ids)
    PROVE  EditsTyped'
<1>1. PICK mv : mv = Moved(n)
    OBVIOUS
<1>2. PICK now : now = disk'
    OBVIOUS
<1>3. disk[n] # Absent
    BY InPlaceIs
<1>4. PICK w : IsResult(w, mv, Directories, n, <<Bak>>, 1) /\ now = [w EXCEPT ![Bak] = Absent]
    BY <1>1, <1>2, InPlaceIs
<1>5. n \in Directories /\ n # Bak /\ Bak \in Directories
    BY EditsAssumption DEF Directories
<1>6. IsDisk(mv)
    BY <1>1, <1>3, MovedTyped
<1>7. Outside(w, mv, n, Directories) /\ IsDataset(w[n])
    <2>1. PICK one \in Nat : one = 1
        OBVIOUS
    <2>2. PICK roots : roots = <<Bak>>
        OBVIOUS
    <2>3. IsResult(w, mv, Directories, n, roots, one)
        BY <1>4, <2>1, <2>2
    <2> QED
        BY <1>5, <2>1, <2>3, IsResultTyped
<1>8. IsDisk(w)
    BY <1>5, <1>6, <1>7, IsDiskAfter
<1>9. IsDisk(now) /\ now[Bak] = Absent
    BY <1>4, <1>5, <1>8 DEF IsDisk, OnDisk
<1>10. past' \in [Names -> Histories] /\ badge' \in [Names -> BadgeType] /\ loader' \in Loaders
    <2>1. PICK as \in Histories : Edit(n, as)
        <3>1. (IF past[n] = "fresh" THEN "fresh" ELSE "spoilt") \in Histories
            BY DEF Histories
        <3> QED
            BY <3>1 DEF DeleteInPlace
    <2> QED
        BY <2>1, EditTyped
<1> QED
    BY <1>2, <1>9, <1>10 DEF EditsTyped, IsDisk, OnDisk, IsDataset

LEMMA StampTyped ==
    ASSUME EditsTyped, NEW n \in Names, NEW overwrite \in BOOLEAN, Stamp(n, overwrite)
    PROVE  /\ EditsTyped' /\ disk[n] # Absent /\ IsDataset(disk[n]) /\ Outside(disk', disk, n, Directories)
           /\ disk'[n] = StampDatasetCycles(disk[n])
<1>1. PICK was, now : was = disk /\ now = disk'
    OBVIOUS
<1>2. n \in Directories /\ n # Bak /\ Bak \in Directories
    BY EditsAssumption DEF Directories
<1>3. was[n] # Absent /\ IsDisk(was) /\ was[Bak] = Absent
    BY <1>1 DEF Stamp, EditsTyped
<1>4. IsDataset(was[n])
    BY <1>2, <1>3 DEF IsDisk
<1>5. PICK new : new = StampDatasetCycles(was[n]) /\ IsDataset(new)
    BY <1>4, StampExact
<1>6. now = [was EXCEPT ![n] = new]
    BY <1>1, <1>5 DEF Stamp
<1>7. Outside(now, was, n, Directories) /\ now[n] = new
    BY <1>2, <1>3, <1>6 DEF IsDisk, OnDisk, Outside
<1>8. IsDisk(now) /\ now[Bak] = Absent
    BY <1>2, <1>3, <1>5, <1>7, IsDiskAfter DEF Outside
<1>9. past' \in [Names -> Histories] /\ badge' \in [Names -> BadgeType] /\ loader' \in Loaders
    <2>1. past[n] \in Histories
        BY DEF EditsTyped
    <2>2. Edit(n, past[n])
        BY DEF Stamp
    <2> QED
        BY <2>1, <2>2, EditTyped
<1>10. EditsTyped'
    BY <1>1, <1>8, <1>9 DEF EditsTyped, IsDisk, OnDisk, IsDataset
<1> QED
    BY <1>1, <1>3, <1>4, <1>5, <1>7, <1>10

LEMMA DatasetOrNot == ASSUME EditsTyped, NEW n \in Names PROVE disk[n] = Absent \/ IsDataset(disk[n])
BY DEF EditsTyped, IsDisk, Directories

LEMMA QuickVerdict ==
    ASSUME NEW d, d = Absent \/ IsDataset(d)
    PROVE  ValidateQuick(d) = IF d # Absent /\ Sound(d) THEN "passed" ELSE "failed"
<1>1. CASE d = Absent
    BY <1>1 DEF ValidateQuick
<1>2. CASE d # Absent
    <2>1. ValidateQuick(d) = "passed" <=> Sound(d)
        BY <1>2, QuickMeans
    <2>2. ValidateQuick(d) \in {"passed", "failed"}
        BY QuickOrNot
    <2> QED
        BY <1>2, <2>1, <2>2
<1> QED
    BY <1>1, <1>2

LEMMA CheckQuickIs ==
    ASSUME EditsTyped, NEW n \in Names, CheckQuick(n)
    PROVE  /\ badge' \in [Names -> BadgeType] /\ UNCHANGED <<disk, past, loader, trace>>
           /\ badge'[n].full = badge[n].full
           /\ badge'[n].quick = IF disk[n] # Absent /\ Sound(disk[n]) THEN "passed" ELSE "failed"
           /\ \A x \in Names : x # n => badge'[x] = badge[x]
<1>1. PICK v \in Verdicts : v = ValidateQuick(disk[n])
    BY QuickOrNot DEF Verdicts
<1>2. badge \in [Names -> BadgeType]
    BY DEF EditsTyped
<1>3. badge' = [badge EXCEPT ![n].quick = v]
    BY <1>1 DEF CheckQuick
<1>4. PICK b \in BadgeType : b = badge[n]
    BY <1>2
<1>5. PICK c : c = [b EXCEPT !.quick = v]
    OBVIOUS
<1>6. c \in BadgeType /\ c.full = b.full /\ c.quick = v
    BY <1>1, <1>4, <1>5 DEF BadgeType
<1>7. badge' = [badge EXCEPT ![n] = c]
    BY <1>2, <1>3, <1>4, <1>5
<1>8. /\ badge' \in [Names -> BadgeType] /\ badge'[n] = c
      /\ \A x \in Names : x # n => badge'[x] = badge[x]
    BY <1>2, <1>6, <1>7
<1>9. v = IF disk[n] # Absent /\ Sound(disk[n]) THEN "passed" ELSE "failed"
    <2>1. disk[n] = Absent \/ IsDataset(disk[n])
        BY DatasetOrNot
    <2> QED
        BY <1>1, <2>1, QuickVerdict
<1> QED
    BY <1>4, <1>6, <1>8, <1>9 DEF CheckQuick

LEMMA CheckFullIs ==
    ASSUME EditsTyped, NEW n \in Names, CheckFull(n)
    PROVE  /\ badge' \in [Names -> BadgeType] /\ UNCHANGED <<disk, past, loader, trace>>
           /\ badge'[n].quick = badge[n].quick
           /\ badge'[n].full = FullVerdict(disk[n], loader)
           /\ \A x \in Names : x # n => badge'[x] = badge[x]
<1>1. ValidateFull(disk[n], loader) = FullVerdict(disk[n], loader)
    <2>1. disk[n] = Absent \/ IsDataset(disk[n])
        BY DatasetOrNot
    <2>2. loader \in Loaders
        BY DEF EditsTyped
    <2> QED
        BY <2>1, <2>2, FullMeans
<1>2. PICK v \in Verdicts : v = FullVerdict(disk[n], loader)
    BY DEF FullVerdict, Verdicts
<1>3. badge \in [Names -> BadgeType]
    BY DEF EditsTyped
<1>4. badge' = [badge EXCEPT ![n].full = v]
    BY <1>1, <1>2 DEF CheckFull
<1>5. PICK b \in BadgeType : b = badge[n]
    BY <1>3
<1>6. PICK c : c = [b EXCEPT !.full = v]
    OBVIOUS
<1>7. c \in BadgeType /\ c.quick = b.quick /\ c.full = v
    BY <1>2, <1>5, <1>6 DEF BadgeType
<1>8. badge' = [badge EXCEPT ![n] = c]
    BY <1>3, <1>4, <1>5, <1>6
<1>9. /\ badge' \in [Names -> BadgeType] /\ badge'[n] = c
      /\ \A x \in Names : x # n => badge'[x] = badge[x]
    BY <1>3, <1>7, <1>8
<1> QED
    BY <1>2, <1>5, <1>7, <1>9 DEF CheckFull

----------------------------------------------------------------------------
(* VERDICTS.                                                                *)

LEMMA UnchangedTyped ==
    ASSUME EditsTyped, UNCHANGED <<disk, past, loader>>, badge' \in [Names -> BadgeType]
    PROVE  EditsTyped'
BY DEF EditsTyped, IsDisk, OnDisk, IsDataset

LEMMA EditsTypedStep == EditsTyped /\ [Next]_vars => EditsTyped'
<1> SUFFICES ASSUME EditsTyped, [Next]_vars PROVE EditsTyped'
    OBVIOUS
<1>1. ASSUME NEW n \in Names, NEW out \in Names, NEW ids \in Requested(n), DeleteInto(n, ids, out) \/ Split(n, ids, out)
      PROVE  EditsTyped'
    <2>1. IsResult(disk', disk, Directories, out, <<n>>, 1)
        BY <1>1, OutwardIs
    <2>2. Into(out, <<n>>)
        BY <1>1 DEF DeleteInto, Split
    <2>3. PICK one \in Nat : one = 1
        OBVIOUS
    <2>4. PICK roots : roots = <<n>>
        OBVIOUS
    <2>5. Into(out, roots) /\ IsResult(disk', disk, Directories, out, roots, one)
        BY <2>1, <2>2, <2>3, <2>4
    <2> QED
        BY <2>3, <2>5, IntoTyped
<1>2. ASSUME NEW n \in Names, NEW ids \in Requested(n), DeleteInPlace(n, ids)
      PROVE  EditsTyped'
    BY <1>2, InPlaceTyped
<1>3. ASSUME NEW roots \in SeqOf(Names, 2), NEW out \in Names, Merge(roots, out)
      PROVE  EditsTyped'
    <2>1. PICK m \in Nat : IsResult(disk', disk, Directories, out, roots, m)
        BY <1>3, MergeIs
    <2>2. Into(out, roots)
        BY <1>3 DEF Merge
    <2> QED
        BY <2>1, <2>2, IntoTyped
<1>4. ASSUME NEW n \in Names, NEW overwrite \in BOOLEAN, Stamp(n, overwrite)
      PROVE  EditsTyped'
    BY <1>4, StampTyped
<1>5. ASSUME NEW n \in Names, CheckQuick(n) \/ CheckFull(n)
      PROVE  EditsTyped'
    <2>1. UNCHANGED <<disk, past, loader>> /\ badge' \in [Names -> BadgeType]
        BY <1>5, CheckQuickIs, CheckFullIs
    <2> QED
        BY <2>1, UnchangedTyped
<1>6. ASSUME NEW s \in Samples, Observe(s)
      PROVE  EditsTyped'
    <2>1. UNCHANGED <<disk, past, loader>> /\ badge' \in [Names -> BadgeType]
        BY <1>6 DEF Observe, EditsTyped
    <2> QED
        BY <2>1, UnchangedTyped
<1>7. CASE UNCHANGED vars
    <2>1. UNCHANGED <<disk, past, loader>> /\ badge' \in [Names -> BadgeType]
        BY <1>7 DEF vars, EditsTyped
    <2> QED
        BY <2>1, UnchangedTyped
<1> QED
    BY <1>1, <1>2, <1>3, <1>4, <1>5, <1>6, <1>7 DEF Next

(* Whatever the jobs, each directory holds a dataset in types, perhaps a faulty *)
(* one, or nothing, and no backup is left between jobs.                     *)
THEOREM EditsAreTyped == Spec => []EditsTyped
<1>1. Init => EditsTyped
    BY TypedInit
<1>2. EditsTyped /\ [Next]_vars => EditsTyped'
    BY EditsTypedStep
<1> QED
    BY <1>1, <1>2, PTL DEF Spec

VerdictsStep ==
    \A n \in Names :
         LET quick == badge'[n].quick  full == badge'[n].full IN
         /\ quick # badge[n].quick =>
              quick = IF disk[n] # Absent /\ Sound(disk[n]) THEN "passed" ELSE "failed"
         /\ full # badge[n].full =>
              full = IF disk[n] = Absent \/ ~ThroughAndThrough(disk[n]) THEN "failed"
                     ELSE IF ~Recent(loader.version) \/ loader.fromLocal = "absent" THEN "partial"
                     ELSE IF loader.fromLocal = "raises" THEN "failed" ELSE "passed"

LEMMA SameVerdicts == ASSUME UNCHANGED badge PROVE VerdictsStep
BY DEF VerdictsStep

LEMMA NewVerdicts ==
    ASSUME NEW n \in Names,
           badge'[n].quick = badge[n].quick \/ badge'[n].quick = (IF disk[n] # Absent /\ Sound(disk[n])
                                                                  THEN "passed" ELSE "failed"),
           badge'[n].full = badge[n].full \/ badge'[n].full = FullVerdict(disk[n], loader),
           \A x \in Names : x # n => badge'[x] = badge[x]
    PROVE  VerdictsStep
BY DEF VerdictsStep, FullVerdict

LEMMA VerdictsAreRight == EditsTyped /\ [Next]_vars => VerdictsStep
<1> SUFFICES ASSUME EditsTyped, [Next]_vars PROVE VerdictsStep
    OBVIOUS
<1>1. ASSUME NEW n \in Names, CheckQuick(n) PROVE VerdictsStep
    BY <1>1, CheckQuickIs, NewVerdicts
<1>2. ASSUME NEW n \in Names, CheckFull(n) PROVE VerdictsStep
    BY <1>2, CheckFullIs, NewVerdicts
<1>3. CASE UNCHANGED badge
    BY <1>3, SameVerdicts
<1> QED
    BY <1>1, <1>2, <1>3
    DEF Next, vars, DeleteInto, Split, DeleteInPlace, Merge, Stamp, Observe, Into, Edit

(* A verdict of the quick check, when it changes, says whether the dataset is *)
(* sound, and one of the full check whether it is so through and through and *)
(* loads: _validate_quick and _validate_full decide what they are meant to. *)
THEOREM VerdictsMeanWhatTheySay == Spec => VerdictsAreExact
<1>1. EditsTyped /\ [Next]_vars => [VerdictsStep]_vars
    BY VerdictsAreRight
<1>2. VerdictsAreExact <=> [][VerdictsStep]_vars
    BY DEF VerdictsAreExact, VerdictsStep
<1> QED
    BY <1>1, EditsAreTyped, PTL DEF Spec, VerdictsAreExact, VerdictsStep
=============================================================================
