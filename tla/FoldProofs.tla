----------------------------- MODULE FoldProofs -----------------------------
(***************************************************************************)
(* What a fold computes, for any step: the last value of its trace, which  *)
(* begins at the base and takes one step for each element.  Each fold of   *)
(* the modules is an instance of this one with its own step.               *)
(*                                                                         *)
(* Fold is FoldLeft of SequencesExt with its definitions expanded.  This   *)
(* module extends none of the library's, for an instance of it brings in   *)
(* whatever it extends; induction is a hypothesis, which the modules that  *)
(* cite its theorem prove first.                                           *)
(***************************************************************************)
EXTENDS Integers, TLAPS

CONSTANT Step(_, _, _)

Latest(S) == CHOOSE x \in S : \A y \in S : x >= y

Fold(k, c, s) ==
    LET iter[u \in SUBSET DOMAIN s] ==
          IF u = {} THEN c ELSE LET x == Latest(u) IN Step(k, iter[u \ {x}], s[x])
    IN  iter[DOMAIN s]

Induction == \A S : 0 \in S /\ (\A n \in S \cap Nat : n + 1 \in S) => \A n \in Nat : n \in S

LEMMA LastOf == ASSUME NEW n \in Nat \ {0} PROVE Latest(1 .. n) = n /\ (1 .. n) \ {n} = 1 .. n - 1
<1>1. n \in 1 .. n /\ \A x \in 1 .. n : n >= x
    OBVIOUS
<1>2. \A m \in 1 .. n : (\A x \in 1 .. n : m >= x) => m = n
    OBVIOUS
<1> QED
    BY <1>1, <1>2 DEF Latest

LEMMA LatestIn == ASSUME Induction, NEW n \in Nat, NEW u \in SUBSET (1 .. n), u # {}
                  PROVE  Latest(u) \in u /\ \A x \in u : x <= Latest(u)
<1>1. PICK S : S = {m \in Nat : \A v \in SUBSET (1 .. m) : v # {} => \E x \in v : \A y \in v : x >= y}
    OBVIOUS
<1>2. 0 \in S
    <2>1. ASSUME NEW v \in SUBSET (1 .. 0) PROVE v = {}
        OBVIOUS
    <2> QED
        BY <1>1, <2>1
<1>3. ASSUME NEW m \in S \cap Nat PROVE m + 1 \in S
    <2>1. ASSUME NEW v \in SUBSET (1 .. m + 1), v # {} PROVE \E x \in v : \A y \in v : x >= y
        <3>1. CASE m + 1 \in v
            BY <3>1
        <3>2. CASE m + 1 \notin v
            <4>1. v \in SUBSET (1 .. m)
                BY <3>2
            <4> QED
                BY <1>1, <2>1, <4>1
        <3> QED
            BY <3>1, <3>2
    <2> QED
        BY <1>1, <2>1
<1>4. n \in S
    BY <1>2, <1>3 DEF Induction
<1>5. PICK x \in u : \A y \in u : x >= y
    BY <1>1, <1>4
<1>6. Latest(u) \in u /\ \A y \in u : Latest(u) >= y
    BY <1>5 DEF Latest
<1> QED
    BY <1>6

(* The function a fold is defined by.                                       *)
Runs(k, c, s, n, h) ==
    h = [u \in SUBSET (1 .. n) |-> IF u = {} THEN c ELSE Step(k, h[u \ {Latest(u)}], s[Latest(u)])]

LEMMA Exists ==
    ASSUME Induction, NEW k, NEW c, NEW s, NEW n \in Nat
    PROVE  \E h : Runs(k, c, s, n, h)
<1>1. PICK S : S = {m \in Nat : \E h : Runs(k, c, s, m, h)}
    OBVIOUS
<1>2. 0 \in S
    <2>1. PICK h : h = [u \in SUBSET (1 .. 0) |-> c]
        OBVIOUS
    <2>2. \A u \in SUBSET (1 .. 0) : u = {}
        OBVIOUS
    <2>3. h = [u \in SUBSET (1 .. 0) |-> IF u = {} THEN c ELSE Step(k, h[u \ {Latest(u)}], s[Latest(u)])]
        BY <2>1, <2>2
    <2> QED
        BY <1>1, <2>3 DEF Runs
<1>3. ASSUME NEW m \in S \cap Nat PROVE m + 1 \in S
    <2>1. PICK h : h = [u \in SUBSET (1 .. m) |-> IF u = {} THEN c ELSE Step(k, h[u \ {Latest(u)}], s[Latest(u)])]
        BY <1>1 DEF Runs
    <2>2. PICK g : g = [u \in SUBSET (1 .. m + 1) |->
                          IF m + 1 \in u THEN Step(k, h[u \ {m + 1}], s[m + 1]) ELSE h[u]]
        OBVIOUS
    <2>3. ASSUME NEW u \in SUBSET (1 .. m + 1)
          PROVE  g[u] = IF u = {} THEN c ELSE Step(k, g[u \ {Latest(u)}], s[Latest(u)])
        <3>1. CASE m + 1 \in u
            <4>1. Latest(u) = m + 1
                <5>1. u # {} /\ m + 1 \in Nat
                    BY <3>1
                <5>2. Latest(u) \in u /\ \A x \in u : x <= Latest(u)
                    BY <5>1, LatestIn
                <5>3. Latest(u) \in 1 .. m + 1 /\ m + 1 <= Latest(u)
                    BY <3>1, <5>2
                <5> QED
                    BY <5>3
            <4>2. u \ {m + 1} \in SUBSET (1 .. m)
                <5>1. \A x \in u \ {m + 1} : x \in 1 .. m
                    OBVIOUS
                <5> QED
                    BY <5>1
            <4>3. g[u \ {m + 1}] = h[u \ {m + 1}]
                BY <2>2, <4>2
            <4> QED
                BY <2>2, <3>1, <4>1, <4>3
        <3>2. CASE m + 1 \notin u
            <4>1. u \in SUBSET (1 .. m)
                BY <3>2
            <4>2. g[u] = h[u]
                BY <2>2, <3>2
            <4>3. g[u \ {Latest(u)}] = h[u \ {Latest(u)}]
                BY <2>2, <3>2
            <4> QED
                BY <2>1, <4>1, <4>2, <4>3
        <3> QED
            BY <3>1, <3>2
    <2>4. g = [u \in SUBSET (1 .. m + 1) |-> IF u = {} THEN c ELSE Step(k, g[u \ {Latest(u)}], s[Latest(u)])]
        BY <2>2, <2>3
    <2>5. Runs(k, c, s, m + 1, g)
        BY <2>4 DEF Runs
    <2> QED
        BY <1>1, <2>5
<1> QED
    BY <1>1, <1>2, <1>3 DEF Induction

(* The values of a fold, one for each prefix.                               *)
Traces(k, c, s, n, g) ==
    /\ DOMAIN g = 0 .. n /\ g[0] = c
    /\ \A i \in 1 .. n : g[i] = Step(k, g[i - 1], s[i])

(* A fold of a sequence is the last value of its trace.                     *)
THEOREM FoldIsTraced ==
    ASSUME Induction, NEW k, NEW c, NEW s, NEW n \in Nat, DOMAIN s = 1 .. n
    PROVE  \E g : Traces(k, c, s, n, g) /\ Fold(k, c, s) = g[n]
<1>1. PICK h : h = CHOOSE iter : iter = [u \in SUBSET (1 .. n) |->
                                   IF u = {} THEN c ELSE Step(k, iter[u \ {Latest(u)}], s[Latest(u)])]
    OBVIOUS
<1>2. Fold(k, c, s) = h[1 .. n]
    BY <1>1 DEF Fold
<1>3. h = [u \in SUBSET (1 .. n) |-> IF u = {} THEN c ELSE Step(k, h[u \ {Latest(u)}], s[Latest(u)])]
    <2>1. \E i : i = [u \in SUBSET (1 .. n) |-> IF u = {} THEN c ELSE Step(k, i[u \ {Latest(u)}], s[Latest(u)])]
        <3>1. PICK i : Runs(k, c, s, n, i)
            BY Exists
        <3>2. i = [u \in SUBSET (1 .. n) |-> IF u = {} THEN c ELSE Step(k, i[u \ {Latest(u)}], s[Latest(u)])]
            BY <3>1 DEF Runs
        <3> QED
            BY <3>2
    <2> QED
        BY <1>1, <2>1
<1>4. PICK g : g = [i \in 0 .. n |-> h[1 .. i]]
    OBVIOUS
<1>5. g[0] = c
    <2>1. 1 .. 0 = {} /\ 1 .. 0 \in SUBSET (1 .. n)
        <3>1. \A x \in 1 .. 0 : FALSE
            OBVIOUS
        <3> QED
            BY <3>1
    <2> QED
        BY <1>3, <1>4, <2>1
<1>6. ASSUME NEW i \in 1 .. n PROVE g[i] = Step(k, g[i - 1], s[i])
    <2>1. 1 .. i \in SUBSET (1 .. n) /\ 1 .. i # {} /\ i - 1 \in 0 .. n
        <3>1. i \in 1 .. i /\ i - 1 \in 0 .. n
            OBVIOUS
        <3>2. \A x \in 1 .. i : x \in 1 .. n
            OBVIOUS
        <3> QED
            BY <3>1, <3>2
    <2>2. Latest(1 .. i) = i /\ (1 .. i) \ {i} = 1 .. i - 1
        BY LastOf
    <2>3. h[1 .. i] = Step(k, h[1 .. i - 1], s[i])
        BY <1>3, <2>1, <2>2
    <2> QED
        BY <1>4, <2>1, <2>3
<1> QED
    <2>1. DOMAIN g = 0 .. n /\ Fold(k, c, s) = g[n]
        BY <1>2, <1>4
    <2>2. Traces(k, c, s, n, g)
        BY <1>5, <1>6, <2>1 DEF Traces
    <2> QED
        BY <2>1, <2>2
=============================================================================
