----------------------------- MODULE MCDatasetOps -----------------------------
EXTENDS DatasetOps

(* a has three episodes, b two, and nothing is at out at first.             *)
MCPaths == {"a", "b", "out"}
MCOriginal == [p \in MCPaths |->
    CASE p = "a" -> <<"a0", "a1", "a2">> [] p = "b" -> <<"b0", "b1">> [] p = "out" -> NoMeta]

DeleteIn(p, ids) == [op |-> "delete", sources |-> <<p>>, output |-> p, inPlace |-> TRUE, pick |-> ids]
SplitTo(p, ids, o) == [op |-> "split", sources |-> <<p>>, output |-> o, inPlace |-> FALSE, pick |-> ids]
MergeTo(ps, o) == [op |-> "merge", sources |-> ps, output |-> o, inPlace |-> FALSE, pick |-> {}]

(* A delete in place of the episodes a0 and a2, beside jobs that read a and *)
(* share an output.                                                         *)
MixedRequests == << DeleteIn("a", {0, 2}), SplitTo("a", {1, 2}, "out"), MergeTo(<<"b", "a">>, "out") >>

(* Only the split reads a while the delete takes it away.                   *)
RaceRequests == << DeleteIn("a", {0, 2}), SplitTo("a", {1, 2}, "out") >>
(* What the theorems of DatasetOpsProofs take for granted.                  *)
ASSUME RequestsAreApart == Separate /\ OneDelete
==============================================================================
