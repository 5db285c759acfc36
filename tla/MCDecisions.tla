----------------------------- MODULE MCDecisions -----------------------------
(* Decisions for TLC: every reply answers the first suggestion; isolates are *)
(* interchangeable.                                                          *)
EXTENDS Decisions, TLC

HumansForAgentsAgainst == [v \in Voters |-> IF v \in Humans THEN {"approve"} ELSE {"reject"}]
OneThread == [r \in Replies |-> CHOOSE a \in Annotations : TRUE]
Symmetry == Permutations(Isolates)
=============================================================================
