----------------------------- MODULE MCRequests -----------------------------
(* Requests for TLC: every command on every target; actors, requests, keys   *)
(* and isolates are interchangeable.                                         *)
EXTENDS Requests, TLC

Command(ops, targets) == [op : ops, target : targets]
Everything ==
    Command({"demote", "remove"}, Humans) \cup Command({"promote", "mint", "revoke"}, Tokens)
      \cup Command({"approve", "reject"}, Notes)
      \cup Command({"annotate", "revokeAll", "freeze", "thaw", "pause", "resume"}, {Nobody})
Symmetry == Permutations(Requests) \cup Permutations(Isolates) \cup Permutations(Keys)
              \cup Permutations(Humans) \cup Permutations(Tokens)
=============================================================================
