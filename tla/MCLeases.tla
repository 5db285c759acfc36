------------------------------ MODULE MCLeases ------------------------------
(* Leases for TLC: the isolates, leases and actors are interchangeable.    *)
EXTENDS Leases, TLC

Symmetry == Permutations(Isolates) \cup Permutations(LeaseIds) \cup Permutations(Actors)
=============================================================================
