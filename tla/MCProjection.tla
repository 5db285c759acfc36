---------------------------- MODULE MCProjection ----------------------------
(* The projection for TLC: annotations, settings operations and the fields   *)
(* of book.yml are interchangeable.                                          *)
EXTENDS Projection, TLC

Symmetry == Permutations(Notes) \cup Permutations(Edits) \cup Permutations(Fields)
=============================================================================
