------------------------------ MODULE MCReview ------------------------------
(* An instance of Review for TLC.                                          *)
EXTENDS Review, TLC

Symmetry == Permutations(Reviewers)

\* A revocation is taken beside the work items alone, with two mishaps of the
\* three: nothing it does reaches the other writes of the document or the
\* proposals that carry no work.
Struck == revoked # {} \/ \E i \in Items : cascade[i] # Nothing
OnlyWork ==
  Struck => /\ \A w \in Writes \ Items : op[w].state = "none"
            /\ \A p \in Edits : prop[p] = "none"
            /\ used.failures + used.retries + used.crashes <= 2
=============================================================================
