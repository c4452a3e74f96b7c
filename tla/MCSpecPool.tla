----------------------------- MODULE MCSpecPool -----------------------------
(* Model values and symmetry for the runs of SpecPool. *)
EXTENDS SpecPool, TLC

Symmetry == Permutations(Experts) \cup Permutations(Workers)
                \cup Permutations(Tensors)
=============================================================================
