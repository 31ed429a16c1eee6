--------------------------- MODULE MCResultStore ---------------------------
(* Instances of ResultStore: three results of which two fit the small cap. *)
EXTENDS ResultStore, TLC

MCSize == [r \in Results |-> 4]

Symmetry == Permutations(Results)
=============================================================================
