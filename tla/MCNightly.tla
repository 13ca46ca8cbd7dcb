------------------------------ MODULE MCNightly ------------------------------
(* Nightly on small instances; each .cfg picks what may go wrong.          *)
EXTENDS Nightly, TLC

Symmetry == Permutations(Runs) \cup Permutations(Answerers)
=============================================================================
