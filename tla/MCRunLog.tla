------------------------------ MODULE MCRunLog ------------------------------
(* Instances of RunLog.  Hosts, gates and answers are interchangeable.     *)
EXTENDS RunLog, TLC

Symmetry == Permutations(Hosts) \cup Permutations(Gates) \cup Permutations(Answers)
=============================================================================
