------------------------------ MODULE MCTaxYear ------------------------------
(* TaxYear on small instances.                                             *)
EXTENDS TaxYear, TLC

(* Nothing due; a small installment the reserve holds; a larger one it     *)
(* does not; a provisional account.                                        *)
Quarter == {[due |-> 0, funded |-> TRUE, held |-> FALSE],
            [due |-> 1, funded |-> TRUE, held |-> FALSE],
            [due |-> 2, funded |-> FALSE, held |-> FALSE],
            [due |-> 2, funded |-> FALSE, held |-> TRUE]}

Symmetry == Permutations(Standing) \cup Permutations(Checks)
=============================================================================
