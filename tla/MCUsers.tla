------------------------------ MODULE MCUsers ------------------------------
(* Users with model values, for TLC.                                       *)
EXTENDS Users, TLC
CONSTANTS primary, ann, word1, word2, doc, token1, token2

AllIds == {primary, ann}
AllPasswords == {word1, word2}
AllDocs == {doc}
AllTokens == {token1, token2}
OneId == {primary}
AtRoot == {doc}
Symmetry == Permutations(AllPasswords) \cup Permutations(AllTokens)
=============================================================================
