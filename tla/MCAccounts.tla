------------------------------ MODULE MCAccounts ------------------------------
(* Accounts on a small instance: one account, two movements of one content.*)
EXTENDS Accounts, TLC

ModelSubjects == Reals \X (1 .. MaxLinks)
ModelKeys == {AccountKey, TotalKey} \cup (Movements \X (1 .. MaxLinks))
ModelPayloads ==
  {Account(r, o, i, h) : r \in Reals, o, h \in BOOLEAN, i \in ModelSubjects \cup {None}}
  \cup {Transaction(m, v) : m \in Movements, v \in BOOLEAN} \cup [amount : Times]
ModelBatches == {<<n, t>> : n \in {"close", "ignore", "assets", "night"}, t \in Times}
  \cup {<<n, s[1], s[2]>> : n \in {"flows", "merge"}, s \in ModelSubjects}
ModelOn == [m \in Movements |-> 1]
ModelContent == [m \in Movements |-> 1]
===============================================================================
