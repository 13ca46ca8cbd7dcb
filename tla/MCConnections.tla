----------------------------- MODULE MCConnections -----------------------------
(* Connections on a small instance: two spellings of one address.          *)
EXTENDS Connections, TLC
CONSTANTS mixed, lower
ModelKey == mixed :> lower @@ lower :> lower
=============================================================================
