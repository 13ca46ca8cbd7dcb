-------------------------------- MODULE MCFeeds --------------------------------
(* Feeds on a small instance: what is sold spans lots.     *)
EXTENDS Feeds
ModelQty == <<1, 2, -2, 1>>
===============================================================================
