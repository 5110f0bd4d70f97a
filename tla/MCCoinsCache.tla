---------------------------- MODULE MCCoinsCache ----------------------------
(* Instance for TLC.  Two outpoints with two coin values each and two       *)
(* blocks: an entry can be replaced by a different coin in every layer      *)
(* while another one is left alone.                                         *)
EXTENDS CoinsCache
=============================================================================
