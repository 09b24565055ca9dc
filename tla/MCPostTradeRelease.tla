------------------------- MODULE MCPostTradeRelease -------------------------
(* Instances of PostTradeReleaseProps for TLC; bounds are in the cfg files. *)
EXTENDS PostTradeReleaseProps
=============================================================================
