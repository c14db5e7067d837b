--------------------------- MODULE MCSeedRewards ---------------------------
(* TLC instance of SeedRewards.                                            *)
EXTENDS SeedRewards
=============================================================================
