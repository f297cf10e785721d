----------------------------- MODULE MCStatistics -----------------------------
(* TLC instance of Statistics. *)
EXTENDS Statistics
=============================================================================
