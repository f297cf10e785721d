-------------------------- MODULE MCProfileDocument --------------------------
(* TLC instance of ProfileDocument. *)
EXTENDS ProfileDocument
=============================================================================
