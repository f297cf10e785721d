---------------------------- MODULE MCCoverImage ----------------------------
(* TLC instances of CoverImage. *)
EXTENDS CoverImage, TLC

Interchangeable == Permutations(Keys) \cup Permutations(Requests)
=============================================================================
