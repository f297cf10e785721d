----------------------------- MODULE MCPortrait -----------------------------
(* TLC instances of Portrait. *)
EXTENDS Portrait, TLC

Interchangeable == Permutations(Requests) \cup Permutations(Keys)

=============================================================================
