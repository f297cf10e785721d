------------------------------ MODULE MCSession ------------------------------
(* TLC instance of Session: a batch of two backup codes and one of a single. *)
EXTENDS Session, TLC

CONSTANTS k1, k2, k3
AllCodes == {k1, k2, k3}
TwoBatches == {{k1, k2}, {k3}}

Interchangeable ==
    Permutations(Clients) \cup Permutations(Passwords) \cup Permutations(Secrets)
        \cup Permutations({k1, k2})
=============================================================================
