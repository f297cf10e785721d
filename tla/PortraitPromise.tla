-------------------------- MODULE PortraitPromise --------------------------
(***************************************************************************)
(* What the portrait of the profile page promises to a reader, without     *)
(* locks, requests or failures: a current key and the one before it, and a *)
(* store that always holds both.  Portrait.tla is shown to implement it.   *)
(***************************************************************************)
CONSTANTS Keys, NoKey

VARIABLES current, previous, stored

promiseVars == <<current, previous, stored>>

Shown(k1, k2) == {k1, k2} \ {NoKey}

Init ==
    /\ current = NoKey
    /\ previous = NoKey
    /\ stored = {}

\* One change of portrait: the keys slide by exactly one place, and the new
\* key is already in the store.
Change(k) ==
    /\ k # current
    /\ k \in stored \cup {NoKey}
    /\ current' = k
    /\ previous' = current
    /\ UNCHANGED stored

\* The store may gain and lose objects, but none that a page may still show.
Housekeeping ==
    /\ stored' \in SUBSET Keys
    /\ Shown(current, previous) \subseteq stored'
    /\ UNCHANGED <<current, previous>>

Next == Housekeeping \/ \E k \in Keys \cup {NoKey} : Change(k)

Spec == Init /\ [][Next]_promiseVars
=============================================================================
