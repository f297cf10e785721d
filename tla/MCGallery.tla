------------------------------ MODULE MCGallery ------------------------------
(* TLC instance of Gallery.  In one half of the behaviours the project may be *)
(* removed and S3 calls may land late, on a small gallery; in the other half  *)
(* images are reordered, on one with room for a longer order.                 *)
EXTENDS Gallery

CONSTANTS RoomyMax   \* GalleryMax where images are reordered

Roomy == INSTANCE Gallery WITH GalleryMax <- RoomyMax, MaxLate <- 0

\* The images somebody names.
Named == bucket \cup UNION {item[p] \cup ToSet(list[p]) : p \in Requests}

VARIABLE reorders   \* the behaviour is one with reorders

GalleryInit == Init /\ reorders \in BOOLEAN

PlayRemovals ==
    /\ ~reorders
    /\ Next
    /\ \A p \in Reorderers : pc'[p] = "idle"

PlayReorders ==
    /\ reorders
    /\ Roomy!Next
    /\ \A p \in Deleters : pc'[p] = "idle"
    /\ Cardinality(Named') <= RoomyMax

GalleryNext == (PlayRemovals \/ PlayReorders) /\ UNCHANGED reorders
GallerySpec == GalleryInit /\ [][GalleryNext]_<<vars, reorders>>

Interchangeable == Permutations(Images) \cup Permutations(Uploaders)
                     \cup Permutations(Reorderers)
=============================================================================
