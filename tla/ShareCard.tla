------------------------------ MODULE ShareCard ------------------------------
(***************************************************************************)
(* The share card of one stored image: a derived object, built on the      *)
(* first demand (ShareCardService.get), that StorageService deletes after  *)
(* every upload or deletion of the original.  Four S3 calls, no lock.      *)
(***************************************************************************)
CONSTANTS
    Readers,    \* requests for the share card
    Writers,    \* operations that store or delete the original
    Contents,   \* what the original may contain
    NoObject    \* the key is not in the bucket; also nothing held

VARIABLES
    original,   \* the content stored under the key
    card,       \* the content the stored card was derived from
    pc,         \* where each reader and writer is
    held,       \* the content a reader has fetched
    overlap,    \* a card was stored after the original it was made of changed
    failed      \* a deletion of the card reported an error

vars == <<original, card, pc, held, overlap, failed>>

Object == Contents \cup {NoObject}
Clients == Readers \cup Writers

Init ==
    /\ original \in Object
    /\ card = NoObject
    /\ pc = [c \in Clients |-> "idle"]
    /\ held = [r \in Readers |-> NoObject]
    /\ overlap = FALSE
    /\ failed = FALSE

Goto(c, phase) == pc' = [pc EXCEPT ![c] = phase]

-----------------------------------------------------------------------------
\* get: a stored card is served as it is...
GetCard(r) ==
    /\ pc[r] = "idle"
    /\ IF card # NoObject THEN UNCHANGED pc ELSE Goto(r, "fetch")
    /\ UNCHANGED <<original, card, held, overlap, failed>>

\* Mutant: no 404.
FetchAnything(r) ==
    /\ pc[r] = "fetch"
    /\ held' = [held EXCEPT ![r] = original]
    /\ Goto(r, "store")
    /\ UNCHANGED <<original, card, overlap, failed>>

\* ...otherwise the original is fetched, 404 without one...
FetchOriginal(r) ==
    /\ pc[r] = "fetch"
    /\ held' = [held EXCEPT ![r] = original]
    /\ Goto(r, IF original = NoObject THEN "idle" ELSE "store")
    /\ UNCHANGED <<original, card, overlap, failed>>

\* ...and the card made of it is stored.
StoreCard(r) ==
    /\ pc[r] = "store"
    /\ card' = held[r]
    /\ overlap' = (overlap \/ held[r] # original)
    /\ held' = [held EXCEPT ![r] = NoObject]
    /\ Goto(r, "idle")
    /\ UNCHANGED <<original, failed>>

\* An S3 call or the derivation fails: the request answers an error.
ReaderFails(r) ==
    /\ pc[r] \in {"fetch", "store"}
    /\ held' = [held EXCEPT ![r] = NoObject]
    /\ Goto(r, "idle")
    /\ UNCHANGED <<original, card, overlap, failed>>

-----------------------------------------------------------------------------
\* upload (a content) or delete (NoObject), first call: the original.
WriteOriginal(w, content) ==
    /\ pc[w] = "idle"
    /\ original' = content
    /\ Goto(w, "discard")
    /\ UNCHANGED <<card, held, overlap, failed>>

\* Mutant: the derived object is forgotten.
DiscardNothing(w) ==
    /\ pc[w] = "discard"
    /\ Goto(w, "idle")
    /\ UNCHANGED <<original, card, held, overlap, failed>>

\* Second call: deleteShareCardOf.
DiscardCard(w) ==
    /\ pc[w] = "discard"
    /\ card' = NoObject
    /\ Goto(w, "idle")
    /\ UNCHANGED <<original, held, overlap, failed>>

\* The second call fails, or the process stops before it.
DiscardFails(w) ==
    /\ pc[w] = "discard"
    /\ failed' = TRUE
    /\ Goto(w, "idle")
    /\ UNCHANGED <<original, card, held, overlap>>

Next ==
    \/ \E r \in Readers : GetCard(r) \/ FetchOriginal(r) \/ StoreCard(r) \/ ReaderFails(r)
    \/ \E w \in Writers, content \in Object : WriteOriginal(w, content)
    \/ \E w \in Writers : DiscardCard(w) \/ DiscardFails(w)

Spec == Init /\ [][Next]_vars

-----------------------------------------------------------------------------
TypeOK ==
    /\ original \in Object /\ card \in Object
    /\ pc \in [Clients -> {"idle", "fetch", "store", "discard"}]
    /\ held \in [Readers -> Object]
    /\ \A r \in Readers : pc[r] = "store" <=> held[r] # NoObject
    /\ overlap \in BOOLEAN /\ failed \in BOOLEAN

AtRest == \A w \in Writers : pc[w] # "discard"

\* The order of the two calls (the original first) leaves two causes only for
\* a card that is not of its original: a request in progress across the
\* change, or a failed deletion.
StaleOnlyByOverlap ==
    AtRest /\ ~overlap /\ ~failed => card \in {original, NoObject}
=============================================================================
