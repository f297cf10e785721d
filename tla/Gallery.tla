------------------------------ MODULE Gallery ------------------------------
(***************************************************************************)
(* The gallery of one project (ProjectImagesService) and the removal of    *)
(* the project, which takes its gallery along (ProjectsService.remove).    *)
(*                                                                         *)
(* Every image has a key of its own (a fresh uuid), so an image and its    *)
(* S3 object have one name here.  The requests are not serialised: each    *)
(* reads, checks, calls S3 and writes in separate steps; only reorder runs *)
(* in a transaction, whose updates lock the rows one after the other.      *)
(***************************************************************************)
EXTENDS Naturals, FiniteSets, SequencesExt

CONSTANTS
    Uploaders, Removers, Reorderers, Deleters,
                  \* the clients that add, remove and reorder images, and
                  \* remove the project
    Images,       \* the uuids that can be drawn
    GalleryMax,   \* PROJECT_GALLERY_MAX, 12 in the code
    Nobody,       \* no transaction locks the row of an image
    MaxRank,      \* bound on the ranks explored
    MaxLate       \* bound on the abandoned S3 calls not yet executed

Requests == Uploaders \cup Removers \cup Reorderers \cup Deleters

ASSUME GalleryAssumption ==
    /\ Nobody \notin Requests
    /\ GalleryMax \in Nat \ {0}
    /\ MaxRank \in Nat
    /\ MaxLate \in Nat

VARIABLES
    project,   \* the project row exists
    gallery,   \* the images that have a row
    rank,      \* the column "order" of each row, 0 without a row
    bucket,    \* the S3 objects
    late,      \* S3 calls abandoned by their client and not yet executed
    rowLock,   \* the reorder transaction that locks the row of an image
    pc,        \* where each request is
    item,      \* the images a request uploads, drops or will drop
    nextRank,  \* the rank an upload has computed
    list,      \* the order a reorder writes
    updated,   \* how many entries of list it has written
    orphans,   \* objects left behind: a failure, a crash, a missed cascade
    missed,    \* some reorder has committed a list that was not the gallery
    crowded    \* images whose upload ran beside another one, or began on a
               \* gallery where two images already shared a rank

vars == <<project, gallery, rank, bucket, late, rowLock, pc, item, nextRank, list,
          updated, orphans, missed, crowded>>
rows == <<project, gallery, rank>>
store == <<bucket, late, orphans>>
reordering == <<rowLock, list, updated, missed>>

Init ==
    /\ project = TRUE
    /\ gallery = {}
    /\ rank = [i \in Images |-> 0]
    /\ bucket = {}
    /\ late = {}
    /\ rowLock = [i \in Images |-> Nobody]
    /\ pc = [p \in Requests |-> "idle"]
    /\ item = [p \in Requests |-> {}]
    /\ nextRank = [p \in Requests |-> 0]
    /\ list = [p \in Requests |-> <<>>]
    /\ updated = [p \in Requests |-> 0]
    /\ orphans = {}
    /\ missed = FALSE
    /\ crowded = {}

-----------------------------------------------------------------------------
Goto(p, phase) == pc' = [pc EXCEPT ![p] = phase]

\* The request answers and forgets its images.
Answer(p) ==
    /\ Goto(p, "idle")
    /\ item' = [item EXCEPT ![p] = {}]
    /\ nextRank' = [nextRank EXCEPT ![p] = 0]

\* A uuid drawn now: nothing in the system names it.
Fresh(i) ==
    /\ i \notin gallery \cup bucket \cup UNION {item[p] : p \in Requests}
    /\ \A op \in {"put", "delete"} : <<op, i>> \notin late
    /\ \A p \in Requests : i \notin ToSet(list[p])

\* An S3 call that reports an error did its work, or did not, or will do it
\* later (the client timed out, the server did not).
Postponed(calls) ==
    \E still \in SUBSET calls :
        /\ late' = late \cup still
        /\ Cardinality(late') <= MaxLate

\* The images that other uploads are about to insert.
UnderWay == UNION {item[p] : p \in {q \in Requests : pc[q] \in {"put", "insert"}}}

Tied == \E i, j \in gallery : i # j /\ rank[i] = rank[j]

\* nextGalleryOrder: after the last image, even with gaps.
NextGalleryOrder == Max({0} \cup {rank[i] + 1 : i \in gallery})

-----------------------------------------------------------------------------
FullOneLate == Cardinality(gallery) > GalleryMax   \* mutant

Full == Cardinality(gallery) >= GalleryMax

\* upload: the project is found, its gallery read and not full.
Check(p, i) ==
    /\ pc[p] = "idle"
    /\ project
    /\ ~Full
    /\ Fresh(i)
    /\ NextGalleryOrder <= MaxRank
    /\ nextRank' = [nextRank EXCEPT ![p] = NextGalleryOrder]
    /\ item' = [item EXCEPT ![p] = {i}]
    /\ Goto(p, "put")
    /\ crowded' = (crowded \cap gallery) \cup UnderWay
                     \cup (IF Tied \/ UnderWay # {} THEN {i} ELSE {})
    /\ UNCHANGED <<rows, store, reordering>>

Put(p) ==
    /\ pc[p] = "put"
    /\ bucket' = bucket \cup item[p]
    /\ Goto(p, "insert")
    /\ UNCHANGED <<rows, late, orphans, reordering, item, nextRank, crowded>>

\* Mutant: the error of the put is swallowed and the row is inserted.
PutFailsUnseen(p) ==
    /\ pc[p] = "put"
    /\ Goto(p, "insert")
    /\ UNCHANGED <<rows, store, reordering, item, nextRank, crowded>>

PutFails(p) ==
    /\ pc[p] = "put"
    /\ bucket' \in {bucket, bucket \cup item[p]}
    /\ orphans' = orphans \cup (item[p] \cap bucket')
    /\ Postponed({"put"} \X item[p])
    /\ Answer(p)
    /\ UNCHANGED <<rows, reordering, crowded>>

Insert(p) ==
    /\ pc[p] = "insert"
    /\ project
    /\ gallery' = gallery \cup item[p]
    /\ rank' = [i \in Images |-> IF i \in item[p] THEN nextRank[p] ELSE rank[i]]
    /\ Answer(p)
    /\ UNCHANGED <<project, store, reordering, crowded>>

\* The foreign key (the project is gone) or the database refuses the row.
InsertFails(p) ==
    /\ pc[p] = "insert"
    /\ orphans' = orphans \cup item[p]
    /\ Answer(p)
    /\ UNCHANGED <<rows, bucket, late, reordering, crowded>>

-----------------------------------------------------------------------------
\* Mutant: the row goes, the object is forgotten.
DeleteRowOnly(p, i) ==
    /\ pc[p] = "idle"
    /\ i \in gallery
    /\ rowLock[i] = Nobody
    /\ gallery' = gallery \ {i}
    /\ rank' = [rank EXCEPT ![i] = 0]
    /\ UNCHANGED <<project, store, reordering, pc, item, nextRank, crowded>>

\* remove: the row first, waiting for a reorder that has updated it.
DeleteRow(p, i) ==
    /\ pc[p] = "idle"
    /\ i \in gallery
    /\ rowLock[i] = Nobody
    /\ gallery' = gallery \ {i}
    /\ rank' = [rank EXCEPT ![i] = 0]
    /\ item' = [item EXCEPT ![p] = {i}]
    /\ Goto(p, "drop")
    /\ UNCHANGED <<project, store, reordering, nextRank, crowded>>

\* Then the objects; those of a project are deleted side by side, and one
\* that fails is left behind.
Drop(p) ==
    /\ pc[p] = "drop"
    /\ \E kept \in SUBSET item[p] :
          /\ bucket' = bucket \ (item[p] \ kept)
          /\ orphans' = (orphans \cup kept) \cap bucket'
          /\ Postponed({"delete"} \X kept)
    /\ Answer(p)
    /\ UNCHANGED <<rows, reordering, crowded>>

-----------------------------------------------------------------------------
\* ProjectsService.remove reads the keys of the gallery...
ReadKeys(p) ==
    /\ pc[p] = "idle"
    /\ project
    /\ item' = [item EXCEPT ![p] = gallery]
    /\ Goto(p, "cascade")
    /\ UNCHANGED <<rows, store, reordering, nextRank, crowded>>

\* ...and then deletes the project: its rows go in cascade, also those that
\* were inserted since, whose objects nobody will delete.
Cascade(p) ==
    /\ pc[p] = "cascade"
    /\ \A i \in gallery : rowLock[i] = Nobody
    /\ project' = FALSE
    /\ gallery' = {}
    /\ rank' = [i \in Images |-> 0]
    /\ orphans' = orphans \cup (gallery \ item[p])
    /\ Goto(p, "drop")
    /\ UNCHANGED <<bucket, late, reordering, item, nextRank, crowded>>

CascadeFails(p) ==
    /\ pc[p] = "cascade"
    /\ Answer(p)
    /\ UNCHANGED <<rows, store, reordering, crowded>>

-----------------------------------------------------------------------------
\* reorder: the list is a permutation of the gallery as the transaction reads
\* it; anything else is refused (422).
BeginReorder(p) ==
    /\ pc[p] = "idle"
    /\ project
    /\ gallery # {}
    /\ \E order \in SetToSeqs(gallery) : list' = [list EXCEPT ![p] = order]
    /\ updated' = [updated EXCEPT ![p] = 0]
    /\ Goto(p, "reorder")
    /\ UNCHANGED <<rows, store, rowLock, missed, item, nextRank, crowded>>

\* Mutant: the updates wait for no other transaction.
UpdateRankUnlocked(p) ==
    /\ pc[p] = "reorder"
    /\ updated[p] < Len(list[p])
    /\ rowLock' = [rowLock EXCEPT ![list[p][updated[p] + 1]] = p]
    /\ updated' = [updated EXCEPT ![p] = @ + 1]
    /\ UNCHANGED <<rows, store, pc, item, nextRank, list, missed, crowded>>

\* One UPDATE of the loop: it locks its row until the end of the transaction,
\* and touches nothing if the row is gone.
UpdateRank(p) ==
    /\ pc[p] = "reorder"
    /\ updated[p] < Len(list[p])
    /\ LET i == list[p][updated[p] + 1] IN
          /\ rowLock[i] = Nobody
          /\ rowLock' = IF i \in gallery THEN [rowLock EXCEPT ![i] = p] ELSE rowLock
    /\ updated' = [updated EXCEPT ![p] = @ + 1]
    /\ UNCHANGED <<rows, store, pc, item, nextRank, list, missed, crowded>>

\* The end of the transaction, committed or not.
EndReorder(p) ==
    /\ Goto(p, "idle")
    /\ rowLock' = [i \in Images |-> IF rowLock[i] = p THEN Nobody ELSE rowLock[i]]
    /\ list' = [list EXCEPT ![p] = <<>>]
    /\ updated' = [updated EXCEPT ![p] = 0]
    /\ UNCHANGED <<project, gallery, store, item, nextRank, crowded>>

Position(order, i) == CHOOSE n \in 1..Len(order) : order[n] = i

\* imageIds.entries() counts from 0.
RankIn(order, i) == Position(order, i) - 1

\* The ranks written become visible together.
CommitReorder(p) ==
    /\ pc[p] = "reorder"
    /\ updated[p] = Len(list[p])
    /\ rank' = [i \in Images |->
                  IF rowLock[i] = p THEN RankIn(list[p], i) ELSE rank[i]]
    /\ missed' = (missed \/ ToSet(list[p]) # gallery)
    /\ EndReorder(p)

\* A failure, or the victim Postgres picks when two reorders wait for each other.
AbortReorder(p) ==
    /\ pc[p] = "reorder"
    /\ EndReorder(p)
    /\ UNCHANGED <<rank, missed>>

-----------------------------------------------------------------------------
\* A call its client had abandoned reaches the store.
Land(op, i) ==
    /\ <<op, i>> \in late
    /\ late' = late \ {<<op, i>>}
    /\ bucket' = IF op = "put" THEN bucket \cup {i} ELSE bucket \ {i}
    /\ orphans' = IF op = "put" THEN orphans \cup {i} ELSE orphans \ {i}
    /\ UNCHANGED <<rows, reordering, pc, item, nextRank, crowded>>

\* The process stops: what its requests had uploaded or had to drop is left.
Crash ==
    LET at(phases) == UNION {item[p] : p \in {q \in Requests : pc[q] \in phases}} IN
    /\ \E put \in SUBSET at({"put"}), gone \in SUBSET at({"drop"}) :
          bucket' = (bucket \cup put) \ gone
    /\ orphans' = (orphans \cup at({"put", "insert", "drop"})) \cap bucket'
    /\ Postponed(({"put"} \X at({"put"})) \cup ({"delete"} \X at({"drop"})))
    /\ pc' = [p \in Requests |-> "idle"]
    /\ item' = [p \in Requests |-> {}]
    /\ nextRank' = [p \in Requests |-> 0]
    /\ list' = [p \in Requests |-> <<>>]
    /\ updated' = [p \in Requests |-> 0]
    /\ rowLock' = [i \in Images |-> Nobody]
    /\ UNCHANGED <<rows, missed, crowded>>

Next ==
    \/ \E p \in Uploaders, i \in Images : Check(p, i)
    \/ \E p \in Uploaders : Put(p) \/ PutFails(p) \/ Insert(p) \/ InsertFails(p)
    \/ \E p \in Removers, i \in Images : DeleteRow(p, i)
    \/ \E p \in Removers \cup Deleters : Drop(p)
    \/ \E p \in Deleters : ReadKeys(p) \/ Cascade(p) \/ CascadeFails(p)
    \/ \E p \in Reorderers :
          BeginReorder(p) \/ UpdateRank(p) \/ CommitReorder(p) \/ AbortReorder(p)
    \/ \E op \in {"put", "delete"}, i \in Images : Land(op, i)
    \/ Crash

Spec == Init /\ [][Next]_vars

-----------------------------------------------------------------------------
TypeOK ==
    /\ project \in BOOLEAN
    /\ gallery \subseteq Images /\ bucket \subseteq Images /\ orphans \subseteq Images
    /\ rank \in [Images -> Nat]
    /\ rowLock \in [Images -> Reorderers \cup {Nobody}]
    /\ pc \in [Requests -> {"idle", "put", "insert", "drop", "cascade", "reorder"}]
    /\ item \in [Requests -> SUBSET Images]
    /\ nextRank \in [Requests -> Nat]
    /\ updated \in [Requests -> Nat]
    /\ list \in [Requests -> Seq(Images)]
    /\ late \in SUBSET ({"put", "delete"} \X Images) /\ crowded \subseteq Images

\* A row never names an object that is gone: upload before insert, delete the
\* row before the object, also through the cascade and whatever runs at once.
RowsStored == gallery \subseteq bucket

\* Why: the object of an image is stored when its row is inserted, its row is
\* gone when its object is deleted, and no uuid is in two hands.
ObjectsHeld ==
    /\ \A p \in Requests : pc[p] = "insert" => item[p] \subseteq bucket
    /\ \A p \in Requests : pc[p] \in {"put", "insert", "drop"} => item[p] \cap gallery = {}
    /\ \A p, q \in Requests :
          p # q /\ pc[p] \in {"put", "insert"} /\ pc[q] \in {"put", "insert", "drop"}
             => item[p] \cap item[q] = {}

\* A call that was given up is about an image that has no row and gets none.
LateApart ==
    \A op \in {"put", "delete"}, i \in Images :
        <<op, i>> \in late => i \notin gallery \cup UnderWay

\* The type invariant, RowsStored and what it rests on.
IInv == TypeOK /\ RowsStored /\ ObjectsHeld /\ LateApart

\* A stored object without a row is in the hands of a request, or was given
\* up at one of the known places.
ObjectsAccounted ==
    \A i \in bucket \ gallery :
        \/ i \in orphans
        \/ \E p \in Requests : pc[p] \in {"put", "insert", "drop"} /\ i \in item[p]

\* What the unserialised check is worth: each client that uploads at the same
\* time as another may exceed the maximum by one image.
BoundedOvershoot == Cardinality(gallery) <= GalleryMax + Cardinality(Uploaders) - 1

\* Two images share a rank only if one of them was uploaded beside another one
\* or onto a gallery with such a pair, however reorders interleave with each
\* other, with uploads and with removals, as long as every reorder that
\* committed had listed the whole gallery.
RanksDistinct ==
    ~missed => \A i, j \in gallery \ crowded : i # j => rank[i] # rank[j]
=============================================================================
