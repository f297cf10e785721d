---------------------------- MODULE GalleryProofs ----------------------------
(***************************************************************************)
(* Theorems of Gallery, for any number of clients, images and any maximum. *)
(***************************************************************************)
EXTENDS Gallery, FiniteSetTheorems, TLAPS

-----------------------------------------------------------------------------
\* Facts about the operators of the model.

\* The numbers that bound a set.
BoundsOf(S) == {b \in Nat : \A n \in S : n <= b}

\* A set of naturals that has a bound has a greatest element, which is the
\* one Max chooses.
LEMMA MaxOfBounded ==
  ASSUME NEW S \in SUBSET Nat, S # {}, NEW b \in Nat, \A n \in S : n <= b
  PROVE  Max(S) \in S /\ \A n \in S : n <= Max(S)
<1> DEFINE R == OpToRel(<, Nat)
<1>w. IsWellFoundedOn(R, Nat)
  BY NatLessThanWellFounded, Zenon
<1>r. \A i, j \in Nat : i < j => <<i, j>> \in R
  BY DEF OpToRel
<1>n. PICK n0 \in S : TRUE
  OBVIOUS
<1> HIDE DEF R
<1> DEFINE T == BoundsOf(S)
<1>1. T \subseteq Nat /\ T # {}
  BY DEF BoundsOf
<1> HIDE DEF T
<1>2. PICK m \in T : \A c \in T : ~ (<<c, m>> \in R)
  BY <1>w, <1>1, WFMin, Zenon
<1>3. m \in Nat /\ \A n \in S : n <= m
  BY <1>2 DEF T, BoundsOf
<1>4. m \in S
  <2>1. SUFFICES ASSUME m \notin S PROVE FALSE
    OBVIOUS
  <2>2. \A n \in S : n <= m - 1
    BY <1>3, <2>1
  <2>3. m - 1 \in Nat
    BY <1>n, <1>3, <2>2
  <2>4. m - 1 \in T
    BY <2>2, <2>3 DEF T, BoundsOf
  <2>5. <<m - 1, m>> \in R
    BY <1>r, <1>3, <2>3
  <2> QED BY <1>2, <2>4, <2>5
<1>5. \E x \in S : \A y \in S : x >= y
  BY <1>3, <1>4
<1> QED BY <1>5 DEF Max

\* An order of a finite set lists each of its elements, at one position.
LEMMA OrdersOfSet ==
  ASSUME NEW S, IsFiniteSet(S), NEW order \in SetToSeqs(S)
  PROVE  /\ order \in Seq(S)
         /\ Len(order) = Cardinality(S)
         /\ \A m, n \in 1..Len(order) : m # n => order[m] # order[n]
         /\ ToSet(order) = S
<1>1. Cardinality(S) \in Nat
  BY FS_CardinalityType
<1> DEFINE D == 1..Cardinality(S)
<1>2. order \in [D -> S] /\ \A m, n \in D : m # n => order[m] # order[n]
  BY DEF SetToSeqs
<1>3. order \in Seq(S) /\ Len(order) = Cardinality(S)
  BY <1>1, <1>2
<1>4. IsFiniteSet(D) /\ Cardinality(D) = Cardinality(S)
  BY <1>1, FS_Interval
<1>5. order \in Injection(D, S)
  BY <1>2 DEF Injection, IsInjective
<1>6. order \in Surjection(D, S)
  BY <1>4, <1>5, FS_Injection
<1>7. \A s \in S : \E n \in D : order[n] = s
  BY <1>6 DEF Surjection
<1> QED BY <1>2, <1>3, <1>7 DEF ToSet

\* An image of an order has a position in it.
LEMMA PositionInOrder ==
  ASSUME NEW order \in Seq(Images), NEW n \in 1..Len(order)
  PROVE  /\ Position(order, order[n]) \in 1..Len(order)
         /\ order[Position(order, order[n])] = order[n]
  BY DEF Position

\* The order of a finite set has as many entries as the set has elements.
LEMMA OrderCounts ==
  ASSUME NEW order \in Seq(Images),
         \A m, n \in 1..Len(order) : m # n => order[m] # order[n]
  PROVE  Cardinality(ToSet(order)) = Len(order)
<1> DEFINE D == 1..Len(order)
<1>1. order \in [D -> ToSet(order)] /\ \A s \in ToSet(order) : \E n \in D : order[n] = s
  BY DEF ToSet
<1>2. order \in Bijection(D, ToSet(order))
  BY <1>1 DEF Bijection, Injection, Surjection, IsInjective
<1>3. ExistsBijection(D, ToSet(order))
  BY <1>2 DEF ExistsBijection
<1> QED BY <1>3, FS_CountingElements

\* Distinct ranks below a number are not more than that number.
LEMMA RanksCount ==
  ASSUME TypeOK, NEW n \in Nat, \A i \in gallery : rank[i] < n,
         \A i, j \in gallery : i # j => rank[i] # rank[j]
  PROVE  Cardinality(gallery) <= n
<1> DEFINE T == 0..(n - 1)
           f == [i \in gallery |-> rank[i]]
<1>1. IsFiniteSet(T) /\ Cardinality(T) = n
  BY FS_Interval
<1>2. f \in Injection(gallery, T)
  BY DEF Injection, IsInjective, TypeOK
<1> HIDE DEF f, T
<1> QED BY <1>1, <1>2, FS_Injection

-----------------------------------------------------------------------------
\* The inductive invariant of the rows and their objects.

Phases == {"idle", "put", "insert", "drop", "cascade", "reorder"}
InFlight == {p \in Requests : pc[p] \in {"put", "insert"}}

\* What the steps need beyond the types to produce values of the types: the
\* gallery is finite, so that it can be counted and listed; its ranks have a
\* greatest one; an upload has one image; and a locked row is one of those
\* its reorder lists.
RanksAreBounded == \E b \in Nat : \A i \in Images : rank[i] <= b
OneImagePerUpload == \A p \in InFlight : \E i \in Images : item[p] = {i}
LocksAreListed ==
    \A i \in Images : rowLock[i] # Nobody =>
        /\ pc[rowLock[i]] = "reorder"
        /\ i \in ToSet(list[rowLock[i]])

GalleryTyped ==
    TypeOK /\ IsFiniteSet(gallery) /\ RanksAreBounded /\ OneImagePerUpload /\ LocksAreListed

\* The images a removal of the project has read are those of no upload: they
\* had a row when it read them.
CascadesApart ==
    \A p \in InFlight, q \in Requests :
        p # q /\ pc[q] = "cascade" => item[p] \cap item[q] = {}

\* The empty gallery.
LEMMA GalleryInitTyped == Init => GalleryTyped
<1> SUFFICES ASSUME Init PROVE GalleryTyped
  OBVIOUS
<1>1. TypeOK /\ OneImagePerUpload /\ LocksAreListed
  BY GalleryAssumption DEF Init, TypeOK, OneImagePerUpload, InFlight, LocksAreListed
<1>2. IsFiniteSet(gallery)
  BY FS_EmptySet DEF Init
<1>3. RanksAreBounded
  BY DEF Init, RanksAreBounded
<1> QED BY <1>1, <1>2, <1>3 DEF GalleryTyped

\* nextGalleryOrder computes a rank above every rank of the gallery.
LEMMA NextOrderIsAbove ==
  ASSUME TypeOK, RanksAreBounded
  PROVE  NextGalleryOrder \in Nat /\ \A i \in gallery : rank[i] < NextGalleryOrder
<1> DEFINE S == {0} \cup {rank[i] + 1 : i \in gallery}
<1>1. PICK b \in Nat : \A i \in Images : rank[i] <= b
  BY DEF RanksAreBounded
<1>2. S \in SUBSET Nat /\ S # {} /\ \A n \in S : n <= b + 1
  BY <1>1 DEF TypeOK
<1>3. Max(S) \in S /\ \A n \in S : n <= Max(S)
  <2>1. b + 1 \in Nat
    OBVIOUS
  <2> HIDE DEF S
  <2> QED BY <2>1, <1>2, MaxOfBounded
<1>4. \A i \in gallery : rank[i] + 1 \in S /\ rank[i] \in Nat
  BY DEF TypeOK
<1>5. NextGalleryOrder = Max(S)
  BY DEF NextGalleryOrder
<1> HIDE DEF S
<1>6. Max(S) \in Nat /\ \A i \in gallery : rank[i] + 1 <= Max(S)
  BY <1>2, <1>3, <1>4
<1> QED BY <1>4, <1>5, <1>6

-----------------------------------------------------------------------------
\* Calls put off for later are calls about images.
LEMMA PostponedTypes ==
  ASSUME TypeOK, NEW calls \in SUBSET ({"put", "delete"} \X Images), Postponed(calls)
  PROVE  /\ late' \in SUBSET ({"put", "delete"} \X Images)
         /\ \A op \in {"put", "delete"}, i \in Images :
               <<op, i>> \in late' => <<op, i>> \in late \cup calls
  BY DEF TypeOK, Postponed

\* How a request ends that is not a reorder: only its own part of the state
\* changes.
LEMMA AnswerTypes ==
  ASSUME GalleryTyped, NEW p \in Requests, Answer(p), pc[p] # "reorder"
  PROVE  /\ pc' = [pc EXCEPT ![p] = "idle"] /\ pc' \in [Requests -> Phases]
         /\ item' = [item EXCEPT ![p] = {}] /\ item' \in [Requests -> SUBSET Images]
         /\ nextRank' \in [Requests -> Nat]
         /\ \A q \in Requests \ {p} : nextRank'[q] = nextRank[q]
         /\ InFlight' = InFlight \ {p}
         /\ OneImagePerUpload'
         /\ UNCHANGED <<rowLock, list>> => LocksAreListed'
<1> USE DEF GalleryTyped
<1>1. pc' = [pc EXCEPT ![p] = "idle"] /\ pc' \in [Requests -> Phases]
  BY DEF TypeOK, Answer, Goto, Phases
<1>2. /\ item' = [item EXCEPT ![p] = {}] /\ item' \in [Requests -> SUBSET Images]
      /\ nextRank' \in [Requests -> Nat]
      /\ \A q \in Requests \ {p} : nextRank'[q] = nextRank[q]
  BY DEF TypeOK, Answer
<1>3. InFlight' = InFlight \ {p}
  BY <1>1 DEF TypeOK, InFlight
<1>4. OneImagePerUpload'
  BY <1>2, <1>3 DEF TypeOK, OneImagePerUpload, InFlight
<1>5. UNCHANGED <<rowLock, list>> => LocksAreListed'
  BY <1>1 DEF TypeOK, LocksAreListed
<1> QED BY <1>1, <1>2, <1>3, <1>4, <1>5

\* How a transaction ends: it gives its rows back and forgets its list.
LEMMA EndReorderTypes ==
  ASSUME GalleryTyped, NEW p \in Reorderers, EndReorder(p)
  PROVE  /\ pc' = [pc EXCEPT ![p] = "idle"] /\ pc' \in [Requests -> Phases]
         /\ rowLock' \in [Images -> Reorderers \cup {Nobody}]
         /\ list' \in [Requests -> Seq(Images)]
         /\ updated' \in [Requests -> Nat]
         /\ OneImagePerUpload' /\ LocksAreListed'
<1> USE GalleryAssumption DEF Requests
<1>1. <<>> \in Seq(Images)
  OBVIOUS
<1>2. pc' = [pc EXCEPT ![p] = "idle"] /\ pc' \in [Requests -> Phases]
  BY DEF GalleryTyped, TypeOK, EndReorder, Goto, Phases
<1>3. /\ rowLock' \in [Images -> Reorderers \cup {Nobody}]
      /\ list' \in [Requests -> Seq(Images)]
      /\ updated' \in [Requests -> Nat]
  BY <1>1 DEF GalleryTyped, TypeOK, EndReorder
<1>4. OneImagePerUpload'
  BY <1>2 DEF GalleryTyped, TypeOK, EndReorder, OneImagePerUpload, InFlight
<1>5. LocksAreListed'
  BY <1>2 DEF GalleryTyped, TypeOK, EndReorder, LocksAreListed
<1> QED BY <1>2, <1>3, <1>4, <1>5

\* Every step keeps the types and adds at most one image for each upload.
LEMMA GalleryNextTyped ==
  ASSUME GalleryTyped, [Next]_vars
  PROVE  GalleryTyped'
<1> USE GalleryAssumption DEF GalleryTyped
<1>r. Requests = Uploaders \cup Removers \cup Reorderers \cup Deleters
  BY DEF Requests
<1>1. ASSUME NEW p \in Uploaders, NEW i \in Images, Check(p, i) PROVE GalleryTyped'
  <2>1. NextGalleryOrder \in Nat
    BY NextOrderIsAbove
  <2>2. TypeOK'
    <3>1. UnderWay \subseteq Images
      BY DEF TypeOK, UnderWay
    <3>2. crowded' \subseteq Images
      BY <1>1, <3>1 DEF Check, TypeOK
    <3> QED BY <1>r, <1>1, <2>1, <3>2 DEF Check, Goto, rows, store, reordering, TypeOK
  <2>3. IsFiniteSet(gallery)' /\ RanksAreBounded'
    BY <1>1 DEF Check, rows, RanksAreBounded
  <2>4. OneImagePerUpload' /\ LocksAreListed'
    BY <1>r, <1>1 DEF Check, Goto, reordering, TypeOK, OneImagePerUpload, InFlight, LocksAreListed
  <2> QED BY <2>2, <2>3, <2>4
<1>2. ASSUME NEW p \in Uploaders, Put(p) PROVE GalleryTyped'
  BY <1>r, <1>2 DEF Put, Goto, rows, reordering, TypeOK, RanksAreBounded, OneImagePerUpload,
     InFlight, LocksAreListed
<1>3. ASSUME NEW p \in Uploaders, PutFails(p) PROVE GalleryTyped'
  <2>1. {"put"} \X item[p] \in SUBSET ({"put", "delete"} \X Images)
    BY <1>r DEF TypeOK
  <2>2. late' \in SUBSET ({"put", "delete"} \X Images)
    BY <1>3, <2>1, PostponedTypes DEF PutFails
  <2> QED
    BY <1>r, <1>3, <2>2, AnswerTypes
    DEF PutFails, rows, reordering, TypeOK, Phases, RanksAreBounded
<1>4. ASSUME NEW p \in Uploaders, Insert(p) PROVE GalleryTyped'
  <2>1. PICK i \in Images : item[p] = {i}
    BY <1>r, <1>4 DEF Insert, OneImagePerUpload, InFlight
  <2>2. TypeOK'
    BY <1>r, <1>4, AnswerTypes DEF Insert, store, reordering, TypeOK, Phases
  <2>3. IsFiniteSet(gallery)'
    BY <1>4, <2>1, FS_AddElement DEF Insert
  <2>4. RanksAreBounded'
    <3>1. PICK b \in Nat : \A k \in Images : rank[k] <= b
      BY DEF RanksAreBounded
    <3>2. nextRank[p] \in Nat
      BY <1>r DEF TypeOK
    <3>3. PICK c \in Nat : b <= c /\ nextRank[p] <= c
      BY <3>1, <3>2
    <3>4. \A k \in Images : rank'[k] <= c
      BY <1>4, <3>1, <3>2, <3>3 DEF Insert, TypeOK
    <3> QED BY <3>4 DEF RanksAreBounded
  <2>5. OneImagePerUpload' /\ LocksAreListed'
    BY <1>r, <1>4, AnswerTypes DEF Insert, reordering
  <2> QED BY <2>2, <2>3, <2>4, <2>5
<1>5. ASSUME NEW p \in Uploaders, InsertFails(p) PROVE GalleryTyped'
  BY <1>r, <1>5, AnswerTypes DEF InsertFails, rows, reordering, TypeOK, Phases, RanksAreBounded
<1>6. ASSUME NEW p \in Removers, NEW i \in Images, DeleteRow(p, i) PROVE GalleryTyped'
  <2>1. TypeOK'
    BY <1>r, <1>6 DEF DeleteRow, Goto, store, reordering, TypeOK
  <2>2. IsFiniteSet(gallery)'
    BY <1>6, FS_RemoveElement DEF DeleteRow
  <2>3. RanksAreBounded'
    BY <1>6 DEF DeleteRow, RanksAreBounded, TypeOK
  <2>4. OneImagePerUpload' /\ LocksAreListed'
    BY <1>r, <1>6 DEF DeleteRow, Goto, reordering, TypeOK, OneImagePerUpload, InFlight, LocksAreListed
  <2> QED BY <2>1, <2>2, <2>3, <2>4
<1>7. ASSUME NEW p \in Removers \cup Deleters, Drop(p) PROVE GalleryTyped'
  <2>1. PICK kept \in SUBSET item[p] :
           /\ bucket' = bucket \ (item[p] \ kept)
           /\ orphans' = (orphans \cup kept) \cap bucket'
           /\ Postponed({"delete"} \X kept)
    BY <1>7 DEF Drop
  <2>2. {"delete"} \X kept \in SUBSET ({"put", "delete"} \X Images)
    BY <1>r DEF TypeOK
  <2>3. late' \in SUBSET ({"put", "delete"} \X Images)
    BY <2>1, <2>2, PostponedTypes
  <2> QED
    BY <1>r, <1>7, <2>1, <2>3, AnswerTypes
    DEF Drop, rows, reordering, TypeOK, Phases, RanksAreBounded
<1>8. ASSUME NEW p \in Deleters, ReadKeys(p) PROVE GalleryTyped'
  BY <1>r, <1>8 DEF ReadKeys, Goto, rows, store, reordering, TypeOK, RanksAreBounded,
     OneImagePerUpload, InFlight, LocksAreListed
<1>9. ASSUME NEW p \in Deleters, Cascade(p) PROVE GalleryTyped'
  <2>1. TypeOK' /\ OneImagePerUpload' /\ LocksAreListed'
    BY <1>r, <1>9 DEF Cascade, Goto, reordering, TypeOK, OneImagePerUpload, InFlight, LocksAreListed
  <2>2. IsFiniteSet(gallery)'
    BY <1>9, FS_EmptySet DEF Cascade
  <2>3. RanksAreBounded'
    BY <1>9 DEF Cascade, RanksAreBounded
  <2> QED BY <2>1, <2>2, <2>3
<1>10. ASSUME NEW p \in Deleters, CascadeFails(p) PROVE GalleryTyped'
  BY <1>r, <1>10, AnswerTypes DEF CascadeFails, rows, store, reordering, TypeOK, Phases, RanksAreBounded
<1>11. ASSUME NEW p \in Reorderers, BeginReorder(p) PROVE GalleryTyped'
  <2>1. PICK order \in SetToSeqs(gallery) : list' = [list EXCEPT ![p] = order]
    BY <1>11 DEF BeginReorder
  <2>2. order \in Seq(Images)
    BY <2>1, OrdersOfSet DEF TypeOK
  <2>3. TypeOK'
    BY <1>r, <1>11, <2>1, <2>2 DEF BeginReorder, Goto, rows, store, TypeOK
  <2>4. LocksAreListed'
    BY <1>r, <1>11, <2>1 DEF BeginReorder, Goto, TypeOK, LocksAreListed
  <2> QED
    BY <1>r, <1>11, <2>3, <2>4
    DEF BeginReorder, Goto, rows, TypeOK, RanksAreBounded, OneImagePerUpload, InFlight
<1>12. ASSUME NEW p \in Reorderers, UpdateRank(p) PROVE GalleryTyped'
  <2> DEFINE i == list[p][updated[p] + 1]
  <2>1. i \in Images /\ i \in ToSet(list[p])
    BY <1>r, <1>12 DEF UpdateRank, TypeOK, ToSet
  <2>2. TypeOK'
    BY <1>r, <1>12, <2>1 DEF UpdateRank, rows, store, TypeOK
  <2>3. LocksAreListed'
    BY <1>r, <1>12, <2>1 DEF UpdateRank, TypeOK, LocksAreListed
  <2> QED
    BY <1>12, <2>2, <2>3 DEF UpdateRank, rows, RanksAreBounded, OneImagePerUpload, InFlight
<1>13. ASSUME NEW p \in Reorderers, CommitReorder(p) PROVE GalleryTyped'
  <2>1. EndReorder(p)
    BY <1>13 DEF CommitReorder
  <2>2. PICK b \in Nat : \A k \in Images : rank[k] <= b
    BY DEF RanksAreBounded
  <2>3. Len(list[p]) \in Nat
    BY <1>r DEF TypeOK
  <2>4. PICK c \in Nat : b <= c /\ Len(list[p]) <= c
    BY <2>2, <2>3
  <2>5. ASSUME NEW i \in Images PROVE rank'[i] \in Nat /\ rank'[i] <= c
    <3>1. CASE rowLock[i] = p
      <4>1. i \in ToSet(list[p])
        BY <1>r, <3>1 DEF LocksAreListed
      <4>2. list[p] \in Seq(Images)
        BY <1>r DEF TypeOK
      <4>3. PICK n \in 1..Len(list[p]) : list[p][n] = i
        BY <4>1, <4>2 DEF ToSet
      <4>4. Position(list[p], i) \in 1..Len(list[p])
        BY <4>2, <4>3, PositionInOrder
      <4> QED BY <1>13, <2>3, <2>4, <3>1, <4>4 DEF CommitReorder, RankIn
    <3>2. CASE rowLock[i] # p
      BY <1>13, <2>2, <2>4, <3>2 DEF CommitReorder, TypeOK
    <3> QED BY <3>1, <3>2
  <2>6. rank' \in [Images -> Nat] /\ RanksAreBounded'
    BY <1>13, <2>5 DEF CommitReorder, RanksAreBounded
  <2> QED
    BY <1>13, <2>1, <2>6, EndReorderTypes DEF CommitReorder, EndReorder, store, TypeOK, Phases
<1>14. ASSUME NEW p \in Reorderers, AbortReorder(p) PROVE GalleryTyped'
  BY <1>14, EndReorderTypes DEF AbortReorder, EndReorder, store, TypeOK, Phases, RanksAreBounded
<1>15. ASSUME Crash PROVE GalleryTyped'
  <2>1. TypeOK'
    <3> DEFINE at(phases) == UNION {item[p] : p \in {q \in Requests : pc[q] \in phases}}
               calls == ({"put"} \X at({"put"})) \cup ({"delete"} \X at({"drop"}))
    <3>1. \A phases : at(phases) \subseteq Images
      BY DEF TypeOK
    <3>2. calls \in SUBSET ({"put", "delete"} \X Images) /\ Postponed(calls)
      <4>1. Postponed(calls)
        BY <1>15, Zenon DEF Crash
      <4>2. at({"put"}) \subseteq Images /\ at({"drop"}) \subseteq Images
        BY <3>1
      <4> HIDE DEF at
      <4> QED BY <4>1, <4>2
    <3>3. late' \in SUBSET ({"put", "delete"} \X Images)
      <4> HIDE DEF calls
      <4> QED BY <3>2, PostponedTypes
    <3>4. bucket' \subseteq Images /\ orphans' \subseteq Images
      <4>1. \E put \in SUBSET at({"put"}), gone \in SUBSET at({"drop"}) :
               bucket' = (bucket \cup put) \ gone
        BY <1>15 DEF Crash
      <4>2. orphans' \subseteq bucket'
        BY <1>15 DEF Crash
      <4> HIDE DEF at
      <4> QED BY <3>1, <4>1, <4>2 DEF TypeOK
    <3> QED BY <1>r, <1>15, <3>3, <3>4 DEF Crash, rows, TypeOK
  <2> QED
    BY <1>15, <2>1 DEF Crash, rows, RanksAreBounded, OneImagePerUpload, InFlight, LocksAreListed
<1>16. ASSUME UNCHANGED vars PROVE GalleryTyped'
  BY <1>16 DEF vars, rows, TypeOK, RanksAreBounded, OneImagePerUpload, InFlight, LocksAreListed
<1>17. ASSUME NEW op \in {"put", "delete"}, NEW i \in Images, Land(op, i) PROVE GalleryTyped'
  BY <1>17
  DEF Land, rows, reordering, TypeOK, RanksAreBounded, OneImagePerUpload, InFlight, LocksAreListed
<1> QED
  BY <1>1, <1>2, <1>3, <1>4, <1>5, <1>6, <1>7, <1>8, <1>9, <1>10, <1>11, <1>12, <1>13, <1>14,
     <1>15, <1>16, <1>17
  DEF Next

-----------------------------------------------------------------------------
\* The rows and their objects.

RowsInv == GalleryTyped /\ RowsStored /\ ObjectsHeld /\ LateApart /\ CascadesApart

\* An empty gallery cites nothing and has forgotten nothing.
LEMMA GalleryInitRows == Init => RowsInv /\ ObjectsAccounted
  BY GalleryInitTyped
  DEF Init, RowsInv, RowsStored, ObjectsHeld, LateApart, CascadesApart, InFlight, ObjectsAccounted,
      UnderWay

\* An image that is put or about to be inserted is in the hands of a request.
LEMMA UnderWayHeld ==
  \A i : i \in UnderWay <=> \E p \in InFlight : i \in item[p]
  BY DEF UnderWay, InFlight

\* Every step keeps the calls that were given up away from the rows.
LEMMA GalleryNextLate ==
  ASSUME RowsInv, [Next]_vars
  PROVE  LateApart'
<1> USE DEF RowsInv
<1>t. TypeOK /\ OneImagePerUpload
  BY DEF GalleryTyped
<1>r. Requests = Uploaders \cup Removers \cup Reorderers \cup Deleters
  BY DEF Requests
<1>u. \A i : i \in UnderWay' <=> \E p \in InFlight' : i \in item'[p]
  BY DEF UnderWay, InFlight
\* What neither gives an image a row or an upload nor gives up a call.
<1>s. ASSUME late' \subseteq late, gallery' \subseteq gallery \cup UnderWay, UnderWay' \subseteq UnderWay
      PROVE  LateApart'
  BY <1>s DEF LateApart
<1>a. ASSUME NEW p \in Requests, NEW phase \in {"idle", "drop", "cascade", "reorder"},
             Goto(p, phase), \A q \in Requests \ {p} : item'[q] = item[q]
      PROVE  UnderWay' \subseteq UnderWay
  BY <1>t, <1>u, <1>a, UnderWayHeld DEF Goto, InFlight, TypeOK
<1>b. ASSUME NEW p \in Requests, Answer(p) PROVE UnderWay' \subseteq UnderWay
  BY <1>t, <1>a, <1>b DEF Answer, TypeOK
<1>1. ASSUME NEW p \in Uploaders, NEW i \in Images, Check(p, i) PROVE LateApart'
  <2>1. \A op \in {"put", "delete"} : <<op, i>> \notin late
    BY <1>1 DEF Check, Fresh
  <2>2. late' = late /\ gallery' = gallery
    BY <1>1 DEF Check, rows, store
  <2>3. UnderWay' \subseteq UnderWay \cup {i}
    BY <1>t, <1>r, <1>1, <1>u, UnderWayHeld DEF Check, Goto, InFlight, TypeOK
  <2> QED BY <2>1, <2>2, <2>3 DEF LateApart
<1>2. ASSUME NEW p \in Uploaders, Put(p) PROVE LateApart'
  <2>1. UnderWay' \subseteq UnderWay
    BY <1>t, <1>r, <1>2, <1>u, UnderWayHeld DEF Put, Goto, InFlight, TypeOK
  <2> QED BY <1>s, <1>2, <2>1 DEF Put, rows
<1>3. ASSUME NEW p \in Uploaders, PutFails(p) PROVE LateApart'
  <2>1. gallery' = gallery /\ UnderWay' \subseteq UnderWay
    BY <1>r, <1>3, <1>b DEF PutFails, rows
  <2>2. {"put"} \X item[p] \in SUBSET ({"put", "delete"} \X Images)
    BY <1>t, <1>r DEF TypeOK
  <2>3. \A op \in {"put", "delete"}, i \in Images :
           <<op, i>> \in late' => <<op, i>> \in late \/ i \in item[p]
    BY <1>t, <1>3, <2>2, PostponedTypes DEF PutFails
  <2>4. \A i \in item[p] : i \notin gallery
    BY <1>r, <1>3 DEF PutFails, ObjectsHeld
  <2>5. \A i \in item[p] : i \notin UnderWay'
    <3>1. \A q \in InFlight' : q # p /\ q \in InFlight /\ item'[q] = item[q]
      BY <1>t, <1>r, <1>3 DEF PutFails, Answer, Goto, InFlight, TypeOK
    <3>2. \A q \in InFlight : q # p => item[p] \cap item[q] = {}
      BY <1>r, <1>3 DEF PutFails, ObjectsHeld, InFlight
    <3> QED BY <1>u, <3>1, <3>2
  <2> QED BY <2>1, <2>3, <2>4, <2>5 DEF LateApart
<1>4. ASSUME NEW p \in Uploaders, Insert(p) PROVE LateApart'
  <2>1. item[p] \subseteq UnderWay
    BY <1>r, <1>4, UnderWayHeld DEF Insert, InFlight
  <2> QED BY <1>r, <1>s, <1>4, <1>b, <2>1 DEF Insert, store
<1>5. ASSUME NEW p \in Uploaders, InsertFails(p) PROVE LateApart'
  BY <1>r, <1>s, <1>5, <1>b DEF InsertFails, rows
<1>6. ASSUME NEW p \in Removers, NEW i \in Images, DeleteRow(p, i) PROVE LateApart'
  <2>1. \A q \in Requests \ {p} : item'[q] = item[q]
    BY <1>t, <1>6 DEF DeleteRow, TypeOK
  <2> QED BY <1>r, <1>s, <1>6, <1>a, <2>1 DEF DeleteRow, store
<1>7. ASSUME NEW p \in Removers \cup Deleters, Drop(p) PROVE LateApart'
  <2>1. gallery' = gallery /\ UnderWay' \subseteq UnderWay
    BY <1>r, <1>7, <1>b DEF Drop, rows
  <2>2. PICK kept \in SUBSET item[p] : Postponed({"delete"} \X kept)
    BY <1>7 DEF Drop
  <2>3. {"delete"} \X kept \in SUBSET ({"put", "delete"} \X Images)
    BY <1>t, <1>r DEF TypeOK
  <2>4. \A op \in {"put", "delete"}, i \in Images :
           <<op, i>> \in late' => <<op, i>> \in late \/ i \in item[p]
    BY <1>t, <2>2, <2>3, PostponedTypes
  <2>5. \A i \in item[p] : i \notin gallery
    BY <1>r, <1>7 DEF Drop, ObjectsHeld
  <2>6. \A i \in item[p] : i \notin UnderWay
    <3>1. \A q \in InFlight : q # p /\ item[p] \cap item[q] = {}
      BY <1>r, <1>7 DEF Drop, ObjectsHeld, InFlight
    <3> QED BY <3>1, UnderWayHeld
  <2> QED BY <2>1, <2>4, <2>5, <2>6 DEF LateApart
<1>8. ASSUME NEW p \in Deleters, ReadKeys(p) \/ Cascade(p) PROVE LateApart'
  <2>1. \A q \in Requests \ {p} : item'[q] = item[q]
    BY <1>t, <1>8 DEF ReadKeys, Cascade, TypeOK
  <2> QED BY <1>r, <1>s, <1>8, <1>a, <2>1 DEF ReadKeys, Cascade, rows, store
<1>9. ASSUME NEW p \in Deleters, CascadeFails(p) PROVE LateApart'
  BY <1>r, <1>s, <1>9, <1>b DEF CascadeFails, rows, store
<1>10. ASSUME NEW p \in Reorderers, BeginReorder(p) \/ CommitReorder(p) \/ AbortReorder(p)
       PROVE  LateApart'
  BY <1>r, <1>s, <1>10, <1>a DEF BeginReorder, CommitReorder, AbortReorder, EndReorder, rows, store
<1>11. ASSUME NEW p \in Reorderers, UpdateRank(p) PROVE LateApart'
  BY <1>s, <1>11 DEF UpdateRank, rows, store, UnderWay
<1>12. ASSUME Crash PROVE LateApart'
  <2> DEFINE at(phases) == UNION {item[p] : p \in {q \in Requests : pc[q] \in phases}}
             calls == ({"put"} \X at({"put"})) \cup ({"delete"} \X at({"drop"}))
  <2>1. at({"put"}) \cap gallery = {} /\ at({"drop"}) \cap gallery = {}
    BY DEF ObjectsHeld
  <2>2. \A phases : at(phases) \subseteq Images
    BY <1>t DEF TypeOK
  <2>3. calls \in SUBSET ({"put", "delete"} \X Images) /\ Postponed(calls)
    <3>1. Postponed(calls)
      BY <1>12, Zenon DEF Crash
    <3>2. at({"put"}) \subseteq Images /\ at({"drop"}) \subseteq Images
      BY <2>2
    <3> HIDE DEF at
    <3> QED BY <3>1, <3>2
  <2>4. \A op \in {"put", "delete"}, i \in Images : <<op, i>> \in calls => i \notin gallery
    BY <2>1
  <2>5. UnderWay' = {} /\ gallery' = gallery
    BY <1>u, <1>12 DEF Crash, rows, InFlight
  <2> HIDE DEF calls
  <2>6. \A op \in {"put", "delete"}, i \in Images :
           <<op, i>> \in late' => <<op, i>> \in late \cup calls
    BY <1>t, <2>3, PostponedTypes
  <2> QED BY <2>4, <2>5, <2>6 DEF LateApart
<1>13. ASSUME NEW op \in {"put", "delete"}, NEW i \in Images, Land(op, i) PROVE LateApart'
  BY <1>s, <1>13 DEF Land, rows, UnderWay
<1>14. ASSUME UNCHANGED vars PROVE LateApart'
  BY <1>s, <1>14 DEF vars, UnderWay
<1> QED
  BY <1>1, <1>2, <1>3, <1>4, <1>5, <1>6, <1>7, <1>8, <1>9, <1>10, <1>11, <1>12, <1>13, <1>14
  DEF Next

\* Every step keeps the objects of the rows.
LEMMA GalleryNextRows ==
  ASSUME RowsInv, [Next]_vars
  PROVE  RowsInv'
<1> USE DEF RowsInv
<1>t. TypeOK /\ OneImagePerUpload /\ GalleryTyped' /\ LateApart'
  BY GalleryNextTyped, GalleryNextLate DEF GalleryTyped
<1>r. Requests = Uploaders \cup Removers \cup Reorderers \cup Deleters
  BY DEF Requests
<1> DEFINE Goal == RowsStored' /\ ObjectsHeld' /\ CascadesApart'
<1> USE DEF RowsStored, ObjectsHeld, CascadesApart, InFlight, TypeOK
<1>1. ASSUME NEW p \in Uploaders, NEW i \in Images, Check(p, i) PROVE Goal
  <2>1. \A q \in Requests : i \notin item[q]
    BY <1>t, <1>r, <1>1 DEF Check, Fresh
  <2>2. i \notin gallery /\ i \notin bucket
    BY <1>1 DEF Check, Fresh
  <2> QED BY <1>t, <1>r, <1>1, <2>1, <2>2 DEF Check, Goto, rows, store
<1>2. ASSUME NEW p \in Uploaders, Put(p) PROVE Goal
  BY <1>t, <1>r, <1>2 DEF Put, Goto, rows
<1>3. ASSUME NEW p \in Uploaders, PutFails(p) PROVE Goal
  BY <1>t, <1>r, <1>3 DEF PutFails, Answer, Goto, rows
<1>4. ASSUME NEW p \in Uploaders, Insert(p) PROVE Goal
  BY <1>t, <1>r, <1>4 DEF Insert, Answer, Goto, store
<1>5. ASSUME NEW p \in Uploaders, InsertFails(p) PROVE Goal
  BY <1>t, <1>r, <1>5 DEF InsertFails, Answer, Goto, rows
<1>6. ASSUME NEW p \in Removers, NEW i \in Images, DeleteRow(p, i) PROVE Goal
  BY <1>t, <1>r, <1>6 DEF DeleteRow, Goto, store
<1>7. ASSUME NEW p \in Removers \cup Deleters, Drop(p) PROVE Goal
  BY <1>t, <1>r, <1>7 DEF Drop, Answer, Goto, rows
<1>8. ASSUME NEW p \in Deleters, ReadKeys(p) PROVE Goal
  BY <1>t, <1>r, <1>8 DEF ReadKeys, Goto, rows, store
<1>9. ASSUME NEW p \in Deleters, Cascade(p) PROVE Goal
  BY <1>t, <1>r, <1>9 DEF Cascade, Goto
<1>10. ASSUME NEW p \in Deleters, CascadeFails(p) PROVE Goal
  BY <1>t, <1>r, <1>10 DEF CascadeFails, Answer, Goto, rows, store
<1>11. ASSUME NEW p \in Reorderers, BeginReorder(p) PROVE Goal
  BY <1>t, <1>r, <1>11 DEF BeginReorder, Goto, rows, store
<1>12. ASSUME NEW p \in Reorderers, UpdateRank(p) PROVE Goal
  BY <1>t, <1>r, <1>12 DEF UpdateRank, rows, store
<1>13. ASSUME NEW p \in Reorderers, CommitReorder(p) PROVE Goal
  BY <1>t, <1>r, <1>13 DEF CommitReorder, EndReorder, Goto, store
<1>14. ASSUME NEW p \in Reorderers, AbortReorder(p) PROVE Goal
  BY <1>t, <1>r, <1>14 DEF AbortReorder, EndReorder, Goto, store
<1>15. ASSUME Crash PROVE Goal
  <2>1. /\ gallery' = gallery
        /\ \A p \in Requests : pc'[p] = "idle" /\ item'[p] = {}
    BY <1>15 DEF Crash, rows
  <2>2. gallery \subseteq bucket'
    BY <1>t, <1>15 DEF Crash
  <2> QED BY <2>1, <2>2
<1>16. ASSUME UNCHANGED vars PROVE Goal
  BY <1>16 DEF vars, rows, store
<1>17. ASSUME NEW op \in {"put", "delete"}, NEW i \in Images, Land(op, i) PROVE Goal
  <2>1. i \notin gallery /\ \A p \in Requests : pc[p] = "insert" => i \notin item[p]
    BY <1>17, UnderWayHeld DEF Land, LateApart
  <2> QED BY <1>t, <1>17, <2>1 DEF Land, rows
<1> QED
  BY <1>t, <1>1, <1>2, <1>3, <1>4, <1>5, <1>6, <1>7, <1>8, <1>9, <1>10, <1>11, <1>12, <1>13,
     <1>14, <1>15, <1>16, <1>17
  DEF Next

\* Every step leaves an object to its row, to a request or to the log.
LEMMA GalleryNextAccounted ==
  ASSUME TypeOK, ObjectsAccounted, [Next]_vars
  PROVE  ObjectsAccounted'
<1>r. Requests = Uploaders \cup Removers \cup Reorderers \cup Deleters
  BY DEF Requests
<1> USE DEF ObjectsAccounted, TypeOK
<1>1. ASSUME NEW p \in Uploaders, NEW i \in Images, Check(p, i) PROVE ObjectsAccounted'
  BY <1>r, <1>1 DEF Check, Goto, rows, store
<1>2. ASSUME NEW p \in Uploaders, Put(p) PROVE ObjectsAccounted'
  BY <1>r, <1>2 DEF Put, Goto, rows
<1>3. ASSUME NEW p \in Uploaders, PutFails(p) PROVE ObjectsAccounted'
  BY <1>r, <1>3 DEF PutFails, Answer, Goto, rows
<1>4. ASSUME NEW p \in Uploaders, Insert(p) PROVE ObjectsAccounted'
  BY <1>r, <1>4 DEF Insert, Answer, Goto, store
<1>5. ASSUME NEW p \in Uploaders, InsertFails(p) PROVE ObjectsAccounted'
  BY <1>r, <1>5 DEF InsertFails, Answer, Goto, rows
<1>6. ASSUME NEW p \in Removers, NEW i \in Images, DeleteRow(p, i) PROVE ObjectsAccounted'
  BY <1>r, <1>6 DEF DeleteRow, Goto, store
<1>7. ASSUME NEW p \in Removers \cup Deleters, Drop(p) PROVE ObjectsAccounted'
  BY <1>r, <1>7 DEF Drop, Answer, Goto, rows
<1>8. ASSUME NEW p \in Deleters, ReadKeys(p) PROVE ObjectsAccounted'
  BY <1>r, <1>8 DEF ReadKeys, Goto, rows, store
<1>9. ASSUME NEW p \in Deleters, Cascade(p) PROVE ObjectsAccounted'
  BY <1>r, <1>9 DEF Cascade, Goto
<1>10. ASSUME NEW p \in Deleters, CascadeFails(p) PROVE ObjectsAccounted'
  BY <1>r, <1>10 DEF CascadeFails, Answer, Goto, rows, store
<1>11. ASSUME NEW p \in Reorderers, BeginReorder(p) PROVE ObjectsAccounted'
  BY <1>r, <1>11 DEF BeginReorder, Goto, rows, store
<1>12. ASSUME NEW p \in Reorderers, UpdateRank(p) PROVE ObjectsAccounted'
  BY <1>r, <1>12 DEF UpdateRank, rows, store
<1>13. ASSUME NEW p \in Reorderers, CommitReorder(p) PROVE ObjectsAccounted'
  BY <1>r, <1>13 DEF CommitReorder, EndReorder, Goto, store
<1>14. ASSUME NEW p \in Reorderers, AbortReorder(p) PROVE ObjectsAccounted'
  BY <1>r, <1>14 DEF AbortReorder, EndReorder, Goto, store
<1>15. ASSUME Crash PROVE ObjectsAccounted'
  BY <1>r, <1>15 DEF Crash, rows
<1>16. ASSUME UNCHANGED vars PROVE ObjectsAccounted'
  BY <1>16 DEF vars, rows, store
<1>17. ASSUME NEW op \in {"put", "delete"}, NEW i \in Images, Land(op, i) PROVE ObjectsAccounted'
  BY <1>17 DEF Land, rows
<1> QED
  BY <1>1, <1>2, <1>3, <1>4, <1>5, <1>6, <1>7, <1>8, <1>9, <1>10, <1>11, <1>12, <1>13, <1>14,
     <1>15, <1>16, <1>17
  DEF Next

\* A row of the gallery always has its object, and what makes it so always
\* holds, whatever uploads, removals, reorders and the removal of the project
\* interleave, fail or stop.
THEOREM GalleryRowsStored == Spec => []IInv
<1>1. RowsInv /\ [Next]_vars => RowsInv'
  BY GalleryNextRows
<1>2. RowsInv => IInv
  BY DEF RowsInv, GalleryTyped, IInv
<1> QED BY GalleryInitRows, <1>1, <1>2, PTL DEF Spec

\* A stored object without a row is in the hands of a request that will drop
\* it or give it a row, or it was given up at a known place.
THEOREM GalleryObjectsAccounted == Spec => []ObjectsAccounted
<1> DEFINE Inv == RowsInv /\ ObjectsAccounted
<1>1. Inv /\ [Next]_vars => Inv'
  BY GalleryNextRows, GalleryNextAccounted DEF RowsInv, GalleryTyped
<1> QED BY GalleryInitRows, <1>1, PTL DEF Spec

-----------------------------------------------------------------------------
\* The number of images.

Uploading == Uploaders \cap InFlight

\* Each upload that has found the gallery not full may add one image.
RoomIsShared ==
    Cardinality(gallery) + Cardinality(Uploading) <= GalleryMax + Cardinality(Uploaders) - 1

\* An empty gallery has room.
LEMMA GalleryInitRoom ==
  ASSUME IsFiniteSet(Uploaders), Init
  PROVE  RoomIsShared
<1>1. gallery = {} /\ Uploading = {}
  BY DEF Init, Uploading, InFlight, Requests
<1>2. Cardinality(Uploaders) \in Nat
  BY FS_CardinalityType
<1> QED BY <1>1, <1>2, FS_EmptySet, GalleryAssumption DEF RoomIsShared

\* Every step keeps the images beyond the maximum below the uploads that are under way.
LEMMA GalleryNextRoom ==
  ASSUME IsFiniteSet(Uploaders), GalleryTyped, RoomIsShared, [Next]_vars
  PROVE  RoomIsShared'
<1> USE GalleryAssumption DEF RoomIsShared
<1>t. TypeOK /\ IsFiniteSet(gallery) /\ OneImagePerUpload
  BY DEF GalleryTyped
<1>r. Requests = Uploaders \cup Removers \cup Reorderers \cup Deleters
  BY DEF Requests
<1>c. /\ IsFiniteSet(Uploading)
      /\ Cardinality(gallery) \in Nat
      /\ Cardinality(Uploaders) \in Nat
      /\ Cardinality(Uploading) \in Nat
      /\ Cardinality(Uploading) <= Cardinality(Uploaders)
  <2>1. Uploading \in SUBSET Uploaders
    BY DEF Uploading
  <2>2. IsFiniteSet(Uploading) /\ Cardinality(Uploading) <= Cardinality(Uploaders)
    BY <2>1, FS_Subset
  <2> QED BY <1>t, <2>2, FS_CardinalityType
\* What takes no room: the gallery does not grow, no upload begins.
<1>s. ASSUME gallery' \subseteq gallery, Uploading' \subseteq Uploading PROVE RoomIsShared'
  <2>1. /\ IsFiniteSet(gallery') /\ Cardinality(gallery') <= Cardinality(gallery)
        /\ IsFiniteSet(Uploading') /\ Cardinality(Uploading') <= Cardinality(Uploading)
    BY <1>t, <1>c, <1>s, FS_Subset
  <2>2. Cardinality(gallery') \in Nat /\ Cardinality(Uploading') \in Nat
    BY <2>1, FS_CardinalityType
  <2> QED BY <1>c, <2>1, <2>2
<1>1. ASSUME NEW p \in Uploaders, NEW i \in Images, Check(p, i) PROVE RoomIsShared'
  <2>1. Cardinality(gallery) < GalleryMax /\ gallery' = gallery
    BY <1>1, <1>c DEF Check, Full, rows
  <2>2. Uploading' \in SUBSET Uploaders
    BY DEF Uploading
  <2>3. Cardinality(Uploading') \in Nat /\ Cardinality(Uploading') <= Cardinality(Uploaders)
    BY <2>2, FS_Subset, FS_CardinalityType
  <2> QED BY <1>c, <2>1, <2>3
<1>2. ASSUME NEW p \in Uploaders, Put(p) PROVE RoomIsShared'
  <2>1. gallery' = gallery /\ Uploading' \subseteq Uploading
    BY <1>t, <1>r, <1>2 DEF Put, Goto, rows, Uploading, InFlight, TypeOK
  <2> QED BY <1>s, <2>1
<1>3. ASSUME NEW p \in Uploaders, Insert(p) PROVE RoomIsShared'
  <2>1. PICK i \in Images : item[p] = {i}
    BY <1>t, <1>r, <1>3 DEF Insert, OneImagePerUpload, InFlight
  <2>g. gallery' = gallery \cup {i}
    BY <1>3, <2>1 DEF Insert
  <2>2. /\ Cardinality(gallery') \in Nat
        /\ Cardinality(gallery') <= Cardinality(gallery) + 1
    <3>1. /\ IsFiniteSet(gallery')
          /\ Cardinality(gallery') =
                IF i \in gallery THEN Cardinality(gallery) ELSE Cardinality(gallery) + 1
      BY <1>t, <2>g, FS_AddElement
    <3> QED BY <1>c, <3>1, FS_CardinalityType
  <2>3. p \in Uploading
    BY <1>r, <1>3 DEF Insert, Uploading, InFlight
  <2>4. Uploading' = Uploading \ {p}
    BY <1>r, <1>3, AnswerTypes DEF Insert, Uploading
  <2>5. Cardinality(Uploading') = Cardinality(Uploading) - 1
    BY <1>c, <2>3, <2>4, FS_RemoveElement
  <2> QED BY <1>c, <2>2, <2>5
<1>4. ASSUME NEW p \in Requests, Answer(p), pc[p] # "reorder", gallery' = gallery
      PROVE  RoomIsShared'
  <2>1. Uploading' \subseteq Uploading
    BY <1>4, AnswerTypes DEF Uploading
  <2> QED BY <1>s, <1>4, <2>1
<1>5. ASSUME NEW p \in Uploaders, PutFails(p) \/ InsertFails(p) PROVE RoomIsShared'
  BY <1>r, <1>4, <1>5 DEF PutFails, InsertFails, rows
<1>6. ASSUME NEW p \in Removers \cup Deleters, Drop(p) PROVE RoomIsShared'
  BY <1>r, <1>4, <1>6 DEF Drop, rows
<1>7. ASSUME NEW p \in Deleters, CascadeFails(p) PROVE RoomIsShared'
  BY <1>r, <1>4, <1>7 DEF CascadeFails, rows
<1>8. ASSUME NEW p \in Requests, NEW phase \in {"idle", "drop", "cascade", "reorder"},
             Goto(p, phase), gallery' \subseteq gallery
      PROVE  RoomIsShared'
  <2>1. Uploading' \subseteq Uploading
    BY <1>t, <1>8 DEF Goto, Uploading, InFlight, TypeOK
  <2> QED BY <1>s, <1>8, <2>1
<1>9. ASSUME NEW p \in Removers, NEW i \in Images, DeleteRow(p, i) PROVE RoomIsShared'
  BY <1>r, <1>8, <1>9 DEF DeleteRow
<1>10. ASSUME NEW p \in Deleters, ReadKeys(p) \/ Cascade(p) PROVE RoomIsShared'
  BY <1>r, <1>8, <1>10 DEF ReadKeys, Cascade, rows
<1>11. ASSUME NEW p \in Reorderers, BeginReorder(p) \/ CommitReorder(p) \/ AbortReorder(p)
       PROVE  RoomIsShared'
  BY <1>r, <1>8, <1>11 DEF BeginReorder, CommitReorder, AbortReorder, EndReorder, rows
<1>12. ASSUME NEW p \in Reorderers, UpdateRank(p) PROVE RoomIsShared'
  BY <1>s, <1>12 DEF UpdateRank, rows, Uploading, InFlight
<1>13. ASSUME Crash PROVE RoomIsShared'
  BY <1>s, <1>13 DEF Crash, rows, Uploading, InFlight
<1>14. ASSUME UNCHANGED vars PROVE RoomIsShared'
  BY <1>s, <1>14 DEF vars, rows, Uploading, InFlight
<1>15. ASSUME NEW op \in {"put", "delete"}, NEW i \in Images, Land(op, i) PROVE RoomIsShared'
  BY <1>s, <1>15 DEF Land, rows, Uploading, InFlight
<1> QED
  BY <1>1, <1>2, <1>3, <1>5, <1>6, <1>7, <1>9, <1>10, <1>11, <1>12, <1>13, <1>14, <1>15 DEF Next

\* The unserialised check of the maximum costs at most one image for each
\* other client that uploads at the same time.
THEOREM GalleryOvershootBounded ==
  ASSUME IsFiniteSet(Uploaders)
  PROVE  Spec => []BoundedOvershoot
<1> DEFINE Inv == GalleryTyped /\ RoomIsShared
<1>1. Init => Inv
  BY GalleryInitTyped, GalleryInitRoom
<1>2. Inv /\ [Next]_vars => Inv'
  BY GalleryNextTyped, GalleryNextRoom
<1>3. Inv => BoundedOvershoot
  <2> SUFFICES ASSUME Inv PROVE BoundedOvershoot
    OBVIOUS
  <2>1. Uploading \in SUBSET Uploaders
    BY DEF Uploading
  <2>2. IsFiniteSet(Uploading)
    BY <2>1, FS_Subset
  <2>3. /\ Cardinality(gallery) \in Nat
        /\ Cardinality(Uploading) \in Nat
        /\ Cardinality(Uploaders) \in Nat
    BY <2>2, FS_CardinalityType DEF GalleryTyped
  <2> QED BY <2>3, GalleryAssumption DEF RoomIsShared, BoundedOvershoot
<1> QED BY <1>1, <1>2, <1>3, PTL DEF Spec

-----------------------------------------------------------------------------
\* The ranks.

\* What a reorder lists is listed once, none of it is an image that is still
\* on its way, and what it has updated and is still there is locked by it.
Holds(p) ==
    /\ \A m, n \in 1..Len(list[p]) : m # n => list[p][m] # list[p][n]
    /\ \A q \in InFlight : item[q] \cap ToSet(list[p]) = {}
    /\ pc[p] = "reorder" =>
          /\ updated[p] <= Len(list[p])
          /\ \A n \in 1..updated[p] :
                list[p][n] \in gallery => rowLock[list[p][n]] = p

ReordersHold == \A p \in Reorderers : Holds(p)

\* Of uploads that run side by side, each one's image is crowded.
UploadsAlone ==
    \A p, q \in Uploaders \cap InFlight : p # q => item[p] \subseteq crowded

\* The rank that any other upload carries is above those of the gallery, and
\* not below the number of its images: after a reorder the ranks are the
\* positions from 0, and it is above those too.
NextRankIsAbove ==
    \A p \in Uploaders \cap InFlight : item[p] \cap crowded = {} =>
        /\ \A i \in gallery : rank[i] < nextRank[p]
        /\ Cardinality(gallery) <= nextRank[p]

RanksInv == ReordersHold /\ UploadsAlone /\ (~missed => RanksDistinct /\ NextRankIsAbove)

\* No rank at the start.
LEMMA GalleryInitRanks == Init => RanksInv
<1> SUFFICES ASSUME Init PROVE RanksInv
  OBVIOUS
<1>1. ReordersHold
  BY DEF Init, ReordersHold, Holds, InFlight, Requests
<1>2. RanksDistinct /\ NextRankIsAbove /\ UploadsAlone
  BY DEF Init, RanksDistinct, NextRankIsAbove, UploadsAlone, InFlight, Requests
<1> QED BY <1>1, <1>2 DEF RanksInv

\* Every step keeps what the reorders have read, locked and numbered.
LEMMA GalleryNextReorders ==
  ASSUME RowsInv, ReordersHold, [Next]_vars
  PROVE  ReordersHold'
<1> USE GalleryAssumption DEF RowsInv, GalleryTyped
<1>t. TypeOK /\ OneImagePerUpload /\ IsFiniteSet(gallery) /\ ObjectsHeld
  OBVIOUS
<1>r. Requests = Uploaders \cup Removers \cup Reorderers \cup Deleters
  BY DEF Requests
<1> USE DEF ReordersHold, Holds, InFlight, TypeOK
<1>1. ASSUME NEW p \in Uploaders, NEW i \in Images, Check(p, i) PROVE ReordersHold'
  <2>1. \A q \in Reorderers : i \notin ToSet(list[q])
    BY <1>r, <1>1 DEF Check, Fresh
  <2> QED BY <1>t, <1>r, <1>1, <2>1 DEF Check, Goto, rows, reordering
<1>2. ASSUME NEW p \in Uploaders, Put(p) PROVE ReordersHold'
  BY <1>t, <1>r, <1>2 DEF Put, Goto, rows, reordering
<1>3. ASSUME NEW p \in Requests, Answer(p), pc[p] # "reorder",
             gallery' \subseteq gallery, UNCHANGED reordering
      PROVE  ReordersHold'
  BY <1>t, <1>3 DEF Answer, Goto, reordering
<1>4. ASSUME NEW p \in Uploaders, Insert(p) PROVE ReordersHold'
  <2>1. \A q \in Reorderers : item[p] \cap ToSet(list[q]) = {}
    BY <1>r, <1>4 DEF Insert
  <2>2. \A q \in Reorderers : \A n \in 1..Len(list[q]) : list[q][n] \in ToSet(list[q])
    BY <1>t, <1>r DEF ToSet
  <2> QED BY <1>t, <1>r, <1>4, <2>1, <2>2 DEF Insert, Answer, Goto, reordering
<1>5. ASSUME NEW p \in Uploaders, PutFails(p) \/ InsertFails(p) PROVE ReordersHold'
  BY <1>r, <1>3, <1>5 DEF PutFails, InsertFails, rows
<1>6. ASSUME NEW p \in Removers \cup Deleters, Drop(p) PROVE ReordersHold'
  BY <1>r, <1>3, <1>6 DEF Drop, rows
<1>7. ASSUME NEW p \in Deleters, CascadeFails(p) PROVE ReordersHold'
  BY <1>r, <1>3, <1>7 DEF CascadeFails, rows
<1>8. ASSUME NEW p \in Removers, NEW i \in Images, DeleteRow(p, i) PROVE ReordersHold'
  BY <1>t, <1>r, <1>8 DEF DeleteRow, Goto, reordering
<1>9. ASSUME NEW p \in Deleters, ReadKeys(p) \/ Cascade(p) PROVE ReordersHold'
  <2>1. /\ pc[p] # "reorder" /\ pc' = [pc EXCEPT ![p] = pc'[p]]
        /\ pc'[p] \in {"cascade", "drop"}
    BY <1>t, <1>r, <1>9 DEF ReadKeys, Cascade, Goto
  <2>2. gallery' \subseteq gallery /\ UNCHANGED reordering
    BY <1>9 DEF ReadKeys, Cascade, rows
  <2>3. InFlight' \subseteq InFlight /\ \A q \in InFlight' : item'[q] = item[q]
    BY <1>t, <1>r, <1>9 DEF ReadKeys, Cascade, Goto
  <2> QED BY <1>t, <1>r, <2>1, <2>2, <2>3 DEF reordering
<1>10. ASSUME NEW p \in Reorderers, BeginReorder(p) PROVE ReordersHold'
  <2>1. PICK order \in SetToSeqs(gallery) : list' = [list EXCEPT ![p] = order]
    BY <1>10 DEF BeginReorder
  <2>2. /\ order \in Seq(gallery)
        /\ \A m, n \in 1..Len(order) : m # n => order[m] # order[n]
        /\ ToSet(order) = gallery
    BY <1>t, <2>1, OrdersOfSet
  <2>3. list'[p] = order /\ \A q \in Reorderers \ {p} : list'[q] = list[q]
    BY <1>t, <1>r, <2>1
  <2>4. InFlight' = InFlight /\ item' = item
    BY <1>t, <1>r, <1>10 DEF BeginReorder, Goto
  <2>5. \A q \in InFlight : item[q] \cap gallery = {}
    BY <1>t DEF ObjectsHeld
  <2>6. \A q \in Reorderers \ {p} : pc'[q] = pc[q] /\ updated'[q] = updated[q]
    BY <1>t, <1>r, <1>10 DEF BeginReorder, Goto
  <2>7. updated'[p] = 0 /\ Len(order) \in Nat
    BY <1>t, <1>r, <1>10, <2>2 DEF BeginReorder
  <2>8. gallery' = gallery /\ rowLock' = rowLock
    BY <1>10 DEF BeginReorder, rows
  <2> HIDE DEF TypeOK, InFlight
  <2>9. Holds(p)'
    BY <2>2, <2>3, <2>4, <2>5, <2>7
  <2>10. ASSUME NEW q \in Reorderers, q # p PROVE Holds(q)'
    BY <2>3, <2>4, <2>6, <2>8, <2>10
  <2> QED BY <2>9, <2>10
<1>11. ASSUME NEW p \in Reorderers, UpdateRank(p) PROVE ReordersHold'
  <2> DEFINE i == list[p][updated[p] + 1]
  <2>1. updated[p] + 1 \in 1..Len(list[p]) /\ i \in Images /\ updated[p] \in Nat
    BY <1>t, <1>r, <1>11 DEF UpdateRank
  <2>2. updated' = [updated EXCEPT ![p] = @ + 1] /\ UNCHANGED <<pc, item, list, gallery>>
    BY <1>11 DEF UpdateRank, rows
  <2>3. /\ rowLock[i] = Nobody
        /\ i \in gallery => rowLock'[i] = p
        /\ \A k \in Images \ {i} : rowLock'[k] = rowLock[k]
    BY <1>t, <1>11, <2>1 DEF UpdateRank
  <2>4. ASSUME NEW q \in Reorderers, pc[q] = "reorder", NEW n \in 1..updated'[q],
               list[q][n] \in gallery
        PROVE  rowLock'[list[q][n]] = q
    <3>1. CASE q = p /\ n = updated[p] + 1
      BY <2>3, <2>4, <3>1
    <3>2. CASE ~ (q = p /\ n = updated[p] + 1)
      <4>1. n \in 1..updated[q]
        BY <1>t, <1>r, <2>1, <2>2, <2>4, <3>2
      <4>2. rowLock[list[q][n]] = q
        BY <2>4, <4>1
      <4>3. list[q][n] # i
        BY <1>r, <2>3, <4>2
      <4> QED BY <1>t, <2>3, <2>4, <4>2, <4>3
    <3> QED BY <3>1, <3>2
  <2>5. \A q \in Reorderers : pc[q] = "reorder" => updated'[q] <= Len(list[q])
    BY <1>t, <1>r, <2>1, <2>2
  <2>6. InFlight' = InFlight
    BY <2>2
  <2> HIDE DEF TypeOK, InFlight
  <2> QED BY <2>2, <2>4, <2>5, <2>6
<1>12. ASSUME NEW p \in Reorderers, EndReorder(p) PROVE ReordersHold'
  <2>1. list'[p] = <<>> /\ pc'[p] = "idle"
    BY <1>t, <1>r, <1>12 DEF EndReorder, Goto
  <2>2. \A q \in Reorderers \ {p} :
           list'[q] = list[q] /\ pc'[q] = pc[q] /\ updated'[q] = updated[q]
    BY <1>t, <1>r, <1>12 DEF EndReorder, Goto
  <2>3. \A i \in Images : rowLock[i] # p => rowLock'[i] = rowLock[i]
    BY <1>12 DEF EndReorder
  <2>4. InFlight' \subseteq InFlight /\ item' = item /\ gallery' = gallery
    BY <1>t, <1>12 DEF EndReorder, Goto
  <2>5. ToSet(list'[p]) = {} /\ Len(list'[p]) = 0
    BY <2>1 DEF ToSet
  <2>6. Holds(p)'
    BY <2>1, <2>5
  <2>7. ASSUME NEW q \in Reorderers, q # p PROVE Holds(q)'
    <3>1. \A n \in 1..Len(list[q]) : list[q][n] \in Images
      BY <1>t, <1>r
    <3>2. updated[q] \in Nat /\ Len(list[q]) \in Nat
      BY <1>t, <1>r
    <3>3. ASSUME pc[q] = "reorder", NEW n \in 1..updated[q], list[q][n] \in gallery
          PROVE  rowLock'[list[q][n]] = q
      BY <2>3, <2>7, <3>1, <3>2, <3>3
    <3> QED BY <2>2, <2>4, <2>7, <3>3
  <2> QED BY <2>6, <2>7
<1>13. ASSUME NEW p \in Reorderers, CommitReorder(p) \/ AbortReorder(p) PROVE ReordersHold'
  BY <1>12, <1>13 DEF CommitReorder, AbortReorder
<1>14. ASSUME Crash PROVE ReordersHold'
  BY <1>r, <1>14 DEF Crash
<1>15. ASSUME UNCHANGED vars PROVE ReordersHold'
  BY <1>15 DEF vars
<1>16. ASSUME NEW op \in {"put", "delete"}, NEW i \in Images, Land(op, i) PROVE ReordersHold'
  BY <1>16 DEF Land, rows, reordering
<1> QED
  BY <1>1, <1>2, <1>4, <1>5, <1>6, <1>7, <1>8, <1>9, <1>10, <1>11, <1>13, <1>14, <1>15, <1>16
  DEF Next

\* The reorder that lists the whole gallery numbers it from 0.
LEMMA CommitNumbersGallery ==
  ASSUME RowsInv, ReordersHold, NEW p \in Reorderers, CommitReorder(p),
         ToSet(list[p]) = gallery
  PROVE  /\ \A i \in gallery : rank'[i] < Cardinality(gallery)
         /\ \A i, j \in gallery : i # j => rank'[i] # rank'[j]
<1>t. TypeOK /\ Holds(p) /\ p \in Requests
  BY DEF RowsInv, GalleryTyped, ReordersHold, Requests
<1>1. /\ list[p] \in Seq(Images)
      /\ \A m, n \in 1..Len(list[p]) : m # n => list[p][m] # list[p][n]
  BY <1>t DEF TypeOK, Holds
<1>2. Cardinality(gallery) = Len(list[p])
  BY <1>1, OrderCounts
<1>3. ASSUME NEW i \in gallery
      PROVE  /\ rank'[i] \in Nat /\ rank'[i] < Len(list[p])
             /\ list[p][rank'[i] + 1] = i
  <2>1. PICK n \in 1..Len(list[p]) : list[p][n] = i
    BY <1>1 DEF ToSet
  <2>2. rowLock[i] = p
    BY <1>t, <2>1 DEF CommitReorder, Holds
  <2>3. Position(list[p], i) \in 1..Len(list[p]) /\ list[p][Position(list[p], i)] = i
    BY <1>1, <2>1, PositionInOrder
  <2>4. rank'[i] = Position(list[p], i) - 1
    BY <1>t, <2>2 DEF CommitReorder, RankIn, TypeOK
  <2> QED BY <1>1, <2>3, <2>4
<1> QED BY <1>2, <1>3

\* Every step leaves the images of uploads that run side by side crowded.
LEMMA GalleryNextAlone ==
  ASSUME GalleryTyped, UploadsAlone, [Next]_vars
  PROVE  UploadsAlone'
<1>t. TypeOK /\ OneImagePerUpload
  BY DEF GalleryTyped
<1>r. Requests = Uploaders \cup Removers \cup Reorderers \cup Deleters
  BY DEF Requests
<1>s. ASSUME InFlight' \subseteq InFlight, \A q \in InFlight' : item'[q] = item[q], crowded' = crowded
      PROVE  UploadsAlone'
  BY <1>s DEF UploadsAlone
<1>1. ASSUME NEW p \in Uploaders, NEW i \in Images, Check(p, i) PROVE UploadsAlone'
  <2>1. /\ pc[p] = "idle" /\ pc' = [pc EXCEPT ![p] = "put"] /\ item' = [item EXCEPT ![p] = {i}]
        /\ crowded' = (crowded \cap gallery) \cup UnderWay
                         \cup (IF Tied \/ UnderWay # {} THEN {i} ELSE {})
    BY <1>1 DEF Check, Goto
  <2>2. /\ InFlight' = InFlight \cup {p} /\ p \notin InFlight /\ item'[p] = {i}
        /\ \A q \in InFlight : item'[q] = item[q]
    BY <1>t, <1>r, <2>1 DEF InFlight, TypeOK
  <2>3. \A q \in InFlight : item[q] \subseteq UnderWay /\ item[q] # {}
    BY <1>t, UnderWayHeld DEF OneImagePerUpload
  <2>4. ASSUME NEW q \in InFlight PROVE item'[q] \subseteq crowded' /\ item'[p] \subseteq crowded'
    BY <2>1, <2>2, <2>3
  <2> QED BY <2>2, <2>4 DEF UploadsAlone
<1>2. ASSUME NEW p \in Uploaders, Put(p) PROVE UploadsAlone'
  BY <1>t, <1>r, <1>s, <1>2 DEF Put, Goto, InFlight, TypeOK
<1>3. ASSUME NEW p \in Requests, Answer(p), pc[p] # "reorder", crowded' = crowded
      PROVE  UploadsAlone'
  <2>1. InFlight' = InFlight \ {p} /\ item' = [item EXCEPT ![p] = {}]
    BY <1>3, AnswerTypes
  <2> QED BY <1>s, <1>3, <1>t, <2>1 DEF TypeOK, InFlight
<1>4. ASSUME NEW p \in Uploaders, PutFails(p) \/ Insert(p) \/ InsertFails(p) PROVE UploadsAlone'
  BY <1>r, <1>3, <1>4 DEF PutFails, Insert, InsertFails
<1>5. ASSUME NEW p \in Removers \cup Deleters, Drop(p) PROVE UploadsAlone'
  BY <1>r, <1>3, <1>5 DEF Drop
<1>6. ASSUME NEW p \in Deleters, CascadeFails(p) PROVE UploadsAlone'
  BY <1>r, <1>3, <1>6 DEF CascadeFails
<1>7. ASSUME NEW p \in Requests, NEW phase \in {"idle", "drop", "cascade", "reorder"},
             Goto(p, phase), \A q \in Requests \ {p} : item'[q] = item[q], crowded' = crowded
      PROVE  UploadsAlone'
  <2>1. InFlight' \subseteq InFlight /\ p \notin InFlight'
    BY <1>t, <1>7 DEF Goto, InFlight, TypeOK
  <2> QED BY <1>s, <1>7, <2>1 DEF InFlight
<1>8. ASSUME NEW p \in Removers, NEW i \in Images, DeleteRow(p, i) PROVE UploadsAlone'
  <2>1. \A q \in Requests \ {p} : item'[q] = item[q]
    BY <1>t, <1>8 DEF DeleteRow, TypeOK
  <2> QED BY <1>r, <1>7, <1>8, <2>1 DEF DeleteRow
<1>9. ASSUME NEW p \in Deleters, ReadKeys(p) \/ Cascade(p) PROVE UploadsAlone'
  <2>1. \A q \in Requests \ {p} : item'[q] = item[q]
    BY <1>t, <1>9 DEF ReadKeys, Cascade, TypeOK
  <2> QED BY <1>r, <1>7, <1>9, <2>1 DEF ReadKeys, Cascade
<1>10. ASSUME NEW p \in Reorderers, BeginReorder(p) \/ CommitReorder(p) \/ AbortReorder(p)
       PROVE  UploadsAlone'
  BY <1>r, <1>7, <1>10 DEF BeginReorder, CommitReorder, AbortReorder, EndReorder
<1>11. ASSUME NEW p \in Reorderers, UpdateRank(p) PROVE UploadsAlone'
  BY <1>s, <1>11 DEF UpdateRank, InFlight
<1>12. ASSUME NEW op \in {"put", "delete"}, NEW i \in Images, Land(op, i) PROVE UploadsAlone'
  BY <1>s, <1>12 DEF Land, InFlight
<1>13. ASSUME Crash PROVE UploadsAlone'
  BY <1>s, <1>13 DEF Crash, InFlight
<1>14. ASSUME UNCHANGED vars PROVE UploadsAlone'
  BY <1>s, <1>14 DEF vars, InFlight
<1> QED
  BY <1>1, <1>2, <1>4, <1>5, <1>6, <1>8, <1>9, <1>10, <1>11, <1>12, <1>13, <1>14 DEF Next

\* Every step keeps the ranks apart, or notes that a reorder has missed an image.
LEMMA GalleryNextRanks ==
  ASSUME RowsInv, RanksInv, [Next]_vars
  PROVE  RanksInv'
<1>t. TypeOK /\ OneImagePerUpload /\ RanksAreBounded /\ IsFiniteSet(gallery) /\ GalleryTyped
  BY DEF RowsInv, GalleryTyped
<1>r. Requests = Uploaders \cup Removers \cup Reorderers \cup Deleters
  BY DEF Requests
<1>c. Cardinality(gallery) \in Nat
  BY <1>t, FS_CardinalityType
<1>h. ReordersHold /\ ReordersHold' /\ UploadsAlone /\ UploadsAlone'
  BY <1>t, GalleryNextReorders, GalleryNextAlone DEF RanksInv
<1> DEFINE Ranked == RanksDistinct /\ NextRankIsAbove
<1> SUFFICES ASSUME ~missed' PROVE Ranked'
  BY <1>h DEF RanksInv
\* What changes no rank, adds no image and begins no upload.
<1>s. ASSUME ~missed, gallery' \subseteq gallery, \A i \in gallery' : rank'[i] = rank[i],
             (Uploaders \cap InFlight)' \subseteq Uploaders \cap InFlight,
             \A p \in (Uploaders \cap InFlight)' : nextRank'[p] = nextRank[p] /\ item'[p] = item[p],
             crowded' = crowded
      PROVE  Ranked'
  <2>1. Cardinality(gallery') \in Nat /\ Cardinality(gallery') <= Cardinality(gallery)
    BY <1>t, <1>s, FS_Subset, FS_CardinalityType
  <2>2. RanksDistinct'
    BY <1>s DEF RanksInv, RanksDistinct
  <2>3. \A p \in (Uploaders \cap InFlight)' : nextRank[p] \in Nat
    BY <1>t, <1>r DEF TypeOK
  <2>4. NextRankIsAbove'
    BY <1>s, <1>c, <2>1, <2>3 DEF RanksInv, NextRankIsAbove
  <2> QED BY <2>2, <2>4
<1>1. ASSUME NEW p \in Uploaders, NEW i \in Images, Check(p, i) PROVE Ranked'
  <2>1. ~missed /\ UNCHANGED <<gallery, rank>>
    BY <1>1 DEF Check, rows, reordering
  <2>2. NextGalleryOrder \in Nat /\ \A k \in gallery : rank[k] < NextGalleryOrder
    BY <1>t, NextOrderIsAbove
  <2>3. /\ pc' = [pc EXCEPT ![p] = "put"] /\ item' = [item EXCEPT ![p] = {i}]
        /\ nextRank' = [nextRank EXCEPT ![p] = NextGalleryOrder]
        /\ crowded' = (crowded \cap gallery) \cup UnderWay
                         \cup (IF Tied \/ UnderWay # {} THEN {i} ELSE {})
    BY <1>1 DEF Check, Goto
  <2>4. RanksDistinct'
    BY <2>1, <2>3 DEF RanksInv, RanksDistinct
  <2>5. ASSUME NEW q \in (Uploaders \cap InFlight)', item'[q] \cap crowded' = {}
        PROVE  q = p /\ ~Tied
    <3>1. CASE q # p
      <4>1. q \in InFlight /\ item'[q] = item[q]
        BY <1>t, <1>r, <2>3, <2>5, <3>1 DEF InFlight, TypeOK
      <4>2. item[q] \subseteq UnderWay /\ item[q] # {}
        BY <1>t, <4>1, UnderWayHeld DEF OneImagePerUpload
      <4> QED BY <2>3, <2>5, <4>1, <4>2
    <3>2. CASE q = p
      <4>1. item'[q] = {i}
        BY <1>t, <1>r, <2>3, <3>2 DEF TypeOK
      <4> QED BY <2>3, <2>5, <3>2, <4>1
    <3> QED BY <3>1, <3>2
  <2>6. nextRank'[p] = NextGalleryOrder
    BY <1>t, <1>r, <2>3 DEF TypeOK
  <2>7. ~Tied => Cardinality(gallery) <= NextGalleryOrder
    BY <1>t, <2>2, RanksCount DEF Tied
  <2> QED BY <2>1, <2>2, <2>4, <2>5, <2>6, <2>7 DEF NextRankIsAbove
<1>2. ASSUME NEW p \in Uploaders, Put(p) PROVE Ranked'
  <2>1. (Uploaders \cap InFlight)' \subseteq Uploaders \cap InFlight
    BY <1>t, <1>r, <1>2 DEF Put, Goto, TypeOK, InFlight
  <2> QED BY <1>s, <1>2, <2>1 DEF Put, rows, reordering
<1>3. ASSUME NEW p \in Uploaders, Insert(p) PROVE Ranked'
  <2>1. PICK i \in Images : item[p] = {i}
    BY <1>t, <1>r, <1>3 DEF Insert, OneImagePerUpload, InFlight
  <2>2. ~missed /\ p \in Uploaders \cap InFlight /\ crowded' = crowded
    BY <1>r, <1>3 DEF Insert, reordering, InFlight
  <2>3. RanksDistinct /\ NextRankIsAbove
    BY <2>2 DEF RanksInv
  <2>4. \A k \in gallery : rank[k] \in Nat /\ k \in Images
    BY <1>t DEF TypeOK
  <2>5. nextRank[p] \in Nat
    BY <1>t, <1>r DEF TypeOK
  <2>6. /\ rank'[i] = nextRank[p]
        /\ \A k \in gallery \ {i} : rank'[k] = rank[k]
        /\ gallery' = gallery \cup {i}
    BY <1>3, <2>1, <2>4 DEF Insert
  <2>7. (InFlight)' = InFlight \ {p} /\ item' = [item EXCEPT ![p] = {}]
    BY <1>t, <1>r, <1>3, AnswerTypes DEF Insert
  <2>8. RanksDistinct'
    <3>1. CASE i \in crowded
      BY <2>2, <2>3, <2>6, <3>1 DEF RanksDistinct
    <3>2. CASE i \notin crowded
      <4>1. \A k \in gallery : rank[k] < nextRank[p]
        BY <2>1, <2>2, <2>3, <3>2 DEF NextRankIsAbove
      <4> QED BY <2>2, <2>3, <2>4, <2>5, <2>6, <4>1 DEF RanksDistinct
    <3> QED BY <3>1, <3>2
  <2>9. ASSUME NEW q \in (Uploaders \cap InFlight)' PROVE item'[q] \cap crowded' # {}
    <3>1. q \in InFlight /\ q # p /\ q \in Uploaders
      BY <2>7, <2>9
    <3>2. item[q] \subseteq crowded /\ item[q] # {}
      BY <1>h, <1>t, <2>2, <3>1 DEF UploadsAlone, OneImagePerUpload
    <3>3. item'[q] = item[q]
      BY <1>t, <2>7, <3>1 DEF TypeOK, InFlight
    <3> QED BY <2>2, <3>2, <3>3
  <2> QED BY <2>8, <2>9 DEF NextRankIsAbove
<1>4. ASSUME NEW p \in Requests, Answer(p), pc[p] # "reorder",
             UNCHANGED <<gallery, rank, missed, crowded>>
      PROVE  Ranked'
  <2>1. InFlight' = InFlight \ {p} /\ \A q \in Requests \ {p} : nextRank'[q] = nextRank[q]
    BY <1>t, <1>4, AnswerTypes
  <2>2. \A q \in Requests \ {p} : item'[q] = item[q]
    BY <1>t, <1>4 DEF Answer, TypeOK
  <2> QED BY <1>r, <1>s, <1>4, <2>1, <2>2
<1>5. ASSUME NEW p \in Uploaders, PutFails(p) \/ InsertFails(p) PROVE Ranked'
  BY <1>r, <1>4, <1>5 DEF PutFails, InsertFails, rows, reordering
<1>6. ASSUME NEW p \in Removers \cup Deleters, Drop(p) PROVE Ranked'
  BY <1>r, <1>4, <1>6 DEF Drop, rows, reordering
<1>7. ASSUME NEW p \in Deleters, CascadeFails(p) PROVE Ranked'
  BY <1>r, <1>4, <1>7 DEF CascadeFails, rows, reordering
<1>8. ASSUME NEW p \in Requests, NEW phase \in {"idle", "drop", "cascade", "reorder"},
             Goto(p, phase), ~missed, nextRank' = nextRank, gallery' \subseteq gallery,
             \A i \in gallery' : rank'[i] = rank[i],
             \A q \in Requests \ {p} : item'[q] = item[q], crowded' = crowded
      PROVE  Ranked'
  <2>1. InFlight' \subseteq InFlight /\ p \notin InFlight'
    BY <1>t, <1>8 DEF Goto, InFlight, TypeOK
  <2> QED BY <1>r, <1>s, <1>8, <2>1
<1>9. ASSUME NEW p \in Removers, NEW i \in Images, DeleteRow(p, i) PROVE Ranked'
  <2>1. ~missed /\ nextRank' = nextRank /\ gallery' = gallery \ {i} /\ Goto(p, "drop")
    BY <1>9 DEF DeleteRow, reordering
  <2>2. /\ \A k \in gallery' : rank'[k] = rank[k]
        /\ \A q \in Requests \ {p} : item'[q] = item[q]
    BY <1>t, <1>9 DEF DeleteRow, TypeOK
  <2> QED BY <1>r, <1>8, <1>9, <2>1, <2>2 DEF DeleteRow
<1>10. ASSUME NEW p \in Deleters, ReadKeys(p) \/ Cascade(p) PROVE Ranked'
  <2>1. \A q \in Requests \ {p} : item'[q] = item[q]
    BY <1>t, <1>10 DEF ReadKeys, Cascade, TypeOK
  <2> QED BY <1>r, <1>8, <1>10, <2>1 DEF ReadKeys, Cascade, rows, reordering
<1>11. ASSUME NEW p \in Reorderers, BeginReorder(p) \/ AbortReorder(p) PROVE Ranked'
  BY <1>r, <1>8, <1>11 DEF BeginReorder, AbortReorder, EndReorder, rows
<1>12. ASSUME NEW p \in Reorderers, UpdateRank(p) PROVE Ranked'
  BY <1>s, <1>12 DEF UpdateRank, rows, InFlight
<1>13. ASSUME NEW p \in Reorderers, CommitReorder(p) PROVE Ranked'
  <2>1. ~missed /\ ToSet(list[p]) = gallery
    BY <1>13 DEF CommitReorder
  <2>2. /\ \A i \in gallery : rank'[i] < Cardinality(gallery)
        /\ \A i, j \in gallery : i # j => rank'[i] # rank'[j]
    BY <1>h, <1>13, <2>1, CommitNumbersGallery
  <2>3. /\ UNCHANGED <<gallery, nextRank, item, crowded>> /\ InFlight' \subseteq InFlight
    BY <1>t, <1>13 DEF CommitReorder, EndReorder, Goto, InFlight, TypeOK
  <2>4. RanksDistinct'
    BY <2>2, <2>3 DEF RanksDistinct
  <2>5. ASSUME NEW u \in (Uploaders \cap InFlight)', item'[u] \cap crowded' = {}
        PROVE  /\ Cardinality(gallery) <= nextRank[u]
               /\ \A i \in gallery : rank'[i] < nextRank[u]
    <3>1. Cardinality(gallery) <= nextRank[u] /\ nextRank[u] \in Nat
      BY <1>t, <1>r, <2>1, <2>3, <2>5 DEF RanksInv, NextRankIsAbove, TypeOK
    <3>2. \A i \in gallery : rank'[i] \in Nat
      BY <1>t, <1>13, GalleryNextTyped DEF Next, GalleryTyped, TypeOK
    <3> QED BY <1>c, <2>2, <3>1, <3>2
  <2> QED BY <2>3, <2>4, <2>5 DEF NextRankIsAbove
<1>14. ASSUME Crash PROVE Ranked'
  <2>1. InFlight' = {}
    BY <1>14 DEF Crash, InFlight
  <2> QED BY <1>s, <1>14, <2>1 DEF Crash, rows
<1>15. ASSUME UNCHANGED vars PROVE Ranked'
  BY <1>s, <1>15 DEF vars, rows, InFlight
<1>16. ASSUME NEW op \in {"put", "delete"}, NEW i \in Images, Land(op, i) PROVE Ranked'
  BY <1>s, <1>16 DEF Land, rows, reordering, InFlight
<1> QED
  BY <1>1, <1>2, <1>3, <1>5, <1>6, <1>7, <1>9, <1>10, <1>11, <1>12, <1>13, <1>14, <1>15, <1>16
  DEF Next

\* No two images of the gallery share a rank unless one of them was uploaded
\* beside another one or onto a gallery with such a pair, whatever reorders,
\* removals and crashes interleave with the uploads, as long as every reorder
\* that committed had listed the whole gallery.
THEOREM GalleryRanksDistinct == Spec => []RanksDistinct
<1> DEFINE Inv == RowsInv /\ RanksInv
<1>1. Init => Inv
  BY GalleryInitRows, GalleryInitRanks
<1>2. Inv /\ [Next]_vars => Inv'
  BY GalleryNextRows, GalleryNextRanks
<1>3. Inv => RanksDistinct
  BY DEF RanksInv, RanksDistinct
<1> QED BY <1>1, <1>2, <1>3, PTL DEF Spec
=============================================================================
