--------------------------- MODULE PortraitProofs ---------------------------
(***************************************************************************)
(* Theorems of Portrait, for any number of requests and keys, and of       *)
(* ProfileDocument, the text on the same row, for any number of windows,   *)
(* texts and versions.                                                     *)
(***************************************************************************)
EXTENDS ProfileDocument, TLAPS

-----------------------------------------------------------------------------
\* A row without portrait.
LEMMA InitInv == Init => IInv
  BY ConstantsAssumption
  DEF Init, IInv, TypeOK, LockDiscipline, CitedStored, PageCited, Cited, Row,
      EmptyRow, Key, NoPage, Phases

\* How a request ends, whichever way it got there: only its own part of the
\* state changes.
LEMMA DiscardTypes ==
  ASSUME TypeOK, NEW p \in Requests, NEW k \in Key, Discard(p, k)
  PROVE  /\ pc' \in [Requests -> Phases]
         /\ key' \in [Requests -> Key]
         /\ seen' \in [Requests -> Row]
         /\ pc'[p] \in {"idle", "cleanup"}
         /\ pc'[p] = "cleanup" => key'[p] # NoKey
         /\ \A q \in Requests \ {p} :
               pc'[q] = pc[q] /\ key'[q] = key[q] /\ seen'[q] = seen[q]
<1>1. EmptyRow \in Row
  BY DEF EmptyRow, Row, Key
<1>2. CASE k = NoKey
  BY <1>1, <1>2 DEF TypeOK, Discard, Answer, Phases, Key
<1>3. CASE k # NoKey
  BY <1>1, <1>3 DEF TypeOK, Discard, ToCleanup, Phases
<1> QED BY <1>2, <1>3

\* A request that answers forgets what it held.
LEMMA AnswerTypes ==
  ASSUME TypeOK, NEW p \in Requests, Answer(p)
  PROVE  /\ pc' \in [Requests -> Phases]
         /\ key' \in [Requests -> Key]
         /\ seen' \in [Requests -> Row]
         /\ pc'[p] = "idle"
         /\ \A q \in Requests \ {p} :
               pc'[q] = pc[q] /\ key'[q] = key[q] /\ seen'[q] = seen[q]
  BY DEF TypeOK, Answer, Phases, Key, Row, EmptyRow

\* What an upload and a deletion leave of the objects, remembered ones
\* included: only a deletion under the lock takes one out of both sets.
LEMMA StoreKeeps ==
  ASSUME TypeOK, NEW keys \in SUBSET Keys, Store(keys)
  PROVE  /\ bucket' \in SUBSET Keys /\ struck' \in SUBSET Keys
         /\ bucket \cup struck \subseteq bucket' \cup struck'
         /\ keys \subseteq bucket' /\ bucket' = bucket \cup keys
  BY DEF TypeOK, Store

LEMMA RemoveKeeps ==
  ASSUME TypeOK, NEW keys \in SUBSET Keys, NEW protected \in BOOLEAN, Remove(keys, protected)
  PROVE  /\ bucket' \in SUBSET Keys /\ struck' \in SUBSET Keys /\ bucket' \subseteq bucket
         /\ (bucket \cup struck) \ keys \subseteq bucket' \cup struck'
         /\ ~protected => bucket \cup struck \subseteq bucket' \cup struck'
<1>1. CASE protected
  BY <1>1 DEF TypeOK, Remove
<1>2. CASE ~protected
  BY <1>2 DEF TypeOK, Remove
<1> QED BY <1>1, <1>2

\* Calls put off for later are calls about objects.
LEMMA PostponedTypes ==
  ASSUME TypeOK, NEW calls \in SUBSET ({"put", "delete"} \X Keys), Postponed(calls)
  PROVE  late' \in SUBSET ({"put", "delete"} \X Keys)
  BY DEF TypeOK, Postponed

\* Every step of a request, of the store, of the page and of the process.
LEMMA NextInv ==
  ASSUME IInv, [Next]_vars
  PROVE  IInv'
<1> USE ConstantsAssumption
<1>t. TypeOK /\ LockDiscipline /\ CitedStored /\ PageCited
  BY DEF IInv
<1> DEFINE Goal == TypeOK' /\ LockDiscipline' /\ CitedStored' /\ PageCited'
<1> USE DEF storeVars, requestVars
<1>1. ASSUME NEW p \in Requests, NEW k \in Key, Request(p, k) PROVE Goal
  BY <1>t, <1>1 DEF Request, TypeOK, LockDiscipline, CitedStored, PageCited, Cited, Phases
<1>2. ASSUME NEW p \in Requests, BeginChange(p) PROVE Goal
  <2>1. CASE key[p] = row.portrait
    BY <1>t, <1>2, <2>1, AnswerTypes
    DEF BeginChange, LockProfileRow, TypeOK, LockDiscipline, CitedStored, PageCited, Cited
  <2>2. CASE key[p] # row.portrait
    BY <1>t, <1>2, <2>2
    DEF BeginChange, LockProfileRow, TypeOK, LockDiscipline, CitedStored, PageCited, Cited, Phases
  <2> QED BY <2>1, <2>2
<1>3. ASSUME NEW p \in Requests, GiveUpChange(p) PROVE Goal
  BY <1>t, <1>3, AnswerTypes
  DEF GiveUpChange, TypeOK, LockDiscipline, CitedStored, PageCited, Cited
<1>4. ASSUME NEW p \in Requests, Upload(p) PROVE Goal
  <2>1. {key[p]} \in SUBSET Keys
    BY <1>t, <1>4 DEF Upload, TypeOK, LockDiscipline, Key
  <2>2. /\ bucket' \in SUBSET Keys /\ struck' \in SUBSET Keys
        /\ bucket \cup struck \subseteq bucket' \cup struck'
        /\ key[p] \in bucket'
    BY <1>t, <1>4, <2>1, StoreKeeps DEF Upload
  <2> QED
    BY <1>t, <1>4, <2>2
    DEF Upload, TypeOK, LockDiscipline, CitedStored, PageCited, Cited, Key, Phases
<1>5. ASSUME NEW p \in Requests, UploadFails(p) PROVE Goal
  <2>1. key[p] \in Keys
    BY <1>t, <1>5 DEF UploadFails, TypeOK, LockDiscipline, Key
  <2>2. late' \in SUBSET ({"put", "delete"} \X Keys)
    BY <1>t, <1>5, <2>1, PostponedTypes DEF UploadFails, Abandon
  <2>3. /\ bucket' \in SUBSET Keys /\ struck' \in SUBSET Keys
        /\ bucket \cup struck \subseteq bucket' \cup struck'
    <3>1. PICK put \in SUBSET {key[p]} : Store(put)
      BY <1>5 DEF UploadFails
    <3> QED BY <1>t, <2>1, <3>1, StoreKeeps
  <2> QED
    BY <1>t, <1>5, <2>1, <2>2, <2>3, DiscardTypes
    DEF UploadFails, Release, TypeOK, LockDiscipline, CitedStored, PageCited, Cited, Key
<1>6. ASSUME NEW p \in Requests, Write(p) PROVE Goal
  <2>1. /\ row' = [portrait |-> key[p], previous |-> row.portrait]
        /\ row' \in Row /\ lock' = Nobody /\ bucket' = bucket /\ struck' = struck /\ late' = late
        /\ Discard(p, seen[p].previous) /\ seen[p].previous \in Key
    BY <1>t, <1>6 DEF Write, Slide, NextRow, Release, TypeOK, LockDiscipline, Row
  <2>2. CitedStored'
    BY <1>t, <1>6, <2>1 DEF Write, CitedStored, Cited, LockDiscipline
  <2>3. LockDiscipline'
    BY <1>t, <1>6, <2>1, DiscardTypes DEF Write, LockDiscipline, TypeOK
  <2>4. PageCited' /\ page' \in [key : Key, age : {0, 1}]
    BY <1>t, <1>6, <2>1 DEF Write, Slide, NextRow, PageCited, NoPage, TypeOK, Key
  <2>5. TypeOK'
    BY <1>t, <1>6, <2>1, <2>4, DiscardTypes DEF Write, Slide, NextRow, TypeOK
  <2> QED BY <2>2, <2>3, <2>4, <2>5
<1>7. ASSUME NEW p \in Requests, WriteFails(p) PROVE Goal
  BY <1>t, <1>7, DiscardTypes
  DEF WriteFails, Release, TypeOK, LockDiscipline, CitedStored, PageCited, Cited
<1>8. ASSUME NEW p \in Requests, WriteUnacknowledged(p) PROVE Goal
  <2>1. /\ row' = [portrait |-> key[p], previous |-> row.portrait]
        /\ row' \in Row /\ lock' = Nobody /\ bucket' = bucket /\ struck' = struck /\ late' = late
        /\ Discard(p, key[p]) /\ key[p] \in Key /\ seen[p].previous \in Key
    BY <1>t, <1>8 DEF WriteUnacknowledged, Slide, NextRow, Release, TypeOK, LockDiscipline, Row
  <2>2. CitedStored'
    BY <1>t, <1>8, <2>1 DEF WriteUnacknowledged, CitedStored, Cited, LockDiscipline
  <2>3. LockDiscipline'
    BY <1>t, <1>8, <2>1, DiscardTypes DEF WriteUnacknowledged, LockDiscipline, TypeOK
  <2>4. PageCited' /\ page' \in [key : Key, age : {0, 1}]
    BY <1>t, <1>8, <2>1 DEF WriteUnacknowledged, Slide, NextRow, PageCited, NoPage, TypeOK, Key
  <2>5. TypeOK'
    BY <1>t, <1>8, <2>1, <2>4, DiscardTypes DEF WriteUnacknowledged, Slide, NextRow, TypeOK, Key
  <2> QED BY <2>2, <2>3, <2>4, <2>5
<1>9. ASSUME NEW p \in Requests, BeginCleanup(p) PROVE Goal
  <2>1. CASE Keeps(key[p])
    BY <1>t, <1>9, <2>1, AnswerTypes
    DEF BeginCleanup, LockProfileRow, TypeOK, LockDiscipline, CitedStored, PageCited, Cited
  <2>2. CASE ~Keeps(key[p])
    BY <1>t, <1>9, <2>2
    DEF BeginCleanup, LockProfileRow, Keeps, TypeOK, LockDiscipline, CitedStored, PageCited, Cited, Phases
  <2> QED BY <2>1, <2>2
<1>10. ASSUME NEW p \in Requests, GiveUpCleanup(p) PROVE Goal
  BY <1>t, <1>10, AnswerTypes
  DEF GiveUpCleanup, TypeOK, LockDiscipline, CitedStored, PageCited, Cited, Key
<1>11. ASSUME NEW p \in Requests, Delete(p) PROVE Goal
  <2>1. key[p] \in Keys
    BY <1>t, <1>11 DEF Delete, TypeOK, LockDiscipline, Key
  <2>2. /\ bucket' \in SUBSET Keys /\ struck' \in SUBSET Keys
        /\ (bucket \cup struck) \ {key[p]} \subseteq bucket' \cup struck'
        /\ lock # p => bucket \cup struck \subseteq bucket' \cup struck'
    BY <1>t, <1>11, <2>1, RemoveKeeps DEF Delete
  <2> QED
    BY <1>t, <1>11, <2>1, <2>2, AnswerTypes
    DEF Delete, Release, TypeOK, LockDiscipline, CitedStored, PageCited, Cited
<1>12. ASSUME NEW p \in Requests, DeleteFails(p) PROVE Goal
  <2>1. key[p] \in Keys
    BY <1>t, <1>12 DEF DeleteFails, TypeOK, LockDiscipline, Key
  <2>2. late' \in SUBSET ({"put", "delete"} \X Keys)
    BY <1>t, <1>12, <2>1, PostponedTypes DEF DeleteFails, Abandon
  <2>3. /\ bucket' \in SUBSET Keys /\ struck' \in SUBSET Keys
        /\ (bucket \cup struck) \ {key[p]} \subseteq bucket' \cup struck'
        /\ lock # p => bucket \cup struck \subseteq bucket' \cup struck'
    <3>1. PICK gone \in SUBSET {key[p]} : Remove(gone, lock = p)
      BY <1>12 DEF DeleteFails
    <3> QED BY <1>t, <2>1, <3>1, RemoveKeeps
  <2> QED
    BY <1>t, <1>12, <2>1, <2>2, <2>3, AnswerTypes
    DEF DeleteFails, Release, TypeOK, LockDiscipline, CitedStored, PageCited, Cited
<1>13. ASSUME NEW p \in Requests, LoseLock(p) PROVE Goal
  BY <1>t, <1>13 DEF LoseLock, TypeOK, LockDiscipline, CitedStored, PageCited, Cited
<1>14. ASSUME NEW op \in {"put", "delete"}, NEW k \in Keys, Land(op, k) PROVE Goal
  <2>1. /\ bucket' \in SUBSET Keys /\ struck' \in SUBSET Keys
        /\ bucket \cup struck \subseteq bucket' \cup struck'
    BY <1>t, <1>14, StoreKeeps, RemoveKeeps DEF Land
  <2> QED
    BY <1>t, <1>14, <2>1 DEF Land, TypeOK, LockDiscipline, CitedStored, PageCited, Cited, Key
<1>15. ASSUME ServePage PROVE Goal
  BY <1>t, <1>15 DEF ServePage, TypeOK, LockDiscipline, CitedStored, PageCited, Cited, Row
<1>16. ASSUME Crash PROVE Goal
  <2> DEFINE InFlight(phase) == {key[p] : p \in {q \in Requests : pc[q] = phase}}
             owed == {key[p] : p \in {q \in Requests : pc[q] \in Responsible}} \ {NoKey}
  <2>1. InFlight("upload") \subseteq Keys /\ owed \subseteq Keys
    BY <1>t DEF TypeOK, LockDiscipline, Key
  <2>2. InFlight("delete") \subseteq Keys
    BY <1>t DEF TypeOK, LockDiscipline, Key
  <2>3. late' \in SUBSET ({"put", "delete"} \X Keys)
    <3>1. ({"put"} \X InFlight("upload")) \cup ({"delete"} \X InFlight("delete"))
             \in SUBSET ({"put", "delete"} \X Keys)
      BY <2>1, <2>2
    <3> QED BY <1>t, <1>16, <3>1, PostponedTypes DEF Crash
  <2>4. PICK put \in SUBSET InFlight("upload"), gone \in SUBSET InFlight("delete") :
           /\ bucket' = (bucket \cup put) \ gone
           /\ struck' = (struck \ put) \cup (gone \cap (bucket \cup put))
    BY <1>16 DEF Crash
  <2>5. leaked' \subseteq Keys
    BY <1>t, <1>16, <2>1 DEF Crash, TypeOK
  <2>6. CitedStored' /\ bucket' \subseteq Keys /\ struck' \subseteq Keys
    <3>1. bucket' \subseteq Keys /\ struck' \subseteq Keys
      BY <1>t, <2>1, <2>2, <2>4 DEF TypeOK
    <3>2. bucket \cup struck \subseteq bucket' \cup struck'
      BY <2>4
    <3> QED BY <1>t, <1>16, <3>1, <3>2 DEF Crash, CitedStored, Cited
  <2>7. EmptyRow \in Row
    BY DEF EmptyRow, Row, Key
  <2>8. TypeOK'
    BY <1>t, <1>16, <2>3, <2>5, <2>6, <2>7 DEF Crash, TypeOK, Phases, Key
  <2>a. lock' = Nobody /\ \A q \in Requests : pc'[q] = "idle"
    BY <1>16 DEF Crash
  <2>9. LockDiscipline'
    BY <1>t, <2>a DEF LockDiscipline
  <2>10. PageCited'
    BY <1>t, <1>16 DEF Crash, PageCited
  <2> QED BY <2>6, <2>8, <2>9, <2>10
<1>17. ASSUME UNCHANGED vars PROVE Goal
  BY <1>t, <1>17 DEF vars, TypeOK, LockDiscipline, CitedStored, PageCited, Cited
<1> QED
  BY <1>1, <1>2, <1>3, <1>4, <1>5, <1>6, <1>7, <1>8, <1>9, <1>10, <1>11, <1>12,
     <1>13, <1>14, <1>15, <1>16, <1>17 DEF Next, Progress, IInv

\* The invariant on which the other theorems rest.
THEOREM Invariance == Spec => []IInv
<1>1. IInv /\ [Next]_vars => IInv'
  BY NextInv
<1> QED BY InitInv, <1>1, PTL DEF Spec

\* The state stays well typed (row, bucket, requests of the service).
THEOREM TypeCorrect == Spec => []TypeOK
<1>1. IInv => TypeOK
  BY DEF IInv
<1> QED BY Invariance, <1>1, PTL

\* A locked deletion never removes a cited object (comment of the service).
THEOREM CitedAlwaysStored == Spec => []CitedStored
<1>1. IInv => CitedStored
  BY DEF IInv
<1> QED BY Invariance, <1>1, PTL

\* A page already served shows its image until the second change after it.
THEOREM ServedPageAlwaysShows == Spec => []ServedPageShows
<1>1. IInv => ServedPageShows
  BY DEF IInv, TypeOK, CitedStored, PageCited, Cited, ServedPageShows
<1> QED BY Invariance, <1>1, PTL

-----------------------------------------------------------------------------
\* Whatever ends a request, the key it has to look at is cited, gone, in the
\* log, or still somebody's.
LEMMA OrphansStayAccounted ==
  ASSUME IInv, OrphansAccounted, [Next]_vars
  PROVE  OrphansAccounted'
<1> USE ConstantsAssumption
<1>t. TypeOK /\ LockDiscipline
  BY DEF IInv
<1> DEFINE Owes(p, k) == pc[p] \in Responsible /\ key[p] = k
           Told(k) == k \in journal \cup leaked
           NowOwes(p, k) == pc'[p] \in Responsible /\ key'[p] = k
           NowTold(k) == k \in journal' \cup leaked'
<1>o. \A k \in bucket \ Cited : Told(k) \/ \E p \in Requests : Owes(p, k)
  BY DEF OrphansAccounted
<1>1. ASSUME NEW p \in Requests, UNCHANGED row,
             \A q \in Requests \ {p} : pc'[q] = pc[q] /\ key'[q] = key[q],
             journal \cup leaked \subseteq journal' \cup leaked',
             bucket' \subseteq bucket \cup {key[p]},
             pc[p] \in Responsible /\ key[p] \in bucket' \ Cited =>
                NowOwes(p, key[p]) \/ NowTold(key[p]),
             key[p] \in bucket' \ (bucket \cup Cited) => pc[p] \in Responsible
      PROVE  OrphansAccounted'
  <2>1. Cited' = Cited
    BY <1>1 DEF Cited
  <2>2. ASSUME NEW k \in bucket' \ Cited
        PROVE  NowTold(k) \/ \E q \in Requests : NowOwes(q, k)
    <3>1. CASE k \notin bucket
      <4>1. k = key[p] /\ pc[p] \in Responsible
        BY <1>1, <2>2, <3>1
      <4> QED BY <1>1, <2>2, <4>1
    <3>2. CASE k \in bucket /\ Told(k)
      BY <1>1, <3>2
    <3>3. CASE \E q \in Requests : Owes(q, k)
      <4>1. PICK q \in Requests : Owes(q, k)
        BY <3>3
      <4>2. CASE q = p
        BY <1>1, <2>2, <4>1, <4>2
      <4>3. CASE q # p
        BY <1>1, <4>1, <4>3
      <4> QED BY <4>2, <4>3
    <3> QED BY <1>o, <2>2, <3>1, <3>2, <3>3
  <2> QED BY <2>1, <2>2 DEF OrphansAccounted
<1> USE DEF storeVars, requestVars
<1>2. ASSUME NEW p \in Requests, NEW k \in Key, Request(p, k) PROVE OrphansAccounted'
  BY <1>t, <1>1, <1>2 DEF Request, TypeOK, Responsible
<1>3. ASSUME NEW p \in Requests, BeginChange(p) PROVE OrphansAccounted'
  <2>1. /\ UNCHANGED <<row, bucket, journal, leaked>> /\ pc[p] = "change"
        /\ \A q \in Requests \ {p} : pc'[q] = pc[q] /\ key'[q] = key[q]
    BY <1>t, <1>3, AnswerTypes DEF BeginChange, TypeOK
  <2> QED BY <1>1, <2>1 DEF Responsible
<1>4. ASSUME NEW p \in Requests, GiveUpChange(p) PROVE OrphansAccounted'
  BY <1>t, <1>1, <1>4, AnswerTypes DEF GiveUpChange, Responsible
<1>5. ASSUME NEW p \in Requests, Upload(p) PROVE OrphansAccounted'
  BY <1>t, <1>1, <1>5 DEF Upload, Store, TypeOK, Responsible
<1>6. ASSUME NEW p \in Requests, UploadFails(p) PROVE OrphansAccounted'
  <2>1. key[p] # NoKey /\ key[p] \in Key /\ ToCleanup(p, key[p])
    BY <1>t, <1>6 DEF UploadFails, Discard, TypeOK, LockDiscipline
  <2>2. pc'[p] = "cleanup" /\ key'[p] = key[p]
        /\ \A q \in Requests \ {p} : pc'[q] = pc[q] /\ key'[q] = key[q]
    BY <1>t, <2>1 DEF ToCleanup, TypeOK
  <2> QED BY <1>1, <1>6, <2>2 DEF UploadFails, Store, Responsible
<1>7. ASSUME NEW p \in Requests, Write(p) \/ WriteUnacknowledged(p) PROVE OrphansAccounted'
  <2>1. /\ pc[p] = "write" /\ seen[p] = row /\ key[p] \in Key /\ row.previous \in Key
        /\ row' = [portrait |-> key[p], previous |-> row.portrait]
        /\ bucket' = bucket /\ journal' = journal \ {key[p]}
    BY <1>t, <1>7
    DEF Write, WriteUnacknowledged, Slide, NextRow, LockDiscipline, TypeOK, Row
  <2>2. Cited' = {key[p], row.portrait} \ {NoKey}
    BY <2>1 DEF Cited
  <2>3. \A q \in Requests \ {p} : pc'[q] = pc[q] /\ key'[q] = key[q]
    <3>1. Discard(p, row.previous) \/ Discard(p, key[p])
      BY <1>7, <2>1 DEF Write, WriteUnacknowledged
    <3> QED BY <1>t, <2>1, <3>1, DiscardTypes
  <2>4. leaked \ {key[p]} \subseteq leaked'
    <3>1. CASE Write(p)
      BY <3>1 DEF Write
    <3>2. CASE WriteUnacknowledged(p)
      BY <1>t, <3>2 DEF WriteUnacknowledged, TypeOK
    <3> QED BY <1>7, <3>1, <3>2
  <2>5. row.previous \in bucket' \ Cited' =>
           NowTold(row.previous) \/ NowOwes(p, row.previous)
    <3>0. row.previous \in bucket' \ Cited' => row.previous # NoKey /\ row.previous # key[p]
      BY <1>t, <2>1, <2>2 DEF TypeOK
    <3>1. CASE Write(p)
      BY <1>t, <2>1, <3>0, <3>1 DEF Write, Discard, ToCleanup, TypeOK, Responsible
    <3>2. CASE WriteUnacknowledged(p)
      BY <2>1, <3>0, <3>2 DEF WriteUnacknowledged
    <3> QED BY <1>7, <3>1, <3>2
  <2>6. ASSUME NEW k \in bucket' \ Cited', k # row.previous
        PROVE  NowTold(k) \/ \E q \in Requests : NowOwes(q, k)
    <3>1. k \in bucket \ Cited /\ k # key[p]
      BY <1>t, <2>1, <2>2, <2>6 DEF Cited, TypeOK
    <3>2. CASE Told(k)
      BY <2>1, <2>4, <3>1, <3>2
    <3>3. CASE \E q \in Requests : Owes(q, k)
      BY <2>3, <3>1, <3>3
    <3> QED BY <1>o, <3>1, <3>2, <3>3
  <2> QED BY <2>5, <2>6 DEF OrphansAccounted
<1>8. ASSUME NEW p \in Requests, WriteFails(p) PROVE OrphansAccounted'
  <2>1. \A q \in Requests \ {p} : pc'[q] = pc[q] /\ key'[q] = key[q]
    BY <1>t, <1>8, DiscardTypes DEF WriteFails, TypeOK
  <2>2. key[p] \in bucket' => NowOwes(p, key[p])
    BY <1>t, <1>8 DEF WriteFails, Discard, ToCleanup, TypeOK, Responsible
  <2> QED BY <1>1, <1>8, <2>1, <2>2 DEF WriteFails
<1>9. ASSUME NEW p \in Requests, BeginCleanup(p) PROVE OrphansAccounted'
  <2>1. \A q \in Requests \ {p} : pc'[q] = pc[q] /\ key'[q] = key[q]
    BY <1>t, <1>9, AnswerTypes DEF BeginCleanup, TypeOK
  <2>2. key[p] \in bucket \ Cited => NowOwes(p, key[p])
    BY <1>t, <1>9 DEF BeginCleanup, Keeps, Cited, TypeOK, Responsible
  <2> QED BY <1>1, <1>9, <2>1, <2>2 DEF BeginCleanup
<1>10. ASSUME NEW p \in Requests, GiveUpCleanup(p) PROVE OrphansAccounted'
  BY <1>t, <1>1, <1>10, AnswerTypes DEF GiveUpCleanup
<1>11. ASSUME NEW p \in Requests, Delete(p) PROVE OrphansAccounted'
  BY <1>t, <1>1, <1>11, AnswerTypes DEF Delete, Remove
<1>12. ASSUME NEW p \in Requests, DeleteFails(p) PROVE OrphansAccounted'
  BY <1>t, <1>1, <1>12, AnswerTypes DEF DeleteFails, Remove
<1>13. ASSUME NEW p \in Requests, LoseLock(p) PROVE OrphansAccounted'
  BY <1>13 DEF LoseLock, OrphansAccounted, Cited
<1>14. ASSUME NEW op \in {"put", "delete"}, NEW k \in Keys, Land(op, k) PROVE OrphansAccounted'
  BY <1>14 DEF Land, Store, Remove, OrphansAccounted, Cited
<1>15. ASSUME ServePage PROVE OrphansAccounted'
  BY <1>15 DEF ServePage, OrphansAccounted, Cited
<1>16. ASSUME Crash PROVE OrphansAccounted'
  <2> DEFINE InFlight(phase) == {key[p] : p \in {q \in Requests : pc[q] = phase}}
             owed == {key[p] : p \in {q \in Requests : pc[q] \in Responsible}} \ {NoKey}
  <2>1. PICK put \in SUBSET InFlight("upload"), gone \in SUBSET InFlight("delete") :
           bucket' = (bucket \cup put) \ gone
    BY <1>16 DEF Crash
  <2>2. leaked' = leaked \cup owed /\ journal' = journal /\ row' = row
    BY <1>16 DEF Crash
  <2>3. InFlight("upload") \subseteq owed
    BY <1>t DEF LockDiscipline, Responsible
  <2>4. ASSUME NEW k \in bucket \ Cited PROVE k \in journal \cup leaked \cup owed
    <3>1. k # NoKey
      BY <1>t DEF TypeOK
    <3> QED BY <1>o, <2>4, <3>1
  <2>5. Cited' = Cited
    BY <2>2 DEF Cited
  <2> HIDE DEF owed, InFlight
  <2> QED BY <2>1, <2>2, <2>3, <2>4, <2>5 DEF OrphansAccounted
<1>17. ASSUME UNCHANGED vars PROVE OrphansAccounted'
  BY <1>17 DEF vars, OrphansAccounted, Cited
<1> QED
  BY <1>2, <1>3, <1>4, <1>5, <1>6, <1>7, <1>8, <1>9, <1>10, <1>11, <1>12, <1>13, <1>14, <1>15,
     <1>16, <1>17 DEF Next, Progress

\* No object is forgotten: what is stored and not cited is somebody's to
\* discard, named by the log, or lost where the code cannot see it.
THEOREM OrphansAlwaysAccounted == Spec => []OrphansAccounted
<1>1. Init => OrphansAccounted
  BY DEF Init, OrphansAccounted
<1>2. IInv /\ OrphansAccounted /\ [Next]_vars => OrphansAccounted'
  BY OrphansStayAccounted
<1> QED BY Invariance, <1>1, <1>2, PTL DEF Spec

-----------------------------------------------------------------------------
\* Refinement of PortraitPromise: the row slides in the write, the bucket
\* moves in the S3 calls, and every other step is a stutter.
LEMMA InitRefines == Init => Promise!Init
  BY DEF Init, Promise!Init, EmptyRow

\* Every step is a change of the promise or housekeeping.
LEMMA NextRefines ==
  ASSUME IInv, IInv', [Next]_vars
  PROVE  [Promise!Next]_(Promise!promiseVars)
<1> USE ConstantsAssumption
<1>i. TypeOK /\ LockDiscipline /\ CitedStored'  /\ TypeOK'
  BY DEF IInv
<1> DEFINE Goal == [Promise!Next]_(Promise!promiseVars)
<1>1. ASSUME UNCHANGED row PROVE Goal
  <2>1. Promise!Housekeeping
    BY <1>i, <1>1
    DEF Promise!Housekeeping, Promise!Shown, CitedStored, Cited, TypeOK
  <2> QED BY <2>1 DEF Promise!Next
<1>2. ASSUME NEW p \in Requests, pc[p] = "write", lock = p, Slide(p) PROVE Goal
  <2>1. Promise!Change(key[p])
    BY <1>i, <1>2
    DEF Promise!Change, Slide, NextRow, TypeOK, LockDiscipline, Row
  <2>2. key[p] \in Keys \cup {NoKey}
    BY <1>i, <1>2 DEF TypeOK, Key
  <2> QED BY <2>1, <2>2 DEF Promise!Next
<1>3. \/ UNCHANGED row
      \/ \E p \in Requests : pc[p] = "write" /\ lock = p /\ Slide(p)
  BY DEF Next, vars, Progress, Request, BeginChange, GiveUpChange, Upload,
         UploadFails, Write, WriteFails, WriteUnacknowledged, BeginCleanup,
         GiveUpCleanup, Delete, DeleteFails, LoseLock, Land, ServePage, Crash
<1> QED BY <1>1, <1>2, <1>3

\* The service implements the promise made to the readers of the page.
THEOREM PortraitKeepsPromise == Spec => KeepsPromise
<1>1. IInv /\ IInv' /\ [Next]_vars => [Promise!Next]_(Promise!promiseVars)
  BY NextRefines
<1> QED BY Invariance, InitRefines, <1>1, PTL DEF Spec, KeepsPromise, Promise!Spec

-----------------------------------------------------------------------------
\* The text on the same row.

\* What the requests of the windows rely on: the bound leaves room for the
\* version they make, and the text they bring is another one as long as
\* nobody else has replaced what they were shown.
SavesHaveRoom ==
    \A e \in Editors : step[e] \in {"read", "update"} => view[e].version < MaxVersion
SavesAreChanges ==
    \A e \in Editors : step[e] = "update" /\ view[e].version = version => body[e] # content
ViewsAreCurrent == \A e \in Editors : view[e].version = version => view[e].content = content

DocumentInv == DocumentTypeOK /\ ViewsAreCurrent /\ SavesHaveRoom /\ SavesAreChanges

\* Every window was shown the first version.
LEMMA DocumentInit == ProfileInit => DocumentInv
<1> SUFFICES ASSUME ProfileInit PROVE DocumentInv
  OBVIOUS
<1>1. DocumentTypeOK
  BY DocumentAssumption DEF ProfileInit, CurrentDocument, DocumentTypeOK, Steps, DocumentAssumption
<1>2. ViewsAreCurrent /\ SavesHaveRoom /\ SavesAreChanges
  BY DEF ProfileInit, CurrentDocument, ViewsAreCurrent, SavesHaveRoom, SavesAreChanges
<1> QED BY <1>1, <1>2 DEF DocumentInv

\* The parts of a view.
LEMMA ViewParts ==
  ASSUME DocumentTypeOK, NEW e \in Editors
  PROVE  /\ view[e].content \in Contents
         /\ view[e].version \in Nat /\ 1 <= view[e].version /\ view[e].version <= version
         /\ view[e] = [content |-> view[e].content, version |-> view[e].version]
         /\ version \in Nat /\ 1 <= version /\ version <= MaxVersion /\ MaxVersion \in Nat
<1>1. view[e] \in [content : Contents, version : 1..version] /\ version \in 1..MaxVersion
  BY DEF DocumentTypeOK
<1> QED BY <1>1, DocumentAssumption DEF DocumentAssumption

\* A request that ends with an answer that shows what the window saw already
\* or the row as it is now.
LEMMA ShownKeeps ==
  ASSUME DocumentInv, NEW e \in Editors, UNCHANGED <<content, version>>,
         NEW document \in {view[e], CurrentDocument}, Shown(e, document)
  PROVE  DocumentInv' /\ view' \in {view, [view EXCEPT ![e] = CurrentDocument]}
<1>t. DocumentTypeOK
  BY DEF DocumentInv
<1>1. document \in [content : Contents, version : 1..version]
  BY <1>t DEF DocumentTypeOK, CurrentDocument
<1>2. /\ view' \in [Editors -> [content : Contents, version : 1..version]]
      /\ view'[e] \in {view[e], CurrentDocument}
      /\ \A f \in Editors \ {e} : view'[f] = view[f]
  BY <1>t, <1>1 DEF Shown, DocumentTypeOK
<1>3. /\ step' \in [Editors -> Steps] /\ step'[e] = "idle"
      /\ \A f \in Editors \ {e} : step'[f] = step[f]
  BY <1>t DEF Shown, DocumentTypeOK, Steps
<1>4. /\ body' \in [Editors -> Contents]
      /\ \A f \in Editors \ {e} : body'[f] = body[f]
  BY <1>t, <1>2 DEF Shown, DocumentTypeOK
<1>5. DocumentTypeOK'
  BY <1>t, <1>2, <1>3, <1>4 DEF DocumentTypeOK
<1>6. ViewsAreCurrent'
  BY <1>2 DEF DocumentInv, ViewsAreCurrent, CurrentDocument
<1>7. SavesHaveRoom' /\ SavesAreChanges'
  BY <1>2, <1>3, <1>4 DEF DocumentInv, SavesHaveRoom, SavesAreChanges
<1>8. view' \in {view, [view EXCEPT ![e] = CurrentDocument]}
  BY <1>t DEF Shown, DocumentTypeOK
<1> QED BY <1>5, <1>6, <1>7, <1>8 DEF DocumentInv

\* An update replaces the very document its window was shown.
LEMMA UpdateKeeps ==
  ASSUME DocumentInv, NEW e \in Editors, Update(e)
  PROVE  DocumentInv' /\ Document!Replace(e, body[e]) /\ body[e] \in Contents
<1>t. DocumentTypeOK
  BY DEF DocumentInv
<1> DEFINE new == [content |-> body[e], version |-> version + 1]
<1>1. /\ step[e] = "update" /\ view[e].version = version
      /\ content' = body[e] /\ version' = version + 1
      /\ Shown(e, new)
  BY DEF Update, Matches
<1>2. version + 1 \in 1..MaxVersion /\ \A n \in 1..version : n \in 1..(version + 1) /\ n # version + 1
  <2>1. version < MaxVersion
    BY <1>1 DEF DocumentInv, SavesHaveRoom
  <2>2. version \in Nat /\ 1 <= version /\ MaxVersion \in Nat
    BY <1>t, ViewParts
  <2> HIDE DEF new
  <2> QED BY <2>1, <2>2
<1>3. body[e] \in Contents /\ body[e] # content
  BY <1>1, <1>t DEF DocumentInv, DocumentTypeOK, SavesAreChanges
<1>4. new \in [content : Contents, version : 1..(version + 1)]
  <2>1. version + 1 \in 1..(version + 1)
    <3>1. version \in Nat
      BY <1>t, ViewParts
    <3> QED BY <3>1
  <2> QED BY <1>3, <2>1
<1>5. \A f \in Editors : view[f] \in [content : Contents, version : 1..(version + 1)]
                         /\ view[f].version # version + 1
  BY <1>t, <1>2 DEF DocumentTypeOK
<1>6. /\ view' \in [Editors -> [content : Contents, version : 1..(version + 1)]]
      /\ view'[e] \in {view[e], new}
      /\ \A f \in Editors \ {e} : view'[f] = view[f]
  <2>1. view' \in {view, [view EXCEPT ![e] = new]}
    BY <1>1 DEF Shown
  <2>2. view = [f \in Editors |-> view[f]]
    BY <1>t DEF DocumentTypeOK
  <2> HIDE DEF new
  <2> QED BY <2>1, <2>2, <1>4, <1>5
<1>7. /\ step' \in [Editors -> Steps] /\ step'[e] = "idle"
      /\ \A f \in Editors \ {e} : step'[f] = step[f]
      /\ body' \in [Editors -> Contents]
  BY <1>t, <1>1, <1>6 DEF Shown, DocumentTypeOK, Steps
<1>8. DocumentTypeOK'
  BY <1>1, <1>2, <1>3, <1>6, <1>7 DEF DocumentTypeOK
<1>9. ViewsAreCurrent'
  BY <1>1, <1>5, <1>6 DEF ViewsAreCurrent
<1>10. SavesHaveRoom' /\ SavesAreChanges'
  BY <1>1, <1>5, <1>6, <1>7 DEF DocumentInv, SavesHaveRoom, SavesAreChanges
<1>11. Document!Replace(e, body[e])
  <2>1. view[e] = CurrentDocument
    <3>1. view[e].content = content
      BY <1>1 DEF DocumentInv, ViewsAreCurrent
    <3> QED BY <1>1, <1>t, <3>1, ViewParts DEF CurrentDocument
  <2>2. view' \in {view, [view EXCEPT ![e] = new]}
    BY <1>1 DEF Shown
  <2> QED BY <1>1, <1>3, <2>1, <2>2 DEF Document!Replace, Document!Current, CurrentDocument
<1> QED BY <1>3, <1>8, <1>9, <1>10, <1>11 DEF DocumentInv

\* A step of the profile page keeps the text in order, replaces it as promised
\* or not at all, and is a step of the portrait or leaves it alone.
LEMMA ProfileStep ==
  ASSUME DocumentInv, [ProfileNext]_profileVars
  PROVE  /\ DocumentInv'
         /\ [Document!Next]_(Document!documentVars)
         /\ [Next]_vars
<1>t. DocumentTypeOK
  BY DEF DocumentInv
<1> DEFINE Goal == DocumentInv' /\ [Document!Next]_(Document!documentVars) /\ [Next]_vars
<1>1. ASSUME NEW e \in Editors, NEW document \in {view[e], CurrentDocument},
             Shown(e, document), UNCHANGED <<vars, content, version>>
      PROVE  Goal
  <2>1. DocumentInv' /\ view' \in {view, [view EXCEPT ![e] = CurrentDocument]}
    BY <1>1, ShownKeeps
  <2>2. UNCHANGED Document!documentVars \/ Document!Show(e)
    BY <1>1, <2>1 DEF Document!documentVars, Document!Show, Document!Current, CurrentDocument
  <2> QED BY <1>1, <2>1, <2>2 DEF Document!Next
<1>2. ASSUME NEW e \in Editors, FindCurrent(e) PROVE Goal
  BY <1>1, <1>2 DEF FindCurrent
<1>3. ASSUME NEW e \in Editors, Read(e) PROVE Goal
  <2>1. CASE Unchanged(e)
    BY <1>1, <1>3, <2>1 DEF Read
  <2>2. CASE ~Unchanged(e)
    <3>1. /\ step[e] = "read" /\ step' = [step EXCEPT ![e] = "update"]
          /\ UNCHANGED <<view, body>> /\ UNCHANGED <<vars, content, version>>
      BY <1>3, <2>2 DEF Read
    <3>2. DocumentTypeOK' /\ ViewsAreCurrent'
      BY <1>t, <3>1 DEF DocumentInv, DocumentTypeOK, ViewsAreCurrent, Steps
    <3>3. SavesHaveRoom' /\ SavesAreChanges'
      BY <1>t, <2>2, <3>1
      DEF DocumentInv, DocumentTypeOK, SavesHaveRoom, SavesAreChanges, Unchanged
    <3> QED BY <3>1, <3>2, <3>3 DEF DocumentInv, Document!documentVars
  <2> QED BY <2>1, <2>2
<1>4. ASSUME NEW e \in Editors, Update(e) PROVE Goal
  <2>1. DocumentInv' /\ Document!Replace(e, body[e]) /\ body[e] \in Contents
    BY <1>4, UpdateKeeps
  <2> QED BY <1>4, <2>1 DEF Document!Next, Update, KeepPortrait
<1>5. ASSUME NEW e \in Editors, Conflict(e) \/ GiveUp(e) PROVE Goal
  BY <1>1, <1>5 DEF Conflict, GiveUp, Refused
<1>6. ASSUME NEW e \in Editors, NEW text \in Contents, Submit(e, text) PROVE Goal
  <2>1. /\ view[e].version < MaxVersion /\ UNCHANGED <<vars, content, version, view>>
        /\ body' = [body EXCEPT ![e] = text] /\ step' = [step EXCEPT ![e] = "read"]
    BY <1>6 DEF Submit
  <2>2. DocumentTypeOK' /\ ViewsAreCurrent'
    BY <1>t, <2>1 DEF DocumentInv, DocumentTypeOK, ViewsAreCurrent, Steps
  <2>3. SavesHaveRoom' /\ SavesAreChanges'
    BY <1>t, <2>1 DEF DocumentInv, DocumentTypeOK, SavesHaveRoom, SavesAreChanges
  <2> QED BY <2>1, <2>2, <2>3 DEF DocumentInv, Document!documentVars
<1>7. ASSUME UNCHANGED documentVars, [Next]_vars PROVE Goal
  BY <1>7
  DEF documentVars, DocumentInv, DocumentTypeOK, ViewsAreCurrent, SavesHaveRoom, SavesAreChanges,
      Document!documentVars
<1>8. ASSUME Crash, StopSaving PROVE Goal
  <2>1. UNCHANGED <<content, version, view>> /\ \A e \in Editors : step'[e] = "idle"
    BY <1>8 DEF StopSaving
  <2>2. DocumentTypeOK'
    BY <1>t, <1>8, ViewParts DEF StopSaving, DocumentTypeOK, Steps
  <2>3. ViewsAreCurrent' /\ SavesHaveRoom' /\ SavesAreChanges'
    BY <2>1 DEF DocumentInv, ViewsAreCurrent, SavesHaveRoom, SavesAreChanges
  <2> QED BY <1>8, <2>1, <2>2, <2>3 DEF DocumentInv, Document!documentVars, Next
<1>9. PortraitStep => Next
  BY DEF PortraitStep, Next
<1> QED
  BY <1>2, <1>3, <1>4, <1>5, <1>6, <1>7, <1>8, <1>9 DEF ProfileNext, Save, KeepDocument, profileVars

\* The invariant of the portrait holds on the row it shares with the text, and
\* a window that was shown the current version was shown the current text.
THEOREM ProfileAlwaysSound == ProfileSpec => []ProfileInv
<1>1. ProfileInit => IInv /\ DocumentInv
  BY InitInv, DocumentInit DEF ProfileInit
<1>2. ASSUME IInv, DocumentInv, [ProfileNext]_profileVars PROVE IInv' /\ DocumentInv'
  BY <1>2, ProfileStep, NextInv
<1>3. IInv /\ DocumentInv => ProfileInv
  BY DEF DocumentInv, ViewsAreCurrent, ProfileInv
<1> QED BY <1>1, <1>2, <1>3, PTL DEF ProfileSpec

\* The text implements the versioned document, whatever the portrait, the
\* lock and the lost answers do: no save is lost under another, and nothing
\* but a replacement makes an open draft stale.
THEOREM TextKeepsDocument == ProfileSpec => KeepsDocument
<1>1. ProfileInit => Document!Init
  BY DEF ProfileInit, Document!Init, Document!Current, CurrentDocument
<1>2. DocumentInv /\ [ProfileNext]_profileVars =>
         DocumentInv' /\ [Document!Next]_(Document!documentVars)
  BY ProfileStep
<1> QED BY DocumentInit, <1>1, <1>2, PTL DEF ProfileSpec, KeepsDocument, Document!Spec

\* On the shared row too, no object of the portrait is forgotten.
THEOREM OrphansAccountedOnSharedRow == ProfileSpec => []OrphansAccounted
<1>1. ProfileInit => IInv /\ DocumentInv /\ OrphansAccounted
  BY InitInv, DocumentInit DEF ProfileInit, Init, OrphansAccounted
<1>2. ASSUME IInv, DocumentInv, OrphansAccounted, [ProfileNext]_profileVars
      PROVE  IInv' /\ DocumentInv' /\ OrphansAccounted'
  BY <1>2, ProfileStep, NextInv, OrphansStayAccounted
<1> QED BY <1>1, <1>2, PTL DEF ProfileSpec

=============================================================================
