---------------------------- MODULE ImagesProofs ----------------------------
(***************************************************************************)
(* Theorems of CoverImage and of BlogImages, the two services that keep    *)
(* images of which nothing but a row says that they are in use; for any    *)
(* number of requests, removals, articles and images.                      *)
(***************************************************************************)
EXTENDS MCImages, TLAPS

-----------------------------------------------------------------------------
\* The cover of a project.

\* What a request holds: a file to store is a key, an old cover that is to be
\* deleted is one the write has replaced.
HeldKeys ==
    /\ \A p \in Requests : pc[p] = "put" => new[p] \in Keys
    /\ \A p \in Requests : pc[p] = "cleanup" => Superseded(p)

CoverTyped == TypeOK /\ HeldKeys

\* A project without a cover.
LEMMA CoverInitTyped == Init => CoverTyped /\ CoversAccounted
  BY CoverAssumption
  DEF Init, CoverTyped, TypeOK, HeldKeys, CoversAccounted, Key, Phases

\* How a request of the cover ends.
LEMMA CoverAnswerTypes ==
  ASSUME TypeOK, NEW p \in Requests, Answer(p)
  PROVE  /\ pc' \in [Requests -> Phases]
         /\ new' \in [Requests -> Key \cup {Gone}]
         /\ current' \in [Requests -> Key]
         /\ pc'[p] = "idle" /\ new'[p] = NoKey /\ current'[p] = NoKey
         /\ \A q \in Requests \ {p} :
               pc'[q] = pc[q] /\ new'[q] = new[q] /\ current'[q] = current[q]
  BY DEF TypeOK, Answer, Goto, Phases, Key

\* What an S3 call that was given up leaves in the bucket.
LEMMA AbandonTypes ==
  ASSUME TypeOK, NEW kind \in {"put", "delete"}, NEW k \in Keys, Abandon(kind, k)
  PROVE  /\ bucket' \subseteq Keys /\ late' \subseteq {"put", "delete"} \X Keys
         /\ late' \subseteq late \cup {<<kind, k>>}
         /\ bucket' \subseteq bucket \cup {k} /\ bucket \ {k} \subseteq bucket'
         /\ kind = "put" => bucket \subseteq bucket'
         /\ kind = "delete" => bucket' \subseteq bucket
  BY DEF TypeOK, Abandon

\* Every step keeps the types and leaves an object to its row, to a request or to the log.
LEMMA CoverNextTyped ==
  ASSUME CoverTyped, CoversAccounted, [Next]_vars
  PROVE  CoverTyped' /\ CoversAccounted'
<1> USE CoverAssumption DEF Key
<1>t. TypeOK /\ HeldKeys
  BY DEF CoverTyped
<1> DEFINE Goal == TypeOK' /\ HeldKeys' /\ CoversAccounted'
<1>1. ASSUME NEW p \in Requests, NEW k \in Key \cup {Gone}, Find(p, k) PROVE Goal
  <2>1. Condemned' \cap Sent' \subseteq Keys
    BY DEF Sent
  <2> QED
    BY <1>t, <1>1, <2>1
    DEF Find, Goto, TypeOK, HeldKeys, Superseded, CoversAccounted, Phases
<1>2. ASSUME NEW p \in Requests, Put(p) PROVE Goal
  BY <1>t, <1>2 DEF Put, Goto, TypeOK, HeldKeys, Superseded, CoversAccounted, Phases
<1>3. ASSUME NEW p \in Requests, PutFails(p) PROVE Goal
  <2>1. new[p] \in Keys /\ Answer(p) /\ Abandon("put", new[p])
    BY <1>t, <1>3 DEF PutFails, HeldKeys
  <2> QED
    BY <1>t, <1>3, <2>1, CoverAnswerTypes, AbandonTypes
    DEF PutFails, TypeOK, HeldKeys, Superseded, CoversAccounted
<1>4. ASSUME NEW p \in Requests, Write(p) PROVE Goal
  BY <1>t, <1>4, CoverAnswerTypes
  DEF Write, Superseded, Goto, TypeOK, HeldKeys, CoversAccounted, Phases
<1>5. ASSUME NEW p \in Requests, WriteFails(p) PROVE Goal
  BY <1>t, <1>5, CoverAnswerTypes
  DEF WriteFails, TypeOK, HeldKeys, Superseded, CoversAccounted
<1>6. ASSUME NEW p \in Requests, Cleanup(p) PROVE Goal
  BY <1>t, <1>6, CoverAnswerTypes
  DEF Cleanup, TypeOK, HeldKeys, Superseded, CoversAccounted
<1>7. ASSUME NEW p \in Requests, CleanupFails(p) PROVE Goal
  <2>1. current[p] \in Keys /\ Answer(p) /\ Abandon("delete", current[p])
    BY <1>t, <1>7 DEF CleanupFails, HeldKeys, Superseded, TypeOK
  <2> QED
    BY <1>t, <1>7, <2>1, CoverAnswerTypes, AbandonTypes
    DEF CleanupFails, TypeOK, HeldKeys, Superseded, CoversAccounted
<1>8. ASSUME Land PROVE Goal
  BY <1>t, <1>8 DEF Land, TypeOK, HeldKeys, Superseded, CoversAccounted
<1>9. ASSUME Crash PROVE Goal
  BY <1>t, <1>9 DEF Crash, TypeOK, HeldKeys, Superseded, CoversAccounted, Phases
<1>10. ASSUME UNCHANGED vars PROVE Goal
  BY <1>t, <1>10 DEF vars, TypeOK, HeldKeys, Superseded, CoversAccounted
<1> QED
  BY <1>1, <1>2, <1>3, <1>4, <1>5, <1>6, <1>7, <1>8, <1>9, <1>10 DEF Next, CoverTyped

\* A stored object that is not the cover is in the hands of a request, or was
\* given up at one of the places that "orphans" names.
THEOREM CoverObjectsAccounted == Spec => []CoversAccounted
<1>1. CoverTyped /\ CoversAccounted /\ [Next]_vars => CoverTyped' /\ CoversAccounted'
  BY CoverNextTyped
<1> QED BY CoverInitTyped, <1>1, PTL DEF Spec

\* Why no clean-up deletes what the row cites or is about to cite, contested
\* keys excepted: a key that is sent and condemned is contested; the object of a
\* key is stored before the row is written; and a key that a clean-up has begun to
\* delete is not the cover any more.
FilesAreApart ==
    /\ Condemned \cap Sent \subseteq contested
    /\ \A p \in Requests :
          pc[p] = "write" /\ new[p] \in Keys \ contested => new[p] \in bucket
    /\ \A p \in Requests :
          pc[p] = "cleanup" /\ current[p] = image => current[p] \in contested
    /\ \A k \in Keys : <<"delete", k>> \in late /\ k = image => k \in contested

\* No file was sent yet.
LEMMA CoverInitApart == Init => FilesAreApart /\ CoverStored
  BY CoverAssumption
  DEF Init, FilesAreApart, CoverStored, Condemned, Sent, Superseded, Key

\* A request that ends neither sends nor condemns anything more.
LEMMA AnswerApart ==
  ASSUME CoverTyped, FilesAreApart, NEW p \in Requests, Answer(p),
         \A k \in Keys : <<"delete", k>> \in late' =>
            <<"delete", k>> \in late \/ (Superseded(p) /\ k = current[p]),
         contested' = contested
  PROVE  Condemned' \cap Sent' \subseteq contested'
  BY CoverAssumption, CoverAnswerTypes
  DEF CoverTyped, TypeOK, FilesAreApart, Condemned, Sent, Superseded, Key

\* A clean-up deletes what nobody has sent again, or what is contested.
LEMMA CoverNextApart ==
  ASSUME CoverTyped, FilesAreApart, CoverStored, [Next]_vars
  PROVE  FilesAreApart' /\ CoverStored'
<1> USE CoverAssumption DEF Key
<1>t. TypeOK /\ HeldKeys
  BY DEF CoverTyped
<1> DEFINE Goal == FilesAreApart' /\ CoverStored'
<1>1. ASSUME NEW p \in Requests, NEW k \in Key \cup {Gone}, Find(p, k) PROVE Goal
  <2>1. /\ contested' = contested \cup (Condemned' \cap Sent')
        /\ UNCHANGED <<image, bucket, late>>
        /\ \A q \in Requests : pc'[q] \in {"write", "cleanup"} =>
              \/ q # p /\ pc'[q] = pc[q] /\ new'[q] = new[q] /\ current'[q] = current[q]
              \/ q = p /\ pc'[q] = "write" /\ new'[q] \notin Keys
    BY <1>t, <1>1 DEF Find, Goto, TypeOK
  <2> HIDE DEF Key
  <2> QED BY <2>1 DEF FilesAreApart, CoverStored
<1>2. ASSUME NEW p \in Requests, Put(p) PROVE Goal
  <2>1. /\ Condemned' = Condemned /\ Sent' = Sent
        /\ contested' = contested \ ({new[p]} \ Condemned)
    BY <1>2 DEF Put, Condemned, Sent, Superseded
  <2>2. \A q \in Requests : pc[q] = "cleanup" => current[q] \in Condemned
    BY <1>t DEF HeldKeys, Condemned
  <2>3. \A k \in Keys : <<"delete", k>> \in late => k \in Condemned
    BY DEF Condemned
  <2>4. /\ pc[p] = "put" /\ bucket' = bucket \cup {new[p]}
        /\ \A q \in Requests : pc'[q] = IF q = p THEN "write" ELSE pc[q]
        /\ UNCHANGED <<image, new, current, late>>
    BY <1>t, <1>2 DEF Put, Goto, TypeOK
  <2> QED BY <2>1, <2>2, <2>3, <2>4 DEF FilesAreApart, CoverStored
<1>3. ASSUME NEW p \in Requests, PutFails(p) PROVE Goal
  <2>1. new[p] \in Keys /\ Answer(p) /\ Abandon("put", new[p])
    BY <1>t, <1>3 DEF PutFails, HeldKeys
  <2>2. late' \subseteq late \cup {<<"put", new[p]>>} /\ bucket \subseteq bucket'
    BY <1>t, <2>1, AbandonTypes
  <2>3. Condemned' \cap Sent' \subseteq contested'
    <3>1. \A k \in Keys : <<"delete", k>> \in late' => <<"delete", k>> \in late
      BY <2>1, <2>2
    <3>2. contested' = contested
      BY <1>3 DEF PutFails
    <3> QED BY <2>1, <3>1, <3>2, AnswerApart
  <2> QED
    BY <1>t, <1>3, <2>1, <2>2, <2>3, CoverAnswerTypes DEF PutFails, FilesAreApart, CoverStored
<1>4. ASSUME NEW p \in Requests, Write(p) PROVE Goal
  <2>1. UNCHANGED <<bucket, late, contested>>
        /\ image' = IF image = Gone THEN Gone ELSE new[p]
    BY <1>4 DEF Write
  <2>2. CASE Superseded(p)
    <3>1. /\ UNCHANGED <<new, current>> /\ pc[p] = "write"
          /\ \A q \in Requests : pc'[q] = IF q = p THEN "cleanup" ELSE pc[q]
      BY <1>t, <1>4, <2>2 DEF Write, Goto, TypeOK
    <3>2. Condemned' = Condemned /\ Sent' = Sent
      BY <2>1, <3>1 DEF Condemned, Sent, Superseded
    <3>3. \A q \in Requests : pc[q] = "cleanup" => current[q] \in Condemned
      BY <1>t DEF HeldKeys, Condemned
    <3>4. \A k \in Keys : <<"delete", k>> \in late => k \in Condemned
      BY DEF Condemned
    <3>5. new[p] \in Keys => new[p] \in Sent
      BY DEF Sent
    <3>6. \A q \in Requests : current[q] \in Keys \/ current[q] = NoKey
      BY <1>t DEF TypeOK
    <3> QED
      BY <1>t, <2>1, <2>2, <3>1, <3>2, <3>3, <3>4, <3>5, <3>6
      DEF FilesAreApart, CoverStored, HeldKeys, Superseded
  <2>3. CASE ~Superseded(p)
    <3>1. Answer(p) /\ pc[p] = "write"
      BY <1>4, <2>3 DEF Write
    <3>2. Condemned' \cap Sent' \subseteq contested'
      BY <2>1, <3>1, AnswerApart
    <3>3. \A q \in Requests : pc[q] = "cleanup" => current[q] \in Condemned /\ Superseded(q)
      BY <1>t DEF HeldKeys, Condemned
    <3>4. \A k \in Keys : <<"delete", k>> \in late => k \in Condemned
      BY DEF Condemned
    <3>5. new[p] \in Keys => new[p] \in Sent
      BY DEF Sent
    <3>6. \A q \in Requests : current[q] \in Keys \/ current[q] = NoKey
      BY <1>t DEF TypeOK
    <3> QED
      BY <1>t, <2>1, <3>1, <3>2, <3>3, <3>4, <3>5, <3>6, CoverAnswerTypes
      DEF FilesAreApart, CoverStored, Superseded
  <2> QED BY <2>2, <2>3
<1>5. ASSUME NEW p \in Requests, WriteFails(p) PROVE Goal
  <2>1. Answer(p) /\ UNCHANGED <<image, bucket, late, contested>>
    BY <1>5 DEF WriteFails
  <2>2. Condemned' \cap Sent' \subseteq contested'
    BY <2>1, AnswerApart
  <2> QED BY <1>t, <2>1, <2>2, CoverAnswerTypes DEF FilesAreApart, CoverStored
<1>6. ASSUME NEW p \in Requests, Cleanup(p) PROVE Goal
  <2>1. /\ pc[p] = "cleanup" /\ Answer(p) /\ bucket' = bucket \ {current[p]}
        /\ UNCHANGED <<image, late, contested>>
    BY <1>6 DEF Cleanup
  <2>2. Condemned' \cap Sent' \subseteq contested'
    BY <2>1, AnswerApart
  <2>3. current[p] \in Condemned /\ \A q \in Requests : new[q] \in Keys => new[q] \in Sent
    BY <1>t, <2>1 DEF HeldKeys, Condemned, Sent
  <2> QED BY <1>t, <2>1, <2>2, <2>3, CoverAnswerTypes DEF FilesAreApart, CoverStored
<1>7. ASSUME NEW p \in Requests, CleanupFails(p) PROVE Goal
  <2>1. /\ pc[p] = "cleanup" /\ Answer(p) /\ Abandon("delete", current[p])
        /\ UNCHANGED <<image, contested>>
        /\ current[p] \in Keys /\ Superseded(p)
    BY <1>t, <1>7 DEF CleanupFails, HeldKeys, Superseded, TypeOK
  <2>2. late' \subseteq late \cup {<<"delete", current[p]>>} /\ bucket \ {current[p]} \subseteq bucket'
    BY <1>t, <2>1, AbandonTypes
  <2>3. Condemned' \cap Sent' \subseteq contested'
    BY <2>1, <2>2, AnswerApart
  <2>4. current[p] \in Condemned /\ \A q \in Requests : new[q] \in Keys => new[q] \in Sent
    BY <2>1 DEF Condemned, Sent
  <2> QED BY <1>t, <2>1, <2>2, <2>3, <2>4, CoverAnswerTypes DEF FilesAreApart, CoverStored
<1>8. ASSUME Land PROVE Goal
  <2>1. PICK kind \in {"put", "delete"}, k \in Keys :
          /\ <<kind, k>> \in late
          /\ late' = late \ {<<kind, k>>}
          /\ bucket' = IF kind = "put" THEN bucket \cup {k} ELSE bucket \ {k}
    BY <1>8 DEF Land
  <2>2. UNCHANGED <<image, pc, new, current, contested>>
    BY <1>8 DEF Land
  <2>3. Condemned' \subseteq Condemned /\ Sent' = Sent
    BY <2>1, <2>2 DEF Condemned, Sent, Superseded
  <2>4. CASE kind = "put"
    BY <2>1, <2>2, <2>3, <2>4 DEF FilesAreApart, CoverStored
  <2>5. CASE kind = "delete"
    <3>1. k \in Condemned
      BY <2>1, <2>5 DEF Condemned
    <3>2. \A q \in Requests : new[q] \in Keys => new[q] \in Sent
      BY DEF Sent
    <3> QED BY <2>1, <2>2, <2>3, <2>5, <3>1, <3>2 DEF FilesAreApart, CoverStored
  <2> QED BY <2>4, <2>5
<1>9. ASSUME Crash PROVE Goal
  <2> DEFINE at(phase, held) == {held[q] : q \in {r \in Requests : pc[r] = phase}}
  <2>0. PICK put \in SUBSET at("put", new), gone \in SUBSET at("cleanup", current) :
          /\ bucket' = (bucket \cup put) \ gone
          /\ \E still \in SUBSET (({"put"} \X (at("put", new) \ put))
                                  \cup ({"delete"} \X (at("cleanup", current) \ gone))) :
                late' = late \cup still
    BY <1>9 DEF Crash
  <2>1. PICK still \in SUBSET (({"put"} \X (at("put", new) \ put))
                                  \cup ({"delete"} \X (at("cleanup", current) \ gone))) :
          bucket' = (bucket \cup put) \ gone /\ late' = late \cup still
    BY <2>0
  <2>2. /\ pc' = [p \in Requests |-> "idle"]
        /\ new' = [p \in Requests |-> NoKey] /\ current' = [p \in Requests |-> NoKey]
        /\ UNCHANGED <<image, contested>>
    BY <1>9 DEF Crash
  <2>3. Sent' = {}
    BY <2>2 DEF Sent
  <2>4. \A k \in at("cleanup", current) : k = image => k \in contested
    BY DEF FilesAreApart
  <2>5. \A k \in Keys : <<"delete", k>> \in late' /\ k = image => k \in contested
    BY <2>1, <2>4 DEF FilesAreApart
  <2>6. CoverStored'
    BY <2>1, <2>2, <2>4 DEF CoverStored
  <2> QED BY <2>2, <2>3, <2>5, <2>6 DEF FilesAreApart
<1>10. ASSUME UNCHANGED vars PROVE Goal
  BY <1>t, <1>10 DEF vars, FilesAreApart, CoverStored, Condemned, Sent, Superseded
<1> QED
  BY <1>1, <1>2, <1>3, <1>4, <1>5, <1>6, <1>7, <1>8, <1>9, <1>10 DEF Next

\* The row never names a deleted object, whatever overlaps, fails, stops or
\* takes effect late, unless its file was sent while a clean-up was to delete it.
THEOREM CoverAlwaysStored == Spec => []CoverStored
<1> DEFINE Inv == CoverTyped /\ CoversAccounted /\ FilesAreApart /\ CoverStored
<1>1. Init => Inv
  BY CoverInitTyped, CoverInitApart
<1>2. Inv /\ [Next]_vars => Inv'
  BY CoverNextTyped, CoverNextApart
<1>3. Inv => CoverStored
  OBVIOUS
<1> QED BY <1>1, <1>2, <1>3, PTL DEF Spec

-----------------------------------------------------------------------------
\* The images of the articles.

\* A removal that has begun has an article; one that has deleted its row
\* knows that it is gone.
RemovalsAreOfArticles ==
    /\ \A r \in Removals : step[r] # "idle" => post[r] \in Posts
    /\ \A r \in Removals : step[r] \in {"query", "drop"} => post[r] \in removed

ArticlesTyped == Articles!TypeOK /\ RemovalsAreOfArticles

\* A citation of an image whose deletion is decided was written after the
\* decision.
DecidedIsLate ==
    \A r \in Removals : step[r] = "drop" =>
        \A p \in Posts : \A k \in keys[r] \cap cites[p] : <<p, k>> \in tardy

ArticlesInv == ArticlesTyped /\ DecidedIsLate /\ CitedImagesStored /\ ImagesAccounted

\* No article and no image.
LEMMA ArticlesInit == Articles!Init => ArticlesInv
  BY ArticlesAssumption
  DEF Articles!BlogImagesAssumption, Articles!Init, ArticlesInv, ArticlesTyped,
      Articles!TypeOK, RemovalsAreOfArticles, DecidedIsLate,
      CitedImagesStored, Articles!CitedImagesStored,
      ImagesAccounted, Articles!ImagesAccounted

\* Every step of the articles and of their images.
LEMMA ArticlesNext ==
  ASSUME ArticlesInv, [Articles!Next]_(Articles!vars)
  PROVE  ArticlesInv'
<1> USE ArticlesAssumption
    DEF Articles!BlogImagesAssumption, ArticlesInv, ArticlesTyped, Articles!TypeOK,
        RemovalsAreOfArticles, DecidedIsLate,
        CitedImagesStored, Articles!CitedImagesStored,
        ImagesAccounted, Articles!ImagesAccounted,
        Articles!CitedIn, Articles!LookedAfter, Articles!Decided,
        Articles!articles, Articles!removals, Articles!Goto, Articles!Done
<1>1. ASSUME NEW k \in Pictures, Articles!Upload(k) PROVE ArticlesInv'
  BY <1>1 DEF Articles!Upload
<1>2. ASSUME NEW k \in Pictures, Articles!UploadFails(k) PROVE ArticlesInv'
  BY <1>2 DEF Articles!UploadFails
<1>3. ASSUME NEW p \in Posts, NEW cited \in SUBSET Pictures, Articles!Save(p, cited)
      PROVE ArticlesInv'
  BY <1>3 DEF Articles!Save
<1>4. ASSUME NEW r \in Removals, NEW p \in Posts, Articles!Find(r, p) PROVE ArticlesInv'
  BY <1>4 DEF Articles!Find
<1>5. ASSUME NEW r \in Removals, Articles!DeleteRow(r) PROVE ArticlesInv'
  BY <1>5 DEF Articles!DeleteRow
<1>6. ASSUME NEW r \in Removals, Articles!AskOthers(r) PROVE ArticlesInv'
  BY <1>6 DEF Articles!AskOthers, Articles!Unreferenced
<1>7. ASSUME NEW r \in Removals, Articles!Answer(r) PROVE ArticlesInv'
  BY <1>7 DEF Articles!Answer
<1>8. ASSUME NEW r \in Removals, Articles!RemovalFails(r) PROVE ArticlesInv'
  BY <1>8 DEF Articles!RemovalFails
<1>9. ASSUME NEW r \in Removals, NEW k \in Pictures, Articles!Drop(r, k) PROVE ArticlesInv'
  BY <1>9 DEF Articles!Drop
<1>10. ASSUME NEW r \in Removals, NEW k \in Pictures, Articles!DropFails(r, k)
       PROVE ArticlesInv'
  BY <1>10 DEF Articles!DropFails
<1>11. ASSUME Articles!Crash PROVE ArticlesInv'
  BY <1>11 DEF Articles!Crash
<1>12. ASSUME UNCHANGED Articles!vars PROVE ArticlesInv'
  BY <1>12 DEF Articles!vars
<1> QED
  BY <1>1, <1>2, <1>3, <1>4, <1>5, <1>6, <1>7, <1>8, <1>9, <1>10, <1>11, <1>12
  DEF Articles!Next

\* An image that an article cites is stored, unless the citation was written
\* after a removal had decided to delete the image: removals that overlap
\* saves, uploads, each other and crashes delete no image in use otherwise.
THEOREM CitedAlwaysStored == Articles!Spec => []CitedImagesStored
<1>1. ArticlesInv /\ [Articles!Next]_(Articles!vars) => ArticlesInv'
  BY ArticlesNext
<1>2. ArticlesInv => CitedImagesStored
  BY DEF ArticlesInv
<1> QED BY ArticlesInit, <1>1, <1>2, PTL DEF Articles!Spec

\* A stored image is cited, or its removal is under way, or it was given up
\* by an upload that nobody saved, an edit that let go of it, a crash or a
\* deletion that failed.
THEOREM ArticleImagesAccounted == Articles!Spec => []ImagesAccounted
<1>1. ArticlesInv /\ [Articles!Next]_(Articles!vars) => ArticlesInv'
  BY ArticlesNext
<1>2. ArticlesInv => ImagesAccounted
  BY DEF ArticlesInv
<1> QED BY ArticlesInit, <1>1, <1>2, PTL DEF Articles!Spec

-----------------------------------------------------------------------------
\* The types of both services hold in every behaviour of the instance, in
\* which one of them plays and the other stays as it began.
THEOREM ImagesTyped == ImagesSpec => []TypesOK
<1> DEFINE Inv == CoverTyped /\ CoversAccounted /\ ArticlesInv
<1>1. ImagesInit => Inv
  BY CoverInitTyped, ArticlesInit DEF ImagesInit
<1>2. Inv /\ [ImagesNext]_allVars => Inv'
  <2> SUFFICES ASSUME Inv, [ImagesNext]_allVars PROVE Inv'
    OBVIOUS
  <2>1. [Next]_vars
    BY DEF ImagesNext, PlayCover, PlayArticles, allVars
  <2>2. [Articles!Next]_(Articles!vars)
    BY DEF ImagesNext, PlayCover, PlayArticles, allVars, articleVars, Articles!vars,
           Articles!articles, Articles!removals
  <2> QED BY <2>1, <2>2, CoverNextTyped, ArticlesNext
<1>3. Inv => TypesOK
  BY DEF CoverTyped, ArticlesInv, ArticlesTyped, TypesOK
<1> QED BY <1>1, <1>2, <1>3, PTL DEF ImagesSpec

\* A behaviour of the instance is one of both services.
THEOREM ImagesPlay == ImagesSpec => Spec /\ Articles!Spec
<1>1. ImagesInit => Init /\ Articles!Init
  BY DEF ImagesInit
<1>2. ASSUME [ImagesNext]_allVars PROVE [Next]_vars /\ [Articles!Next]_(Articles!vars)
  <2>1. [Next]_vars
    BY <1>2 DEF ImagesNext, PlayCover, PlayArticles, allVars
  <2>2. [Articles!Next]_(Articles!vars)
    BY <1>2 DEF ImagesNext, PlayCover, PlayArticles, allVars, articleVars, Articles!vars,
                Articles!articles, Articles!removals
  <2> QED BY <2>1, <2>2
<1> QED BY <1>1, <1>2, PTL DEF ImagesSpec, Spec, Articles!Spec

\* So every property holds of the behaviours of the instance too.
THEOREM ImagesHold ==
  ImagesSpec => [](CoverStored /\ CoversAccounted /\ CitedImagesStored /\ ImagesAccounted)
BY ImagesPlay, CoverAlwaysStored, CoverObjectsAccounted, CitedAlwaysStored,
   ArticleImagesAccounted, PTL
=============================================================================
