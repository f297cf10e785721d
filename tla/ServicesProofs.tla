---------------------------- MODULE ServicesProofs ----------------------------
(***************************************************************************)
(* Theorems of CvFile, ShareCard, BlogArticles and Visit, for any number   *)
(* of requests, files, articles, titles, rows and days.                    *)
(***************************************************************************)
EXTENDS MCServices, FiniteSetTheorems, TLAPS

-----------------------------------------------------------------------------
\* The CV.

\* What a request that is alone may rely on: nobody else changes anything, and
\* without an overlap whoever changes something is alone.
Solitude ==
    /\ \A p \in Admins : Changing(p) /\ alone[p] => \A q \in Admins \ {p} : ~Changing(q)
    /\ ~overlapped => \A p \in Admins : Changing(p) => alone[p]
    /\ \A v \in Visitors : Changing(v) = FALSE

\* What it has stored or read is then still so.
SeesItsWork ==
    /\ \A p \in Admins : alone[p] =>
          /\ pc[p] = "upsert" => object = file[p]
          /\ pc[p] = "delete" => row = found[p]
          /\ pc[p] = "drop" => row = Nothing
    /\ \A v \in Visitors : alone[v] /\ pc[v] = "get" => Quiet /\ row = found[v]

CvInv == TypeOK /\ Solitude /\ SeesItsWork /\ CvIsWhole

\* No CV, no request.
LEMMA CvInit == Init => CvInv
<1> SUFFICES ASSUME Init PROVE CvInv
  OBVIOUS
<1>1. TypeOK
  BY DEF Init, TypeOK
<1>2. Solitude /\ SeesItsWork
  BY DEF Init, Solitude, SeesItsWork, Changing, Quiet, Requests
<1>3. CvIsWhole
  BY DEF Init, CvIsWhole, RowStored, RowDescribesObject, DownloadIsWhole, Requests
<1> QED BY <1>1, <1>2, <1>3 DEF CvInv

\* Every step keeps the types.
LEMMA CvNextTyped ==
  ASSUME TypeOK, Solitude, [Next]_vars
  PROVE  TypeOK'
<1> USE CvAssumption DEF Row, TypeOK
<1>r. Requests = Admins \cup Visitors
  BY DEF Requests
<1>1. ASSUME NEW p \in Admins, NEW f \in Files, Upload(p, f) PROVE TypeOK'
  BY <1>r, <1>1 DEF Upload, BeginChange, Goto
<1>2. ASSUME NEW p \in Admins, Put(p) PROVE TypeOK'
  BY <1>r, <1>2 DEF Put, Goto, history
<1>3. ASSUME NEW p \in Admins, Upsert(p) PROVE TypeOK'
  <2>1. row' \in Row
    BY <1>r, <1>3 DEF Upsert, NewRow
  <2> QED BY <1>r, <1>3, <2>1 DEF Upsert, EndChange, Answer, Goto
<1>4. ASSUME NEW p \in Admins, FindRow(p) PROVE TypeOK'
  BY <1>r, <1>4 DEF FindRow, BeginChange, Goto
<1>5. ASSUME NEW p \in Admins, DeleteRow(p) PROVE TypeOK'
  BY <1>r, <1>5 DEF DeleteRow, Goto, history
<1>6. ASSUME NEW p \in Admins, DropObject(p) PROVE TypeOK'
  BY <1>r, <1>6 DEF DropObject, EndChange, Answer, Goto
<1>7. ASSUME NEW p \in Admins, ChangeFails(p) PROVE TypeOK'
  <2>1. Calling(p) \subseteq Files \cup {Nothing}
    BY <1>r, <1>7 DEF ChangeFails, Changing, Calling
  <2>2. object' \in Files \cup {Nothing} /\ late' \subseteq Files \cup {Nothing}
    BY <1>7, <2>1 DEF ChangeFails
  <2> QED BY <1>r, <1>7, <2>2 DEF ChangeFails, Changing, Answer, Goto
<1>8. ASSUME NEW v \in Visitors, FindMetadata(v) PROVE TypeOK'
  <2>1. Quiet \in BOOLEAN
    BY DEF Quiet
  <2>2. alone' \in [Requests -> BOOLEAN]
    BY <1>8, <2>1 DEF FindMetadata
  <2> QED BY <1>r, <1>8, <2>2 DEF FindMetadata, Goto
<1>9. ASSUME NEW v \in Visitors, GetObject(v) PROVE TypeOK'
  BY <1>r, <1>9 DEF GetObject, Answer, Goto, history
<1>10. ASSUME UNCHANGED vars PROVE TypeOK'
  BY <1>10 DEF vars
<1>11. ASSUME NEW f \in Files \cup {Nothing}, Land(f) PROVE TypeOK'
  BY <1>11 DEF Land, requestVars
<1> QED
  BY <1>1, <1>2, <1>3, <1>4, <1>5, <1>6, <1>7, <1>8, <1>9, <1>10, <1>11 DEF Next

\* A change ends the solitude of the others, and is alone if it finds no other.
LEMMA BeginsAlone ==
  ASSUME NEW p \in Requests, BeginChange(p)
  PROVE  /\ Quiet => alone'[p] /\ (overlapped' <=> overlapped)
         /\ ~Quiet => ~alone'[p] /\ overlapped'
         /\ \A q \in Requests \ {p} : ~alone'[q]
<1>1. alone'[p] = (p = p /\ Quiet) /\ \A q \in Requests : alone'[q] = (q = p /\ Quiet)
  BY DEF BeginChange
<1>2. overlapped' = (overlapped \/ ~Quiet)
  BY DEF BeginChange
<1> QED BY <1>1, <1>2

\* Every step of a request, alone or not.
LEMMA CvNext ==
  ASSUME CvInv, [Next]_vars
  PROVE  CvInv'
<1> USE CvAssumption
    DEF CvInv, Solitude, SeesItsWork, Changing, Quiet, CvIsWhole, RowStored,
        RowDescribesObject, DownloadIsWhole
<1>t. TypeOK /\ TypeOK'
  BY CvNextTyped
<1>r. Requests = Admins \cup Visitors
  BY DEF Requests
<1> DEFINE Goal == Solitude' /\ SeesItsWork' /\ CvIsWhole'
<1>1. ASSUME NEW p \in Admins, NEW f \in Files, Upload(p, f) PROVE Goal
  <2>1. /\ Quiet => alone'[p] /\ (overlapped' <=> overlapped)
        /\ ~Quiet => ~alone'[p] /\ overlapped'
        /\ \A q \in Requests \ {p} : ~alone'[q]
    BY <1>r, <1>1, BeginsAlone DEF Upload
  <2> QED BY <1>t, <1>r, <1>1, <2>1 DEF Upload, Goto, TypeOK
<1>2. ASSUME NEW p \in Admins, Put(p) PROVE Goal
  BY <1>t, <1>r, <1>2 DEF Put, Goto, history, TypeOK
<1>3. ASSUME NEW p \in Admins, Upsert(p) PROVE Goal
  <2>1. row'.file = file[p] /\ row' # Nothing
    BY <1>t, <1>r, <1>3 DEF Upsert, NewRow, Row, TypeOK
  <2> QED BY <1>t, <1>r, <1>3, <2>1 DEF Upsert, EndChange, Answer, Goto, TypeOK
<1>4. ASSUME NEW p \in Admins, FindRow(p) PROVE Goal
  <2>1. /\ Quiet => alone'[p] /\ (overlapped' <=> overlapped)
        /\ ~Quiet => ~alone'[p] /\ overlapped'
        /\ \A q \in Requests \ {p} : ~alone'[q]
    BY <1>r, <1>4, BeginsAlone DEF FindRow
  <2> QED BY <1>t, <1>r, <1>4, <2>1 DEF FindRow, Goto, TypeOK
<1>5. ASSUME NEW p \in Admins, DeleteRow(p) PROVE Goal
  BY <1>t, <1>r, <1>5 DEF DeleteRow, Goto, history, TypeOK
<1>6. ASSUME NEW p \in Admins, DropObject(p) PROVE Goal
  BY <1>t, <1>r, <1>6 DEF DropObject, EndChange, Answer, Goto, TypeOK
<1>7. ASSUME NEW p \in Admins, ChangeFails(p) PROVE Goal
  BY <1>t, <1>r, <1>7 DEF ChangeFails, Calling, Answer, Goto, TypeOK
<1>8. ASSUME NEW v \in Visitors, FindMetadata(v) PROVE Goal
  BY <1>t, <1>r, <1>8 DEF FindMetadata, Goto, TypeOK
<1>9. ASSUME NEW v \in Visitors, GetObject(v) PROVE Goal
  BY <1>t, <1>r, <1>9 DEF GetObject, Answer, Goto, history, TypeOK
<1>10. ASSUME UNCHANGED vars PROVE Goal
  BY <1>10 DEF vars, requestVars, history
<1>11. ASSUME NEW f \in Files \cup {Nothing}, Land(f) PROVE Goal
  BY <1>t, <1>r, <1>11 DEF Land, requestVars, TypeOK
<1> QED
  BY <1>t, <1>1, <1>2, <1>3, <1>4, <1>5, <1>6, <1>7, <1>8, <1>9, <1>10, <1>11 DEF Next

\* The row, the object and what is downloaded agree, except across the
\* overlaps and the failures named, and the next change that runs alone
\* repairs them.
THEOREM CvAlwaysWhole == Spec => []CvIsWhole
<1>1. CvInv /\ [Next]_vars => CvInv'
  BY CvNext
<1>2. CvInv => CvIsWhole
  BY DEF CvInv
<1> QED BY CvInit, <1>1, <1>2, PTL DEF Spec

-----------------------------------------------------------------------------
\* The share cards.

CardInv == Cards!TypeOK /\ StaleOnlyByOverlap

\* No card is derived yet.
LEMMA CardInit == Cards!Init => CardInv
  BY DEF Cards!Init, CardInv, Cards!TypeOK, StaleOnlyByOverlap, Cards!StaleOnlyByOverlap,
         Cards!Object, Cards!Clients, Cards!AtRest

\* Every step of a reader and of a writer.
LEMMA CardNext ==
  ASSUME CardInv, [Cards!Next]_(Cards!vars)
  PROVE  CardInv'
<1> USE DEF CardInv, Cards!TypeOK, StaleOnlyByOverlap, Cards!StaleOnlyByOverlap,
            Cards!AtRest, Cards!Goto
<1>c. Cards!Clients = Readers \cup Writers /\ NoObject \in Cards!Object
  BY DEF Cards!Clients, Cards!Object
<1>1. ASSUME NEW r \in Readers, Cards!GetCard(r) PROVE CardInv'
  BY <1>c, <1>1 DEF Cards!GetCard
<1>2. ASSUME NEW r \in Readers, Cards!FetchOriginal(r) PROVE CardInv'
  BY <1>c, <1>2 DEF Cards!FetchOriginal
<1>3. ASSUME NEW r \in Readers, Cards!StoreCard(r) PROVE CardInv'
  BY <1>c, <1>3 DEF Cards!StoreCard
<1>4. ASSUME NEW r \in Readers, Cards!ReaderFails(r) PROVE CardInv'
  BY <1>c, <1>4 DEF Cards!ReaderFails
<1>5. ASSUME NEW w \in Writers, NEW content \in Cards!Object, Cards!WriteOriginal(w, content)
      PROVE CardInv'
  BY <1>c, <1>5 DEF Cards!WriteOriginal
<1>6. ASSUME NEW w \in Writers, Cards!DiscardCard(w) PROVE CardInv'
  BY <1>c, <1>6 DEF Cards!DiscardCard
<1>7. ASSUME NEW w \in Writers, Cards!DiscardFails(w) PROVE CardInv'
  BY <1>c, <1>7 DEF Cards!DiscardFails
<1>8. ASSUME UNCHANGED Cards!vars PROVE CardInv'
  BY <1>8 DEF Cards!vars
<1> QED
  BY <1>1, <1>2, <1>3, <1>4, <1>5, <1>6, <1>7, <1>8 DEF Cards!Next

\* When no change of the original is in progress, a stored card is of that
\* original, unless a card was stored across a change or a deletion of the
\* card has failed.
THEOREM CardStaleOnlyByOverlap == Cards!Spec => []StaleOnlyByOverlap
<1>1. CardInv /\ [Cards!Next]_(Cards!vars) => CardInv'
  BY CardNext
<1>2. CardInv => StaleOnlyByOverlap
  BY DEF CardInv
<1> QED BY CardInit, <1>1, <1>2, PTL DEF Cards!Spec

-----------------------------------------------------------------------------
\* The links of the articles.

\* A published article is dated, one that never was published has no link,
\* and an article without a row has none either.
RowsAreDated ==
    \A p \in Posts :
        /\ posts[p] = NoPost => links[p] = {}
        /\ posts[p] # NoPost /\ posts[p].status = "published" => posts[p].dated
        /\ posts[p] # NoPost /\ ~posts[p].dated => links[p] = {}

\* What an update has read was dated if it was published, and a date is never
\* taken back: the row it will write is dated if what it has read was.
ReadsAreDated ==
    \A e \in Editors : subject[e] # NoPost =>
        /\ current[e].status = "published" => current[e].dated
        /\ posts[subject[e]] = NoPost => subject[e] \in removed
        /\ posts[subject[e]] # NoPost /\ current[e].dated => posts[subject[e]].dated

\* The link of an article is its slug, unless it was torn.
LinksAreSlugs ==
    \A p \in Posts : posts[p] # NoPost =>
        /\ p \notin torn => links[p] \subseteq {posts[p].slug}
        /\ posts[p].status = "published" => posts[p].slug \in links[p]

LinksInv == Articles!TypeOK /\ RowsAreDated /\ ReadsAreDated /\ LinksAreSlugs

\* No article, no link.
LEMMA LinksInit == Articles!Init => LinksInv
<1> USE ArticlesAssumption DEF Articles!BlogArticlesAssumption
<1>1. Articles!NoPatch \in Articles!Patch
  BY DEF Articles!NoPatch, Articles!Patch
<1> QED
  BY <1>1 DEF Articles!Init, LinksInv, Articles!TypeOK, RowsAreDated, ReadsAreDated, LinksAreSlugs

\* What an update writes is a row, dated if it is published or if what it
\* replaces was; its slug stays if it is dated and was so for the update.
LEMMA PatchedRow ==
  ASSUME NEW post \in Articles!Post, NEW read \in Articles!Post, NEW patch \in Articles!Patch
  PROVE  LET new == Articles!Patched(post, read, patch) IN
         /\ new \in Articles!Post
         /\ post.dated => new.dated
         /\ read.dated => new.slug = post.slug
         /\ /\ post.status = "published" => post.dated
            /\ read.status = "published" => read.dated
            /\ read.dated => post.dated
            => (new.status = "published" => new.dated)
<1> USE ArticlesAssumption
    DEF Articles!BlogArticlesAssumption, Articles!Post, Articles!Patch, Articles!Status,
        Articles!Patched, Articles!FollowsTitle, Articles!Dated, Articles!Publishing
<1>1. Articles!Patched(post, read, patch) \in Articles!Post
  OBVIOUS
<1> QED BY <1>1

\* Every step of an editor.
LEMMA LinksNext ==
  ASSUME LinksInv, [Articles!Next]_(Articles!vars)
  PROVE  LinksInv'
<1> USE ArticlesAssumption
    DEF Articles!BlogArticlesAssumption, LinksInv, RowsAreDated, ReadsAreDated, LinksAreSlugs
<1>t. Articles!TypeOK
  OBVIOUS
<1>p. Articles!NoPatch \in Articles!Patch
  BY DEF Articles!NoPatch, Articles!Patch
<1>1. ASSUME NEW p \in Posts, NEW slug \in Slugs, NEW status \in Articles!Status,
             Articles!Create(p, slug, status)
      PROVE  LinksInv'
  <2> DEFINE post == [slug |-> slug, status |-> status, dated |-> status = "published"]
  <2>1. post \in Articles!Post
    BY DEF Articles!Post, Articles!Status
  <2>2. post # NoPost /\ post.slug = slug /\ post.status = status /\ (post.dated <=> status = "published")
    BY <2>1
  <2>3. posts' = [posts EXCEPT ![p] = post] /\ UNCHANGED <<removed, subject, body, current, torn>>
    BY <1>1 DEF Articles!Create, Articles!Store, Articles!request
  <2>4. links' = [links EXCEPT ![p] = IF status = "published" THEN @ \cup {slug} ELSE @]
    BY <1>1 DEF Articles!Create, Articles!Store
  <2>5. posts[p] = NoPost /\ p \notin removed
    BY <1>1 DEF Articles!Create
  <2> HIDE DEF post
  <2>6. Articles!TypeOK'
    BY <1>t, <2>1, <2>2, <2>3, <2>4, <2>5 DEF Articles!TypeOK
  <2> QED BY <1>t, <2>2, <2>3, <2>4, <2>5, <2>6 DEF Articles!TypeOK
<1>2. ASSUME NEW e \in Editors, NEW p \in Posts, NEW patch \in Articles!Patch,
             Articles!Find(e, p, patch)
      PROVE  LinksInv'
  BY <1>t, <1>2 DEF Articles!Find, Articles!TypeOK
<1>3. ASSUME NEW e \in Editors, Articles!Update(e) PROVE LinksInv'
  <2> DEFINE p == subject[e]
             post == Articles!Patched(posts[p], current[e], body[e])
  <2>1. p \in Posts /\ posts[p] \in Articles!Post /\ current[e] \in Articles!Post
    BY <1>t, <1>3 DEF Articles!Update, Articles!TypeOK
  <2>2. /\ post \in Articles!Post
        /\ posts[p].dated => post.dated
        /\ current[e].dated => post.slug = posts[p].slug
        /\ post.status = "published" => post.dated
    <3>1. body[e] \in Articles!Patch
      BY <1>t DEF Articles!TypeOK
    <3>2. /\ posts[p].status = "published" => posts[p].dated
          /\ current[e].status = "published" => current[e].dated
          /\ current[e].dated => posts[p].dated
      BY <1>3, <2>1 DEF Articles!Update
    <3> HIDE DEF LinksInv, RowsAreDated, ReadsAreDated, LinksAreSlugs
    <3> QED BY <2>1, <3>1, <3>2, PatchedRow
  <2>3. /\ posts' = [posts EXCEPT ![p] = post]
        /\ links' = [links EXCEPT ![p] =
                       IF post.status = "published" THEN @ \cup {post.slug} ELSE @]
    BY <1>3 DEF Articles!Update, Articles!Store
  <2>4. /\ torn' = IF posts[p].dated = current[e].dated THEN torn ELSE torn \cup {p}
        /\ UNCHANGED removed
    BY <1>3 DEF Articles!Update
  <2>5. /\ subject' = [subject EXCEPT ![e] = NoPost]
        /\ body' = [body EXCEPT ![e] = Articles!NoPatch]
        /\ current' = [current EXCEPT ![e] = NoPost]
    BY <1>3 DEF Articles!Update, Articles!Answer
  <2>6. post # NoPost /\ post.slug \in Slugs /\ posts[p].dated \in BOOLEAN /\ current[e].dated \in BOOLEAN
    BY <2>1, <2>2 DEF Articles!Post
  <2> HIDE DEF p, post
  <2>7. Articles!TypeOK'
    BY <1>t, <1>p, <2>1, <2>2, <2>3, <2>4, <2>5, <2>6 DEF Articles!TypeOK
  <2>8. RowsAreDated' /\ ReadsAreDated'
    BY <1>t, <2>1, <2>2, <2>3, <2>4, <2>5, <2>6 DEF Articles!TypeOK
  <2>9. LinksAreSlugs'
    BY <1>t, <2>1, <2>2, <2>3, <2>4, <2>6 DEF Articles!TypeOK
  <2> QED BY <2>7, <2>8, <2>9
<1>4. ASSUME NEW e \in Editors, Articles!UpdateFails(e) PROVE LinksInv'
  BY <1>t, <1>p, <1>4 DEF Articles!UpdateFails, Articles!Answer, Articles!TypeOK
<1>5. ASSUME NEW p \in Posts, Articles!Remove(p) PROVE LinksInv'
  BY <1>t, <1>5 DEF Articles!Remove, Articles!request, Articles!TypeOK
<1>6. ASSUME UNCHANGED Articles!vars PROVE LinksInv'
  BY <1>t, <1>6 DEF Articles!vars, Articles!request, Articles!TypeOK
<1> QED
  BY <1>1, <1>2, <1>3, <1>4, <1>5, <1>6 DEF Articles!Next

\* The links of a public article all lead to it, whatever updates, withdrawals
\* and removals overlap, unless its first publication fell between the read
\* and the write of another update.
THEOREM LinksAlwaysHold == Articles!Spec => []LinksHold
<1>1. LinksInv /\ [Articles!Next]_(Articles!vars) => LinksInv'
  BY LinksNext
<1>2. LinksInv => LinksHold
  BY DEF LinksInv, LinksAreSlugs, LinksHold, Articles!LinksHold, Articles!Public
<1> QED BY LinksInit, <1>1, <1>2, PTL DEF Articles!Spec

-----------------------------------------------------------------------------
\* The counts of the visits.

\* A set of naturals that is not empty has a least element; Min chooses it.
LEMMA MinOfNaturals ==
  ASSUME NEW S \in SUBSET Nat, S # {}
  PROVE  Audience!Min(S) \in S
<1> DEFINE R == OpToRel(<, Nat)
<1>1. IsWellFoundedOn(R, Nat)
  BY NatLessThanWellFounded, Zenon
<1>2. \A i, j \in Nat : i < j => <<i, j>> \in R
  BY DEF OpToRel
<1> HIDE DEF R
<1>3. PICK m \in S : \A n \in S : ~ (<<n, m>> \in R)
  BY <1>1, WFMin, Zenon
<1>4. ASSUME NEW n \in S PROVE m <= n
  <2>1. n \in Nat /\ m \in Nat /\ ~ (<<n, m>> \in R)
    BY <1>3
  <2>2. ~ (n < m)
    BY <1>2, <2>1
  <2> QED BY <2>1, <2>2
<1> QED BY <1>4 DEF Audience!Min

\* A request that looks for a page was sent one, without its anchor, today or
\* before; the row it adds a duration to is there.
BeaconIsDated(b) ==
    /\ step[b] # "idle" => event[b] \in Audience!Event /\ event[b].visit.day <= day
    /\ step[b] \in {"select", "insert", "add"} =>
          event[b].kind \in {"view", "duration"} /\ ~event[b].url.anchor
    /\ step[b] = "add" => seen[b] \in Audience!Views

\* A row is of the day it was inserted, of a visit of that day or before, and
\* without anchor.
ViewsAreDated ==
    \A r \in Audience!Views :
        /\ ~views[r].url.anchor
        /\ views[r].visit.day <= views[r].day
        /\ views[r].day <= day

\* Two rows of one page in one visit on one day were inserted side by side.
DoublesAreKnown ==
    \A r, s \in Audience!Views :
        /\ r # s
        /\ views[r].visit = views[s].visit
        /\ views[r].url = views[s].url
        /\ views[r].day = views[s].day
        => views[r].day \in doubled

AudienceInv ==
    Audience!TypeOK /\ (\A b \in Beacons : BeaconIsDated(b)) /\ ViewsAreDated /\ DoublesAreKnown

\* The fields of the events and of the rows.
LEMMA EventFields ==
  ASSUME NEW e \in Audience!Event
  PROVE  /\ e.visit \in Audience!Fingerprint /\ e.visit.day \in Days
         /\ e.kind \in {"view", "duration"} => e.url \in Audience!Url
<1>1. CASE e \in [kind : {"view", "duration"}, visit : Audience!Fingerprint, url : Audience!Url]
  BY <1>1 DEF Audience!Fingerprint
<1>2. CASE e \in [kind : {"engagement"}, visit : Audience!Fingerprint]
  BY <1>2 DEF Audience!Fingerprint
<1> QED BY <1>1, <1>2 DEF Audience!Event

\* The columns of a page view.
LEMMA ViewFields ==
  ASSUME NEW v \in Audience!View
  PROVE  /\ v.visit \in Audience!Fingerprint /\ v.visit.day \in Days /\ v.url \in Audience!Url
         /\ v.day \in Days /\ v.source \in Audience!Source /\ v.duration \in Audience!Duration
         /\ v # Nothing
<1>1. v # Nothing
  BY AudienceAssumption DEF Audience!VisitAssumption
<1> QED BY <1>1 DEF Audience!View, Audience!Fingerprint

\* No view at the start.
LEMMA AudienceInit == Audience!Init => AudienceInv
  BY AudienceAssumption
  DEF Audience!VisitAssumption, Audience!Init, Audience!NoEvent, AudienceInv, Audience!TypeOK,
      BeaconIsDated, ViewsAreDated, DoublesAreKnown, Audience!Views

Steps == {"idle", "select", "insert", "add", "insert event"}

\* A step of one request keeps the invariant if what that request holds then,
\* the rows and the days are right: the other requests stay as they were.
LEMMA BeaconSteps ==
  ASSUME AudienceInv, NEW b \in Beacons,
         day' = day, events' \subseteq [visit : Audience!Fingerprint, day : Days],
         \E phase \in Steps, e \in Audience!Event \cup {Nothing}, r \in Rows \cup {Nothing} :
            /\ step' = [step EXCEPT ![b] = phase]
            /\ event' = [event EXCEPT ![b] = e]
            /\ seen' = [seen EXCEPT ![b] = r],
         BeaconIsDated(b)',
         views' \in [Rows -> Audience!View \cup {Nothing}], Audience!Views \subseteq Audience!Views',
         doubled' \subseteq Days, ViewsAreDated', DoublesAreKnown'
  PROVE  AudienceInv'
<1>1. Audience!TypeOK'
  BY DEF AudienceInv, Audience!TypeOK, Audience!NoEvent, Steps
<1>2. ASSUME NEW c \in Beacons, c # b PROVE BeaconIsDated(c)'
  BY <1>2 DEF AudienceInv, Audience!TypeOK, BeaconIsDated
<1> QED BY <1>1, <1>2 DEF AudienceInv

\* The same of one that leaves the rows alone.
LEMMA BeaconOnlySteps ==
  ASSUME AudienceInv, NEW b \in Beacons,
         day' = day, events' \subseteq [visit : Audience!Fingerprint, day : Days],
         \E phase \in Steps, e \in Audience!Event \cup {Nothing}, r \in Rows \cup {Nothing} :
            /\ step' = [step EXCEPT ![b] = phase]
            /\ event' = [event EXCEPT ![b] = e]
            /\ seen' = [seen EXCEPT ![b] = r],
         BeaconIsDated(b)', views' = views, doubled' = doubled
  PROVE  AudienceInv'
<1>1. Audience!Views' = Audience!Views
  BY DEF Audience!Views
<1>2. ViewsAreDated' /\ DoublesAreKnown'
  BY <1>1 DEF AudienceInv, ViewsAreDated, DoublesAreKnown
<1>3. views' \in [Rows -> Audience!View \cup {Nothing}] /\ doubled' \subseteq Days
  BY DEF AudienceInv, Audience!TypeOK
<1> QED BY <1>1, <1>2, <1>3, BeaconSteps

\* How a request ends.
LEMMA BeaconAnswers ==
  ASSUME AudienceInv, NEW b \in Beacons, Audience!Answer(b)
  PROVE  /\ \E phase \in Steps, e \in Audience!Event \cup {Nothing}, r \in Rows \cup {Nothing} :
               /\ step' = [step EXCEPT ![b] = phase]
               /\ event' = [event EXCEPT ![b] = e]
               /\ seen' = [seen EXCEPT ![b] = r]
         /\ BeaconIsDated(b)'
<1>1. /\ step' = [step EXCEPT ![b] = "idle"]
      /\ event' = [event EXCEPT ![b] = Nothing]
      /\ seen' = [seen EXCEPT ![b] = Nothing]
  BY DEF Audience!Answer, Audience!Goto, Audience!NoEvent
<1>2. step'[b] = "idle"
  BY <1>1 DEF AudienceInv, Audience!TypeOK
<1> QED BY <1>1, <1>2 DEF Steps, BeaconIsDated

\* A request that begins with an event of today.
LEMMA TrackInv ==
  ASSUME AudienceInv, NEW b \in Beacons,
         NEW e \in Audience!Event, e.visit.day <= day, NEW phase \in {"select", "insert event"},
         phase = "select" => e.kind \in {"view", "duration"} /\ ~e.url.anchor,
         step' = [step EXCEPT ![b] = phase], event' = [event EXCEPT ![b] = e],
         UNCHANGED <<day, views, events, seen, doubled>>
  PROVE  AudienceInv'
<1>t. Audience!TypeOK /\ day \in Nat
  BY AudienceAssumption DEF AudienceInv, Audience!TypeOK, Audience!VisitAssumption
<1>1. step'[b] = phase /\ event'[b] = e
  BY <1>t DEF Audience!TypeOK
<1>2. BeaconIsDated(b)'
  <2>1. day' = day /\ e.visit.day <= day
    OBVIOUS
  <2>2. CASE phase = "select"
    BY <1>1, <2>1, <2>2 DEF BeaconIsDated
  <2>3. CASE phase = "insert event"
    BY <1>1, <2>1, <2>3 DEF BeaconIsDated
  <2> QED BY <2>2, <2>3
<1>3. seen' = [seen EXCEPT ![b] = seen[b]] /\ seen[b] \in Rows \cup {Nothing}
  BY <1>t DEF Audience!TypeOK
<1>4. phase \in Steps /\ events' \subseteq [visit : Audience!Fingerprint, day : Days]
  BY <1>t DEF Audience!TypeOK, Steps
<1>5. \E ph \in Steps, ev \in Audience!Event \cup {Nothing}, r \in Rows \cup {Nothing} :
         /\ step' = [step EXCEPT ![b] = ph]
         /\ event' = [event EXCEPT ![b] = ev]
         /\ seen' = [seen EXCEPT ![b] = r]
  BY <1>3, <1>4
<1> QED BY <1>2, <1>4, <1>5, BeaconOnlySteps

\* The look-up of a page view changes no row.
LEMMA FindViewInv ==
  ASSUME AudienceInv, NEW b \in Beacons, Audience!FindView(b)
  PROVE  AudienceInv'
<1>t. Audience!TypeOK
  BY DEF AudienceInv
<1>u. UNCHANGED <<day, views, events, doubled>> /\ step[b] = "select"
  BY DEF Audience!FindView
<1>e. events' \subseteq [visit : Audience!Fingerprint, day : Days]
  BY <1>t, <1>u DEF Audience!TypeOK
<1>s. event[b] \in Audience!Event \cup {Nothing} /\ seen[b] \in Rows \cup {Nothing}
  BY <1>t DEF Audience!TypeOK, Audience!NoEvent
<1>b. BeaconIsDated(b)
  BY DEF AudienceInv
<1> DEFINE Goal ==
       /\ \E phase \in Steps, e \in Audience!Event \cup {Nothing}, r \in Rows \cup {Nothing} :
             /\ step' = [step EXCEPT ![b] = phase]
             /\ event' = [event EXCEPT ![b] = e]
             /\ seen' = [seen EXCEPT ![b] = r]
       /\ BeaconIsDated(b)'
<1>1. ASSUME NEW r \in Audience!SameView(b), seen' = [seen EXCEPT ![b] = r],
             Audience!Goto(b, "add"), UNCHANGED event
      PROVE  Goal
  <2>1. r \in Rows /\ r \in Audience!Views
    BY DEF Audience!SameView, Audience!Views
  <2>2. step' = [step EXCEPT ![b] = "add"] /\ event' = [event EXCEPT ![b] = event[b]]
    BY <1>t, <1>1 DEF Audience!Goto, Audience!TypeOK
  <2>3. step'[b] = "add" /\ seen'[b] = r /\ event'[b] = event[b]
    BY <1>t, <1>1, <2>2 DEF Audience!TypeOK
  <2>4. BeaconIsDated(b)'
    BY <1>u, <1>b, <2>1, <2>3 DEF BeaconIsDated, Audience!Views
  <2>5. "add" \in Steps
    BY DEF Steps
  <2> QED BY <1>s, <1>1, <2>1, <2>2, <2>4, <2>5
<1>2. ASSUME Audience!Goto(b, "insert"), UNCHANGED <<event, seen>> PROVE Goal
  <2>1. /\ step' = [step EXCEPT ![b] = "insert"] /\ event' = [event EXCEPT ![b] = event[b]]
        /\ seen' = [seen EXCEPT ![b] = seen[b]]
    BY <1>t, <1>2 DEF Audience!Goto, Audience!TypeOK
  <2>2. step'[b] = "insert" /\ event'[b] = event[b]
    BY <1>t, <2>1 DEF Audience!TypeOK
  <2>3. BeaconIsDated(b)'
    BY <1>u, <1>b, <2>2 DEF BeaconIsDated
  <2>4. "insert" \in Steps
    BY DEF Steps
  <2> QED BY <1>s, <2>1, <2>3, <2>4
<1>3. ASSUME Audience!Answer(b) PROVE Goal
  BY <1>3, BeaconAnswers
<1>4. Goal
  <2> HIDE DEF Goal
  <2> QED BY <1>1, <1>2, <1>3 DEF Audience!FindView
<1> QED BY <1>u, <1>e, <1>4, BeaconOnlySteps

\* A row inserted in the first free place.
LEMMA InsertViewInv ==
  ASSUME AudienceInv, NEW b \in Beacons, Audience!InsertView(b)
  PROVE  AudienceInv'
<1> DEFINE n == Audience!Min(Rows \ Audience!Views)
<1>t. Audience!TypeOK /\ BeaconIsDated(b) /\ ViewsAreDated /\ DoublesAreKnown /\ Days \subseteq Nat
  BY AudienceAssumption DEF AudienceInv, Audience!VisitAssumption
<1>1. n \in Rows /\ n \notin Audience!Views /\ views[n] = Nothing
  <2>1. Rows \ Audience!Views \in SUBSET Nat /\ Rows \ Audience!Views # {}
    BY AudienceAssumption DEF Audience!InsertView, Audience!VisitAssumption, Audience!Views
  <2>2. n \in Rows \ Audience!Views
    BY <2>1, MinOfNaturals
  <2> QED BY <2>2 DEF Audience!Views
<1>2. PICK referrer \in Audience!Source, duration \in Audience!Duration :
         views' = [views EXCEPT ![n] =
                     [visit |-> event[b].visit, url |-> event[b].url, day |-> day,
                      source |-> Audience!NormalizeReferrer(referrer), duration |-> duration]]
  BY DEF Audience!InsertView
<1> DEFINE v == [visit |-> event[b].visit, url |-> event[b].url, day |-> day,
                 source |-> Audience!NormalizeReferrer(referrer), duration |-> duration]
<1>3. /\ event[b] \in Audience!Event /\ event[b].visit.day <= day
      /\ event[b].kind \in {"view", "duration"} /\ ~event[b].url.anchor
  BY <1>t DEF Audience!InsertView, BeaconIsDated
<1>4. event[b].visit \in Audience!Fingerprint /\ event[b].url \in Audience!Url
  BY <1>3, EventFields
<1>5. Audience!NormalizeReferrer(referrer) \in Audience!Source
  BY DEF Audience!NormalizeReferrer, Audience!Source
<1>6. day \in Days
  BY <1>t DEF Audience!TypeOK
<1>7. v \in Audience!View
  BY <1>4, <1>5, <1>6 DEF Audience!View
<1>8. /\ v.day = day /\ v.visit = event[b].visit /\ v.url = event[b].url
      /\ v # Nothing
  BY <1>7, ViewFields
<1>9. views' = [views EXCEPT ![n] = v]
  BY <1>2
<1> HIDE DEF n, v
<1>10. /\ doubled' = doubled \cup {views[r].day : r \in Audience!SameView(b)}
       /\ day' = day /\ events' = events /\ Audience!Answer(b)
  BY DEF Audience!InsertView
<1>11. \A r \in Audience!Views : r \in Rows /\ views[r] \in Audience!View /\ views[r] # Nothing
  BY <1>t DEF Audience!Views, Audience!TypeOK
<1>12. doubled' \subseteq Days
  <2>1. \A r \in Audience!Views : views[r].day \in Days
    BY <1>11, ViewFields
  <2> QED BY <1>t, <1>10, <2>1 DEF Audience!SameView, Audience!TypeOK
<1>13. views' \in [Rows -> Audience!View \cup {Nothing}]
  BY <1>t, <1>7, <1>9 DEF Audience!TypeOK
<1>14. views'[n] = v /\ \A q \in Rows \ {n} : views'[q] = views[q]
  BY <1>t, <1>1, <1>9 DEF Audience!TypeOK
<1>15. Audience!Views' = Audience!Views \cup {n}
  BY <1>1, <1>8, <1>14 DEF Audience!Views
<1>16. ViewsAreDated'
  <2>1. ASSUME NEW r \in Audience!Views'
        PROVE  /\ ~views'[r].url.anchor
               /\ views'[r].visit.day <= views'[r].day
               /\ views'[r].day <= day'
    <3>1. CASE r = n
      <4>1. day <= day
        BY <1>t, <1>6
      <4> QED BY <1>3, <1>8, <1>10, <1>14, <3>1, <4>1
    <3>2. CASE r # n
      BY <1>t, <1>10, <1>11, <1>14, <1>15, <2>1, <3>2 DEF ViewsAreDated
    <3> QED BY <3>1, <3>2
  <2> QED BY <2>1 DEF ViewsAreDated
<1>17. ASSUME NEW r \in Audience!Views,
              views[r].visit = v.visit, views[r].url = v.url, views[r].day = day
       PROVE  day \in doubled'
  <2>1. views[r].day >= event[b].visit.day
    BY <1>t, <1>3, <1>4, <1>6, <1>17 DEF Audience!Fingerprint
  <2>2. r \in Audience!SameView(b)
    BY <1>8, <1>17, <2>1 DEF Audience!SameView
  <2> QED BY <1>10, <1>17, <2>2
<1>18. DoublesAreKnown'
  <2>1. SUFFICES ASSUME NEW r \in Audience!Views', NEW s \in Audience!Views', r # s,
                        views'[r].visit = views'[s].visit, views'[r].url = views'[s].url,
                        views'[r].day = views'[s].day
                 PROVE  views'[r].day \in doubled'
    BY DEF DoublesAreKnown
  <2>2. CASE r = n
    BY <1>8, <1>11, <1>14, <1>15, <1>17, <2>1, <2>2
  <2>3. CASE s = n
    BY <1>8, <1>11, <1>14, <1>15, <1>17, <2>1, <2>3
  <2>4. CASE r # n /\ s # n
    BY <1>t, <1>10, <1>11, <1>14, <1>15, <2>1, <2>4 DEF DoublesAreKnown
  <2> QED BY <2>2, <2>3, <2>4
<1>19. events' \subseteq [visit : Audience!Fingerprint, day : Days]
  BY <1>t, <1>10 DEF Audience!TypeOK
<1> QED BY <1>10, <1>12, <1>13, <1>15, <1>16, <1>18, <1>19, BeaconAnswers, BeaconSteps

\* A duration added to the row a request has found.
LEMMA AddDurationInv ==
  ASSUME AudienceInv, NEW b \in Beacons, Audience!AddDuration(b)
  PROVE  AudienceInv'
<1> DEFINE r == seen[b]
<1>t. /\ Audience!TypeOK /\ BeaconIsDated(b) /\ ViewsAreDated /\ DoublesAreKnown
      /\ MaxDuration \in Nat \ {0}
  BY AudienceAssumption DEF AudienceInv, Audience!VisitAssumption
<1>1. r \in Rows /\ views[r] \in Audience!View
  BY <1>t DEF Audience!AddDuration, BeaconIsDated, Audience!Views, Audience!TypeOK
<1>2. PICK seconds \in 1..MaxDuration :
         views' = [views EXCEPT ![r].duration = Audience!Added(@, seconds)]
  BY DEF Audience!AddDuration
<1> DEFINE v == [views[r] EXCEPT !.duration = Audience!Added(views[r].duration, seconds)]
<1>3. Audience!Added(views[r].duration, seconds) \in Audience!Duration
  <2>1. Audience!Known(views[r].duration) \in Nat
    <3>1. views[r].duration \in Audience!Duration
      BY <1>1, ViewFields
    <3> QED BY <1>t, <3>1 DEF Audience!Duration, Audience!Known
  <2> DEFINE k == Audience!Known(views[r].duration)
             S == {MaxDuration, k + seconds}
  <2>2. seconds \in Nat /\ seconds >= 1 /\ k \in Nat
    BY <1>t, <2>1
  <2> HIDE DEF k
  <2>3. \E m \in S : \A j \in S : m <= j
    BY <1>t, <2>2
  <2>4. Audience!Min(S) \in S /\ \A j \in S : Audience!Min(S) <= j
    BY <2>3 DEF Audience!Min
  <2>5. Audience!Min(S) \in 1..MaxDuration
    BY <1>t, <2>2, <2>4
  <2> QED BY <2>5 DEF k, Audience!Added, Audience!Duration
<1>4. /\ v \in Audience!View
      /\ v.day = views[r].day /\ v.visit = views[r].visit /\ v.url = views[r].url
  BY <1>1, <1>3 DEF Audience!View
<1>5. views' = [views EXCEPT ![r] = v]
  BY <1>t, <1>1, <1>2 DEF Audience!TypeOK
<1>6. Audience!Answer(b) /\ UNCHANGED <<day, events, doubled>>
  BY DEF Audience!AddDuration
<1> HIDE DEF r, v
<1>7. v # Nothing /\ views[r] # Nothing
  BY <1>1, <1>4, ViewFields
<1>8. views' \in [Rows -> Audience!View \cup {Nothing}]
  BY <1>t, <1>4, <1>5 DEF Audience!TypeOK
<1>9. views'[r] = v /\ \A q \in Rows \ {r} : views'[q] = views[q]
  BY <1>t, <1>1, <1>5 DEF Audience!TypeOK
<1>10. /\ Audience!Views' = Audience!Views
       /\ \A q \in Audience!Views : /\ views'[q].day = views[q].day
                                    /\ views'[q].visit = views[q].visit
                                    /\ views'[q].url = views[q].url
  BY <1>1, <1>4, <1>7, <1>9 DEF Audience!Views
<1>11. ViewsAreDated' /\ DoublesAreKnown'
  BY <1>t, <1>6, <1>10 DEF ViewsAreDated, DoublesAreKnown
<1>12. events' \subseteq [visit : Audience!Fingerprint, day : Days] /\ doubled' \subseteq Days
  BY <1>t, <1>6 DEF Audience!TypeOK
<1> QED BY <1>6, <1>8, <1>10, <1>11, <1>12, BeaconAnswers, BeaconSteps

\* Every step of a beacon, and midnight.
LEMMA AudienceNext ==
  ASSUME AudienceInv, [Audience!Next]_(Audience!vars)
  PROVE  AudienceInv'
<1>t. Audience!TypeOK /\ Days \subseteq Nat /\ day \in Days
  BY AudienceAssumption DEF AudienceInv, Audience!VisitAssumption, Audience!TypeOK
<1>1. ASSUME NEW b \in Beacons, NEW device \in Devices, NEW kind \in {"view", "duration"},
             NEW url \in Audience!Url, Audience!Track(b, kind, device, url)
      PROVE  AudienceInv'
  <2> DEFINE e == [kind |-> kind, url |-> Audience!WithoutFragment(url),
                   visit |-> [device |-> device, day |-> day]]
  <2>1. Audience!WithoutFragment(url) \in Audience!Url /\ ~Audience!WithoutFragment(url).anchor
    BY DEF Audience!WithoutFragment, Audience!Url
  <2>2. /\ e \in [kind : {"view", "duration"}, visit : Audience!Fingerprint, url : Audience!Url]
        /\ e.visit.day <= day /\ e.kind = kind /\ ~e.url.anchor
    BY <1>t, <2>1 DEF Audience!Fingerprint
  <2>3. /\ event' = [event EXCEPT ![b] = e] /\ step' = [step EXCEPT ![b] = "select"]
        /\ UNCHANGED <<day, views, events, seen, doubled>>
    BY <1>1 DEF Audience!Track, Audience!Goto
  <2>4. e \in Audience!Event
    BY <2>2 DEF Audience!Event
  <2> HIDE DEF e
  <2> QED BY <2>2, <2>3, <2>4, TrackInv
<1>2. ASSUME NEW b \in Beacons, NEW device \in Devices, Audience!TrackEvent(b, device)
      PROVE  AudienceInv'
  <2> DEFINE e == [kind |-> "engagement", visit |-> [device |-> device, day |-> day]]
  <2>1. e \in [kind : {"engagement"}, visit : Audience!Fingerprint] /\ e.visit.day <= day
    BY <1>t DEF Audience!Fingerprint
  <2>2. /\ event' = [event EXCEPT ![b] = e] /\ step' = [step EXCEPT ![b] = "insert event"]
        /\ UNCHANGED <<day, views, events, seen, doubled>>
    BY <1>2 DEF Audience!TrackEvent, Audience!Goto
  <2>3. e \in Audience!Event
    BY <2>1 DEF Audience!Event
  <2> HIDE DEF e
  <2> QED BY <2>1, <2>2, <2>3, TrackInv
<1>3. ASSUME NEW b \in Beacons, Audience!InsertEvent(b) PROVE AudienceInv'
  <2>1. event[b] \in Audience!Event
    BY <1>3 DEF AudienceInv, BeaconIsDated, Audience!InsertEvent
  <2>2. [visit |-> event[b].visit, day |-> day] \in [visit : Audience!Fingerprint, day : Days]
    BY <1>t, <2>1, EventFields
  <2>3. events' \subseteq [visit : Audience!Fingerprint, day : Days]
    BY <1>t, <1>3, <2>2 DEF Audience!InsertEvent, Audience!TypeOK
  <2> QED BY <1>3, <2>3, BeaconAnswers, BeaconOnlySteps DEF Audience!InsertEvent
<1>4. ASSUME NEW b \in Beacons, Audience!TrackFails(b) PROVE AudienceInv'
  <2>1. events' \subseteq [visit : Audience!Fingerprint, day : Days]
    BY <1>t, <1>4 DEF Audience!TrackFails, Audience!TypeOK
  <2> QED BY <1>4, <2>1, BeaconAnswers, BeaconOnlySteps DEF Audience!TrackFails
<1>5. ASSUME Audience!Midnight PROVE AudienceInv'
  <2>1. /\ day' = day + 1 /\ day' \in Days /\ day \in Nat
        /\ UNCHANGED <<views, events, step, event, seen, doubled>>
    BY <1>t, <1>5 DEF Audience!Midnight
  <2>2. \A r \in Audience!Views : views[r].day \in Nat
    <3>1. \A r \in Audience!Views : views[r] \in Audience!View
      BY <1>t DEF Audience!Views, Audience!TypeOK
    <3> QED BY <1>t, <3>1, ViewFields
  <2>3. \A b \in Beacons : step[b] # "idle" => event[b].visit.day \in Nat
    BY <1>t, EventFields DEF AudienceInv, BeaconIsDated
  <2>4. Audience!TypeOK'
    BY <1>t, <2>1 DEF Audience!TypeOK
  <2>5. ASSUME NEW b \in Beacons PROVE BeaconIsDated(b)'
    BY <2>1, <2>3 DEF AudienceInv, BeaconIsDated, Audience!Views
  <2>6. ViewsAreDated' /\ DoublesAreKnown'
    BY <2>1, <2>2 DEF AudienceInv, ViewsAreDated, DoublesAreKnown, Audience!Views
  <2> QED BY <2>4, <2>5, <2>6 DEF AudienceInv
<1>6. ASSUME UNCHANGED Audience!vars PROVE AudienceInv'
  BY <1>6
  DEF Audience!vars, AudienceInv, Audience!TypeOK, BeaconIsDated, ViewsAreDated, DoublesAreKnown,
      Audience!Views
<1> QED
  BY <1>1, <1>2, <1>3, <1>4, <1>5, <1>6, FindViewInv, InsertViewInv, AddDurationInv
  DEF Audience!Next

\* The instance has the finite sets and the cardinalities of this module.
LEMMA SameCardinality ==
  \A S : (Audience!IsFiniteSet(S) <=> IsFiniteSet(S)) /\ Audience!Cardinality(S) = Cardinality(S)
BY DEF Audience!IsFiniteSet, IsFiniteSet, Audience!Cardinality, Cardinality

\* Two sets in one-to-one correspondence have as many elements.
LEMMA SameSize ==
  ASSUME NEW S, IsFiniteSet(S), NEW T, NEW f \in [S -> T],
         \A x, y \in S : f[x] = f[y] => x = y, \A t \in T : \E x \in S : f[x] = t
  PROVE  IsFiniteSet(T) /\ Cardinality(T) = Cardinality(S)
<1>1. f \in Bijection(S, T)
  BY DEF Bijection, Injection, Surjection, IsInjective
<1> QED BY <1>1, FS_Bijection DEF ExistsBijection

\* The rows of a day that nobody doubled are the pages of its visits.
LEMMA ChartsAgree ==
  ASSUME AudienceInv
  PROVE  Audience!ChartAgrees
<1> SUFFICES ASSUME NEW d \in Days, d \notin doubled
             PROVE  Audience!ChartPageviews(d) = Audience!OverviewPageviews(d)
  BY DEF Audience!ChartAgrees
<1> DEFINE S == {r \in Audience!Views : views[r].day = d}
           T == UNION {{visit} \X Audience!PagesOn(d, visit) : visit \in Audience!VisitsOn(d)}
           f == [r \in S |-> <<views[r].visit, views[r].url.page>>]
<1>1. IsFiniteSet(S)
  <2>1. IsFiniteSet(Rows) /\ S \in SUBSET Rows
    BY AudienceAssumption, SameCardinality DEF Audience!VisitAssumption, Audience!Views
  <2> QED BY <2>1, FS_Subset
<1>2. f \in [S -> T]
  <2>1. ASSUME NEW r \in S PROVE f[r] \in T
    BY DEF Audience!VisitsOn, Audience!PagesOn, Audience!RowsOn
  <2> QED BY <2>1
<1>3. ASSUME NEW r \in S, NEW s \in S, f[r] = f[s] PROVE r = s
  <2>1. /\ views[r].visit = views[s].visit /\ views[r].url.page = views[s].url.page
        /\ views[r].day = d /\ views[s].day = d
    BY <1>3
  <2>2. views[r] \in Audience!View /\ views[s] \in Audience!View
    BY DEF AudienceInv, Audience!TypeOK, Audience!Views
  <2>3. views[r].url \in Audience!Url /\ views[s].url \in Audience!Url
    BY <2>2, ViewFields
  <2>4. ~views[r].url.anchor /\ ~views[s].url.anchor
    BY DEF AudienceInv, ViewsAreDated
  <2>5. views[r].url = views[s].url
    BY <2>1, <2>3, <2>4 DEF Audience!Url
  <2> QED BY <2>1, <2>5 DEF AudienceInv, DoublesAreKnown
<1>4. ASSUME NEW t \in T PROVE \E r \in S : f[r] = t
  <2>1. PICK visit \in Audience!VisitsOn(d) : t \in {visit} \X Audience!PagesOn(d, visit)
    OBVIOUS
  <2>2. PICK r \in Audience!RowsOn(d, visit) : t = <<visit, views[r].url.page>>
    BY <2>1 DEF Audience!PagesOn
  <2>3. r \in S /\ views[r].visit = visit
    BY DEF Audience!RowsOn
  <2> QED BY <2>2, <2>3
<1> HIDE DEF S, T, f
<1>5. Cardinality(T) = Cardinality(S)
  BY <1>1, <1>2, <1>3, <1>4, SameSize
<1> QED BY <1>5, SameCardinality DEF S, T, Audience!ChartPageviews, Audience!OverviewPageviews

\* The sources of a range and its sessions are both as many as its visits.
LEMMA SourcesCount ==
  ASSUME AudienceInv
  PROVE  Audience!SourcesAgree
<1> SUFFICES ASSUME NEW to \in Days, NEW from \in 0..to,
                    \A d, e \in from..to :
                       d < e => Audience!VisitsOn(d) \cap Audience!VisitsOn(e) = {}
             PROVE  \A list \in Audience!Lists(from, to) :
                       /\ Cardinality(Audience!Listed(from, to, list))
                             <= Cardinality(Audience!Sessions(from, to))
                       /\ Cardinality(Audience!Listed(from, to, list))
                             = Cardinality(Audience!Sessions(from, to))
                          <=> Cardinality(Audience!Names(from, to)) <= Limit
  BY SameCardinality DEF Audience!SourcesAgree
<1>d. to \in Nat /\ from \in Nat
  BY AudienceAssumption DEF Audience!VisitAssumption
<1> DEFINE V == Audience!VisitsBetween(from, to)
<1>1. IsFiniteSet(V)
  <2> DEFINE S == {r \in Audience!Views : views[r].day \in from..to}
             f == [r \in S |-> views[r].visit]
  <2>1. IsFiniteSet(S)
    <3>1. IsFiniteSet(Rows) /\ S \in SUBSET Rows
      BY AudienceAssumption, SameCardinality DEF Audience!VisitAssumption, Audience!Views
    <3> QED BY <3>1, FS_Subset
  <2>2. ASSUME NEW r \in S PROVE f[r] \in V
    BY DEF Audience!VisitsBetween, Audience!VisitsOn
  <2>3. ASSUME NEW visit \in V PROVE \E r \in S : f[r] = visit
    BY DEF Audience!VisitsBetween, Audience!VisitsOn
  <2>4. f \in Surjection(S, V)
    <3>1. f \in [S -> V]
      BY <2>2
    <3> QED BY <2>3, <3>1 DEF Surjection
  <2> HIDE DEF S, V, f
  <2> QED BY <2>1, <2>4, FS_Surjection
<1>2. /\ IsFiniteSet(Audience!Sources(from, to))
      /\ Cardinality(Audience!Sources(from, to)) = Cardinality(V)
  <2> DEFINE T == Audience!Sources(from, to)
             source == [visit \in V |->
                          CHOOSE x : Audience!SourceOf(from, to, visit) = {x}]
             f == [visit \in V |-> <<visit, source[visit]>>]
  <2>1. ASSUME NEW visit \in V PROVE Audience!SourceOf(from, to, visit) = {source[visit]}
    <3>1. \E x : Audience!SourceOf(from, to, visit) = {x}
      BY DEF Audience!SourceOf
    <3> QED BY <3>1
  <2>2. T = UNION {{visit} \X {source[visit]} : visit \in V}
    BY <2>1 DEF Audience!Sources
  <2>3. f \in [V -> T] /\ \A t \in T : \E visit \in V : f[visit] = t
    <3> HIDE DEF source, V
    <3> QED BY <2>2
  <2>4. \A x, y \in V : f[x] = f[y] => x = y
    <3> HIDE DEF source, V
    <3> QED OBVIOUS
  <2> HIDE DEF V, T, f
  <2> QED BY <1>1, <2>3, <2>4, SameSize DEF T
<1>3. Cardinality(Audience!Sessions(from, to)) = Cardinality(V)
  <2> DEFINE T == Audience!Sessions(from, to)
             dayOf == [visit \in V |->
                         CHOOSE d \in from..to : visit \in Audience!VisitsOn(d)]
             f == [visit \in V |-> <<dayOf[visit], visit>>]
  <2>1. ASSUME NEW visit \in V
        PROVE  dayOf[visit] \in from..to /\ visit \in Audience!VisitsOn(dayOf[visit])
    <3>1. \E d \in from..to : visit \in Audience!VisitsOn(d)
      BY DEF Audience!VisitsBetween
    <3> QED BY <3>1
  <2>2. ASSUME NEW visit \in V, NEW d \in from..to, visit \in Audience!VisitsOn(d)
        PROVE  d = dayOf[visit]
    <3>1. dayOf[visit] \in from..to /\ visit \in Audience!VisitsOn(dayOf[visit])
      BY <2>1
    <3>2. d \in Nat /\ dayOf[visit] \in Nat
      BY <1>d, <3>1
    <3> HIDE DEF dayOf
    <3>3. ~ (d < dayOf[visit]) /\ ~ (dayOf[visit] < d)
      BY <2>2, <3>1
    <3> QED BY <3>2, <3>3
  <2> HIDE DEF dayOf
  <2>3. ASSUME NEW visit \in V PROVE f[visit] \in T
    BY <2>1 DEF Audience!Sessions
  <2>4. ASSUME NEW t \in T PROVE \E visit \in V : f[visit] = t
    <3>1. PICK d \in from..to : t \in {d} \X Audience!VisitsOn(d)
      BY DEF Audience!Sessions
    <3>2. PICK visit \in Audience!VisitsOn(d) : t = <<d, visit>>
      BY <3>1
    <3>3. visit \in V
      BY DEF Audience!VisitsBetween
    <3> QED BY <2>2, <3>2, <3>3
  <2>5. \A x, y \in V : f[x] = f[y] => x = y
    <3> HIDE DEF V
    <3> QED OBVIOUS
  <2>6. f \in [V -> T]
    BY <2>3
  <2> HIDE DEF V, T, f
  <2> QED BY <1>1, <2>4, <2>5, <2>6, SameSize DEF T
<1> HIDE DEF V
<1>4. Cardinality(Audience!Sources(from, to)) = Cardinality(Audience!Sessions(from, to))
  BY <1>2, <1>3
<1> SUFFICES ASSUME NEW list \in Audience!Lists(from, to)
             PROVE  /\ Cardinality(Audience!Listed(from, to, list))
                          <= Cardinality(Audience!Sources(from, to))
                    /\ Cardinality(Audience!Listed(from, to, list))
                          = Cardinality(Audience!Sources(from, to))
                       <=> Cardinality(Audience!Names(from, to)) <= Limit
  BY <1>4
<1> DEFINE T == Audience!Sources(from, to)
           N == Audience!Names(from, to)
           L == Audience!Listed(from, to, list)
<1>5. \A t \in T : \E visit \in V : t[1] = visit /\ t[2] \in Audience!SourceOf(from, to, visit)
                               /\ t = <<t[1], t[2]>>
  BY DEF Audience!Sources, V
<1>6. ASSUME NEW name \in N PROVE \E visit \in V : <<visit, name>> \in T
  BY DEF Audience!Names, Audience!Sources, V
<1>7. \A t \in T : t[2] \in N
  BY <1>5 DEF Audience!Names, V
<1>8. /\ list \in SUBSET N
      /\ Cardinality(list) = IF Cardinality(N) <= Limit THEN Cardinality(N) ELSE Limit
  BY SameCardinality DEF Audience!Lists
<1>9. L \in SUBSET T /\ \A t \in T : t \in L <=> t[2] \in list
  BY DEF Audience!Listed
<1>10. IsFiniteSet(N)
  <2> DEFINE f == [t \in T |-> t[2]]
  <2>1. f \in Surjection(T, N)
    <3>1. f \in [T -> N]
      BY <1>7
    <3>2. ASSUME NEW name \in N PROVE \E t \in T : f[t] = name
      BY <1>6
    <3> HIDE DEF T, N, f
    <3> QED BY <3>1, <3>2 DEF Surjection
  <2> HIDE DEF T, N, f
  <2> QED BY <1>2, <2>1, FS_Surjection DEF T
<1> HIDE DEF T, N, L
<1>11. /\ IsFiniteSet(L) /\ Cardinality(L) <= Cardinality(T)
       /\ Cardinality(T) = Cardinality(L) => T = L
  BY <1>2, <1>9, FS_Subset DEF T
<1>12. CASE Cardinality(N) <= Limit
  <2>1. list = N
    BY <1>8, <1>10, <1>12, FS_Subset
  <2>2. L = T
    BY <1>7, <1>9, <2>1
  <2> QED BY <1>11, <1>12, <2>2 DEF T, N, L
<1>13. CASE ~ (Cardinality(N) <= Limit)
  <2>1. list # N
    <3>1. Cardinality(list) = Limit
      BY <1>8, <1>13
    <3>2. Limit <= Limit
      BY AudienceAssumption DEF Audience!VisitAssumption
    <3> QED BY <1>13, <3>1, <3>2
  <2>2. PICK name \in N : name \notin list
    BY <1>8, <2>1
  <2>3. PICK visit \in V : <<visit, name>> \in T
    BY <1>6, <2>2 DEF T, N
  <2>4. T # L
    BY <1>9, <2>2, <2>3
  <2> QED BY <1>11, <1>13, <2>4 DEF T, N, L
<1> QED BY <1>12, <1>13

\* The figures that are computed twice agree: the page views of a day in the
\* chart and in the overview, unless views of one page were inserted side by
\* side that day; the listed sources and the sessions of a range, exactly when
\* the limit cuts no source off, unless midnight has put the rows of one visit
\* on two days.
THEOREM CountsAlwaysAgree == Audience!Spec => []CountsAgree
<1>1. AudienceInv /\ [Audience!Next]_(Audience!vars) => AudienceInv'
  BY AudienceNext
<1>2. AudienceInv => CountsAgree
  BY ChartsAgree, SourcesCount DEF CountsAgree, Audience!CountsAgree
<1> QED BY AudienceInit, <1>1, <1>2, PTL DEF Audience!Spec

-----------------------------------------------------------------------------
\* The durations of the visits.

\* The function a sum over a set stands for: it takes out one element at a time.
SumsUp(F, S, val) ==
    F = [s \in SUBSET S |->
           IF s = {} THEN 0 ELSE val[CHOOSE x \in s : TRUE] + F[s \ {CHOOSE x \in s : TRUE}]]

\* As many cells for an element as its value, up to m.
Cells(val, m, s) == {c \in s \X (1..m) : c[2] <= val[c[1]]}

\* Cells are finitely many.
LEMMA CellsFinite ==
  ASSUME NEW S, IsFiniteSet(S), NEW m \in Nat, NEW val
  PROVE  IsFiniteSet(Cells(val, m, S)) /\ Cardinality(Cells(val, m, S)) \in Nat
<1>1. IsFiniteSet(1..m)
  BY FS_Interval
<1>2. IsFiniteSet(S \X (1..m))
  BY <1>1, FS_Product
<1>3. Cells(val, m, S) \in SUBSET (S \X (1..m))
  BY DEF Cells
<1> QED BY <1>2, <1>3, FS_Subset, FS_CardinalityType

\* An element adds as many cells as its value.
LEMMA CellsAdd ==
  ASSUME NEW S, IsFiniteSet(S), NEW m \in Nat, NEW val \in [S -> 0..m],
         NEW s \in SUBSET S, NEW x \in s
  PROVE  Cardinality(Cells(val, m, s)) = val[x] + Cardinality(Cells(val, m, s \ {x}))
<1> DEFINE A == Cells(val, m, s \ {x})
           B == {x} \X (1..val[x])
<1>1. val[x] \in Nat /\ val[x] <= m
  OBVIOUS
<1>2. IsFiniteSet(B) /\ Cardinality(B) = val[x]
  <2>1. IsFiniteSet(1..val[x]) /\ Cardinality(1..val[x]) = val[x]
    <3> DEFINE n == val[x]
    <3>1. 1 \in Int /\ n \in Int /\ n \in Nat
      BY <1>1
    <3> HIDE DEF n
    <3>2. IsFiniteSet(1..n) /\ Cardinality(1..n) = IF 1 > n THEN 0 ELSE n-1+1
      BY ONLY <3>1, FS_Interval
    <3>3. Cardinality(1..n) = n
      BY <3>1, <3>2
    <3> QED BY <3>2, <3>3 DEF n
  <2>2. IsFiniteSet({x}) /\ Cardinality({x}) = 1
    BY FS_Singleton
  <2>3. IsFiniteSet(B) /\ Cardinality(B) = Cardinality({x}) * Cardinality(1..val[x])
    BY <2>1, <2>2, FS_Product
  <2> QED BY <1>1, <2>1, <2>2, <2>3
<1>3. IsFiniteSet(A) /\ Cardinality(A) \in Nat
  <2>1. IsFiniteSet(s \ {x})
    <3>1. s \ {x} \in SUBSET S
      OBVIOUS
    <3> QED BY <3>1, FS_Subset
  <2> QED BY <2>1, CellsFinite
<1>4. A \cap B = {}
  BY DEF Cells
<1>5. Cells(val, m, s) = A \cup B
  <2>1. ASSUME NEW c \in Cells(val, m, s) PROVE c \in A \cup B
    <3>1. c \in s \X (1..m) /\ c[2] <= val[c[1]]
      BY DEF Cells
    <3>2. CASE c[1] = x
      <4>1. c[2] \in 1..val[x] /\ c = <<x, c[2]>>
        BY <1>1, <3>1, <3>2
      <4> QED BY <4>1
    <3>3. CASE c[1] # x
      BY <3>1, <3>3 DEF Cells
    <3> QED BY <3>2, <3>3
  <2>2. ASSUME NEW c \in B PROVE c \in Cells(val, m, s)
    BY <1>1 DEF Cells
  <2>3. ASSUME NEW c \in A PROVE c \in Cells(val, m, s)
    BY DEF Cells
  <2> QED BY <2>1, <2>2, <2>3
<1> HIDE DEF A, B
<1>6. Cardinality(A \cup B) = Cardinality(A) + Cardinality(B) - Cardinality(A \cap B)
  BY <1>2, <1>3, FS_Union
<1>7. Cardinality(A \cap B) = 0
  BY <1>4, FS_EmptySet
<1>8. Cardinality(A \cup B) = val[x] + Cardinality(A)
  BY <1>1, <1>2, <1>3, <1>6, <1>7
<1> QED BY <1>5, <1>8 DEF A

\* The function exists, and counts the cells.
LEMMA SumOfCells ==
  ASSUME NEW S, IsFiniteSet(S), NEW m \in Nat, NEW val \in [S -> 0..m]
  PROVE  /\ \E F : SumsUp(F, S, val)
         /\ \A F : SumsUp(F, S, val) => F[S] = Cardinality(Cells(val, m, S))
<1>1. Cardinality(Cells(val, m, {})) = 0
  <2>1. Cells(val, m, {}) = {}
    BY DEF Cells
  <2> QED BY <2>1, FS_EmptySet
<1>2. \E F : SumsUp(F, S, val)
  <2> DEFINE F == [s \in SUBSET S |-> Cardinality(Cells(val, m, s))]
             G == [s \in SUBSET S |->
                     IF s = {} THEN 0
                     ELSE val[CHOOSE x \in s : TRUE] + F[s \ {CHOOSE x \in s : TRUE}]]
  <2>1. ASSUME NEW s \in SUBSET S PROVE F[s] = G[s]
    <3>1. CASE s = {}
      BY <1>1, <3>1
    <3>2. CASE s # {}
      <4> DEFINE y == CHOOSE x \in s : TRUE
      <4>1. y \in s
        BY <3>2
      <4> HIDE DEF y
      <4>2. s \ {y} \in SUBSET S
        OBVIOUS
      <4>3. F[s] = val[y] + F[s \ {y}]
        BY <4>1, <4>2, CellsAdd
      <4> QED BY <3>2, <4>3 DEF y
    <3> QED BY <3>1, <3>2
  <2>2. F = G
    BY <2>1
  <2> HIDE DEF F
  <2> QED BY <2>2 DEF SumsUp
<1>3. ASSUME NEW F, SumsUp(F, S, val) PROVE F[S] = Cardinality(Cells(val, m, S))
  <2> DEFINE wrong == {s \in SUBSET S : F[s] # Cardinality(Cells(val, m, s))}
  <2>1. CASE wrong = {}
    BY <2>1
  <2>2. CASE wrong # {}
    <3>1. IsWellFoundedOn(StrictSubsetOrdering(S), SUBSET S)
      BY FS_StrictSubsetOrderingWellFounded, FS_FiniteSubsetsOfFinite, Zenon
    <3>2. PICK s \in wrong : \A t \in wrong : ~ (<<t, s>> \in StrictSubsetOrdering(S))
      BY <2>2, <3>1, WFMin, Zenon
    <3>3. s # {}
      BY <1>1, <1>3 DEF SumsUp
    <3> DEFINE y == CHOOSE x \in s : TRUE
    <3>4. y \in s
      BY <3>3
    <3>5. F[s] = val[y] + F[s \ {y}]
      BY <1>3, <3>3 DEF SumsUp
    <3> HIDE DEF y
    <3>6. <<s \ {y}, s>> \in StrictSubsetOrdering(S)
      BY <3>4 DEF StrictSubsetOrdering
    <3>7. F[s \ {y}] = Cardinality(Cells(val, m, s \ {y}))
      BY <3>2, <3>6
    <3>8. F[s] = Cardinality(Cells(val, m, s))
      BY <3>4, <3>5, <3>7, CellsAdd
    <3> QED BY <3>8
  <2> QED BY <2>1, <2>2
<1> QED BY <1>2, <1>3

\* The visible time of a set of rows.
DurationOf(rows, S) == Audience!MapThenSumSet(LAMBDA r : Audience!Known(rows[r].duration), S)

\* It counts the cells of their durations.
LEMMA DurationCounted ==
  ASSUME NEW rows, NEW S, IsFiniteSet(S),
         \A r \in S : Audience!Known(rows[r].duration) \in 0..MaxDuration
  PROVE  DurationOf(rows, S)
            = Cardinality(Cells([r \in S |-> Audience!Known(rows[r].duration)], MaxDuration, S))
<1> DEFINE val == [r \in S |-> Audience!Known(rows[r].duration)]
           P(F) == F = [s \in SUBSET S |->
                          IF s = {} THEN 0
                          ELSE Audience!Known(rows[CHOOSE x \in s : TRUE].duration)
                                 + F[s \ {CHOOSE x \in s : TRUE}]]
<1>1. DurationOf(rows, S) = (CHOOSE F : P(F))[S]
  BY DEF DurationOf, Audience!MapThenSumSet, Audience!MapThenFoldSet
<1>2. val \in [S -> 0..MaxDuration] /\ MaxDuration \in Nat
  BY AudienceAssumption DEF Audience!VisitAssumption
<1>3. ASSUME NEW s \in SUBSET S, s # {}
      PROVE  Audience!Known(rows[CHOOSE x \in s : TRUE].duration) = val[CHOOSE x \in s : TRUE]
  BY <1>3
<1> HIDE DEF val
<1>4. \A F : P(F) <=> SumsUp(F, S, val)
  BY <1>3 DEF SumsUp
<1> HIDE DEF P
<1>5. \E F : P(F)
  BY <1>2, <1>4, SumOfCells
<1>6. P(CHOOSE F : P(F))
  BY <1>5
<1>7. (CHOOSE F : P(F))[S] = Cardinality(Cells(val, MaxDuration, S))
  BY <1>2, <1>4, <1>6, SumOfCells
<1> QED BY <1>1, <1>7 DEF val

\* A longer time: rows are added, and no duration is smaller.
LEMMA LongerDuration ==
  ASSUME NEW rows, NEW S, IsFiniteSet(S),
         \A r \in S : Audience!Known(rows[r].duration) \in 0..MaxDuration,
         NEW later, NEW T, IsFiniteSet(T),
         \A r \in T : Audience!Known(later[r].duration) \in 0..MaxDuration,
         S \subseteq T,
         \A r \in S : Audience!Known(rows[r].duration) <= Audience!Known(later[r].duration)
  PROVE  /\ DurationOf(rows, S) \in Nat /\ DurationOf(later, T) \in Nat
         /\ DurationOf(rows, S) <= DurationOf(later, T)
<1> DEFINE val == [r \in S |-> Audience!Known(rows[r].duration)]
           wal == [r \in T |-> Audience!Known(later[r].duration)]
<1>1. MaxDuration \in Nat
  BY AudienceAssumption DEF Audience!VisitAssumption
<1>2. /\ DurationOf(rows, S) = Cardinality(Cells(val, MaxDuration, S))
      /\ DurationOf(later, T) = Cardinality(Cells(wal, MaxDuration, T))
  BY DurationCounted
<1>3. \A r \in S : val[r] \in Nat /\ wal[r] \in Nat /\ val[r] <= wal[r]
  BY <1>1
<1> HIDE DEF val, wal
<1>4. Cells(val, MaxDuration, S) \in SUBSET Cells(wal, MaxDuration, T)
  <2>1. ASSUME NEW c \in Cells(val, MaxDuration, S)
        PROVE  c \in Cells(wal, MaxDuration, T)
    <3>1. c \in S \X (1..MaxDuration) /\ c[2] <= val[c[1]]
      BY DEF Cells
    <3>2. c[1] \in S /\ c[2] \in Nat
      BY <1>1, <3>1
    <3>3. c[2] <= wal[c[1]]
      <4>1. val[c[1]] \in Nat /\ wal[c[1]] \in Nat /\ val[c[1]] <= wal[c[1]]
        BY <1>3, <3>2
      <4> QED BY <3>1, <3>2, <4>1
    <3> QED BY <3>1, <3>3 DEF Cells
  <2> QED BY <2>1
<1>5. /\ IsFiniteSet(Cells(wal, MaxDuration, T))
      /\ Cardinality(Cells(val, MaxDuration, S)) \in Nat
      /\ Cardinality(Cells(wal, MaxDuration, T)) \in Nat
  BY <1>1, CellsFinite
<1>6. Cardinality(Cells(val, MaxDuration, S)) <= Cardinality(Cells(wal, MaxDuration, T))
  BY <1>4, <1>5, FS_Subset
<1> QED BY <1>2, <1>5, <1>6

\* No row and no event is ever removed, and no duration made smaller.
AudienceGrows ==
    /\ events \subseteq events'
    /\ \A r \in Audience!Views :
          /\ r \in Audience!Views'
          /\ views'[r].day = views[r].day
          /\ views'[r].visit = views[r].visit
          /\ views'[r].url = views[r].url
          /\ Audience!Known(views[r].duration) <= Audience!Known(views'[r].duration)

\* A row has a duration within the bound.
LEMMA RowKnown ==
  ASSUME AudienceInv, NEW r \in Audience!Views
  PROVE  r \in Rows /\ views[r] \in Audience!View
         /\ Audience!Known(views[r].duration) \in 0..MaxDuration
<1>1. r \in Rows /\ views[r] \in Audience!View
  BY DEF AudienceInv, Audience!TypeOK, Audience!Views
<1>2. views[r].duration \in Audience!Duration /\ MaxDuration \in Nat \ {0}
  BY <1>1, ViewFields, AudienceAssumption DEF Audience!VisitAssumption
<1> QED BY <1>1, <1>2 DEF Audience!Duration, Audience!Known

\* A step that does not touch the rows.
LEMMA SameRows ==
  ASSUME AudienceInv, views' = views, events \subseteq events'
  PROVE  AudienceGrows
<1>1. \A r \in Audience!Views : Audience!Known(views[r].duration) \in Int
  BY RowKnown, AudienceAssumption DEF Audience!VisitAssumption
<1> QED BY <1>1 DEF AudienceGrows, Audience!Views

\* Every step.
LEMMA AudienceNextGrows ==
  ASSUME AudienceInv, [Audience!Next]_(Audience!vars)
  PROVE  AudienceGrows
<1>1. ASSUME NEW b \in Beacons, Audience!InsertView(b) PROVE AudienceGrows
  <2> DEFINE n == Audience!Min(Rows \ Audience!Views)
  <2>1. n \in Rows \ Audience!Views
    <3>1. Rows \ Audience!Views \in SUBSET Nat /\ Rows \ Audience!Views # {}
      BY <1>1, AudienceAssumption
      DEF Audience!InsertView, Audience!VisitAssumption, Audience!Views
    <3> QED BY <3>1, MinOfNaturals
  <2> HIDE DEF n
  <2>2. \A r \in Audience!Views : r \in Rows /\ views'[r] = views[r]
    <3>1. \E v : views' = [views EXCEPT ![n] = v]
      BY <1>1 DEF n, Audience!InsertView
    <3>2. views \in [Rows -> Audience!View \cup {Nothing}]
      BY DEF AudienceInv, Audience!TypeOK
    <3> QED BY <2>1, <3>1, <3>2 DEF Audience!Views
  <2>3. \A r \in Audience!Views : Audience!Known(views[r].duration) \in Int
    BY RowKnown, AudienceAssumption DEF Audience!VisitAssumption
  <2>4. \A r \in Audience!Views : r \in Audience!Views'
    BY <2>2 DEF Audience!Views
  <2>5. events' = events
    BY <1>1 DEF Audience!InsertView
  <2> QED BY <2>2, <2>3, <2>4, <2>5 DEF AudienceGrows
<1>2. ASSUME NEW b \in Beacons, Audience!AddDuration(b) PROVE AudienceGrows
  <2> DEFINE r == seen[b]
  <2>t. Audience!TypeOK /\ BeaconIsDated(b) /\ MaxDuration \in Nat \ {0}
    BY AudienceAssumption DEF AudienceInv, Audience!VisitAssumption
  <2>1. r \in Audience!Views
    BY <1>2, <2>t DEF Audience!AddDuration, BeaconIsDated
  <2>2. /\ r \in Rows /\ views[r] \in Audience!View
        /\ Audience!Known(views[r].duration) \in 0..MaxDuration
    BY <2>1, RowKnown
  <2>3. PICK seconds \in 1..MaxDuration :
           views' = [views EXCEPT ![r].duration = Audience!Added(@, seconds)]
    BY <1>2 DEF Audience!AddDuration
  <2> DEFINE k == Audience!Known(views[r].duration)
             a == Audience!Added(views[r].duration, seconds)
  <2>4. a \in 1..MaxDuration /\ k <= a
    <3> DEFINE S == {MaxDuration, k + seconds}
    <3>1. seconds \in Nat /\ seconds >= 1 /\ k \in Nat /\ k <= MaxDuration
      BY <2>t, <2>2
    <3> HIDE DEF k
    <3>2. \E m \in S : \A j \in S : m <= j
      BY <2>t, <3>1
    <3>3. Audience!Min(S) \in S
      BY <3>2 DEF Audience!Min
    <3>4. Audience!Min(S) \in 1..MaxDuration /\ k <= Audience!Min(S)
      <4>1. \A j \in S : Audience!Min(S) <= j
        BY <3>2 DEF Audience!Min
      <4>2. Audience!Min(S) <= MaxDuration
        BY <4>1
      <4> QED BY <2>t, <3>1, <3>3, <4>2
    <3> QED BY <3>4 DEF k, Audience!Added
  <2>5. Audience!Known(a) = a
    BY <2>4, AudienceAssumption DEF Audience!Known, Audience!VisitAssumption
  <2> HIDE DEF k, a
  <2>6. views' = [views EXCEPT ![r] = [views[r] EXCEPT !.duration = a]]
    BY <2>t, <2>2, <2>3 DEF a, Audience!TypeOK
  <2>7. /\ views'[r] = [views[r] EXCEPT !.duration = a]
        /\ \A q \in Rows \ {r} : views'[q] = views[q]
    BY <2>t, <2>2, <2>6 DEF Audience!TypeOK
  <2>8. /\ views'[r].day = views[r].day /\ views'[r].visit = views[r].visit
        /\ views'[r].url = views[r].url /\ views'[r].duration = a
        /\ views'[r] \in Audience!View
    <3>1. a \in Audience!Duration
      BY <2>4 DEF Audience!Duration
    <3> QED BY <2>2, <2>7, <3>1 DEF Audience!View
  <2>9. views'[r] # Nothing
    BY <2>8, ViewFields
  <2> HIDE DEF r
  <2>10. ASSUME NEW q \in Audience!Views
         PROVE  /\ q \in Audience!Views'
                /\ views'[q].day = views[q].day /\ views'[q].visit = views[q].visit
                /\ views'[q].url = views[q].url
                /\ Audience!Known(views[q].duration) <= Audience!Known(views'[q].duration)
    <3>1. q \in Rows /\ Audience!Known(views[q].duration) \in 0..MaxDuration
      BY RowKnown
    <3>2. CASE q = r
      BY <2>4, <2>5, <2>8, <2>9, <3>1, <3>2 DEF Audience!Views, k
    <3>3. CASE q # r
      <4>1. views'[q] = views[q]
        BY <2>7, <3>1, <3>3
      <4>2. Audience!Known(views[q].duration) <= Audience!Known(views[q].duration)
        BY <2>t, <3>1
      <4> QED BY <4>1, <4>2 DEF Audience!Views
    <3> QED BY <3>2, <3>3
  <2>11. events' = events
    BY <1>2 DEF Audience!AddDuration
  <2> QED BY <2>10, <2>11 DEF AudienceGrows
<1>3. ASSUME UNCHANGED views, events \subseteq events' PROVE AudienceGrows
  BY <1>3, SameRows
<1> QED
  BY <1>1, <1>2, <1>3
  DEF Audience!Next, Audience!vars, Audience!Track, Audience!TrackEvent, Audience!FindView,
      Audience!InsertEvent, Audience!TrackFails, Audience!Midnight

\* What is engaged stays engaged: nothing it rests on ever shrinks.
LEMMA EngagedStays ==
  ASSUME AudienceInv, AudienceInv', AudienceGrows,
         NEW d \in Days, NEW visit \in Audience!VisitsOn(d), ~Audience!RealBounce(d, visit)
  PROVE  visit \in Audience!VisitsOn(d)' /\ ~Audience!RealBounce(d, visit)'
<1> DEFINE R == Audience!RowsOn(d, visit)
           Q == Audience!RowsOn(d, visit)'
           P == Audience!PagesOn(d, visit)
           O == Audience!PagesOn(d, visit)'
<1>1. visit \in Audience!VisitsOn(d)'
  BY DEF AudienceGrows, Audience!VisitsOn
<1>2. R \subseteq Q
  BY DEF AudienceGrows, Audience!RowsOn
<1>3. IsFiniteSet(R) /\ IsFiniteSet(Q)
  <2>1. IsFiniteSet(Rows) /\ R \in SUBSET Rows /\ Q \in SUBSET Rows
    BY AudienceAssumption, SameCardinality
    DEF Audience!VisitAssumption, Audience!RowsOn, Audience!Views
  <2> QED BY <2>1, FS_Subset
<1>4. P \subseteq O
  BY <1>2 DEF AudienceGrows, Audience!PagesOn, Audience!RowsOn
<1>5. IsFiniteSet(O)
  <2> DEFINE f == [r \in Q |-> views'[r].url.page]
  <2>1. f \in Surjection(Q, O)
    BY DEF Surjection, Audience!PagesOn
  <2> HIDE DEF f, Q, O
  <2> QED BY <1>3, <2>1, FS_Surjection
<1>6. P # {}
  BY DEF Audience!PagesOn, Audience!RowsOn, Audience!VisitsOn
<1>7. Cardinality(P) # 1 => Cardinality(O) # 1
  <2>1. ASSUME Cardinality(O) = 1 PROVE Cardinality(P) = 1
    <3>1. PICK x : O = {x}
      BY <1>5, <2>1, FS_Singleton
    <3>2. P = {x}
      BY <1>4, <1>6, <3>1
    <3> QED BY <3>2, FS_Singleton
  <2> QED BY <2>1
<1>8. Audience!EngagedOn(d, visit) => Audience!EngagedOn(d, visit)'
  BY DEF AudienceGrows, Audience!EngagedOn
<1>9. /\ Audience!DurationOn(d, visit) \in Nat /\ Audience!DurationOn(d, visit)' \in Nat
      /\ Audience!DurationOn(d, visit) <= Audience!DurationOn(d, visit)'
  <2>1. Audience!DurationOn(d, visit) = DurationOf(views, R)
    BY DEF Audience!DurationOn, DurationOf, Audience!MapThenSumSet, Audience!MapThenFoldSet
  <2>2. Audience!DurationOn(d, visit)' = DurationOf(views', Q)
    BY DEF Audience!DurationOn, DurationOf, Audience!MapThenSumSet, Audience!MapThenFoldSet
  <2>3. \A r \in R : Audience!Known(views[r].duration) \in 0..MaxDuration
    BY RowKnown DEF Audience!RowsOn
  <2>4. \A r \in Q : Audience!Known(views'[r].duration) \in 0..MaxDuration
    <3>1. ASSUME NEW r \in Audience!Views'
          PROVE  Audience!Known(views'[r].duration) \in 0..MaxDuration
      <4>1. views'[r] \in Audience!View
        BY DEF AudienceInv, Audience!TypeOK, Audience!Views
      <4>2. views'[r].duration \in Audience!Duration /\ MaxDuration \in Nat \ {0}
        BY <4>1, ViewFields, AudienceAssumption DEF Audience!VisitAssumption
      <4> QED BY <4>2 DEF Audience!Duration, Audience!Known
    <3> QED BY <3>1 DEF Audience!RowsOn
  <2>5. \A r \in R : Audience!Known(views[r].duration) <= Audience!Known(views'[r].duration)
    BY DEF AudienceGrows, Audience!RowsOn
  <2> HIDE DEF R, Q
  <2>6. /\ DurationOf(views, R) \in Nat /\ DurationOf(views', Q) \in Nat
        /\ DurationOf(views, R) <= DurationOf(views', Q)
    BY <1>2, <1>3, <2>3, <2>4, <2>5, LongerDuration
  <2> QED BY <2>1, <2>2, <2>6
<1>10. Threshold \in Nat
  BY AudienceAssumption DEF Audience!VisitAssumption
<1>11. Audience!DurationOn(d, visit)' < Threshold => Audience!DurationOn(d, visit) < Threshold
  BY <1>9, <1>10
<1> QED BY <1>1, <1>7, <1>8, <1>11, SameCardinality DEF Audience!RealBounce

\* A visit that is engaged is never counted among the real bounces again,
\* whatever the beacons and the midnights that follow: no row and no event is
\* removed, and the durations of its rows are only ever added to.
THEOREM EngagementAlwaysKept == Audience!Spec => EngagementKept
<1>1. AudienceInv /\ [Audience!Next]_(Audience!vars) => AudienceInv'
  BY AudienceNext
<1> DEFINE Keeps == \A d \in Days : \A visit \in Audience!VisitsOn(d) :
              ~Audience!RealBounce(d, visit) =>
                  visit \in Audience!VisitsOn(d)' /\ ~Audience!RealBounce(d, visit)'
<1>2. AudienceInv /\ AudienceInv' /\ [Audience!Next]_(Audience!vars) => [Keeps]_(Audience!vars)
  BY AudienceNextGrows, EngagedStays
<1> QED
  BY AudienceInit, <1>1, <1>2, PTL DEF Audience!Spec, EngagementKept, Audience!EngagementKept

-----------------------------------------------------------------------------
\* The types of the four components hold in every behaviour of the instance,
\* in which one of them plays and the others stay as they began.
THEOREM ServicesTyped == AllSpec => []TypesOK
<1> DEFINE Inv == CvInv /\ CardInv /\ LinksInv /\ AudienceInv
<1>1. AllInit => Inv
  BY CvInit, CardInit, LinksInit, AudienceInit DEF AllInit
<1>2. Inv /\ [AllNext]_allVars => Inv'
  <2> SUFFICES ASSUME Inv, [AllNext]_allVars PROVE Inv'
    OBVIOUS
  <2> USE DEF AllNext, PlayCv, PlayShareCard, PlayArticles, PlayAudience, allVars
  <2>1. [Next]_vars
    OBVIOUS
  <2>2. [Cards!Next]_(Cards!vars)
    BY DEF cardVars, Cards!vars
  <2>3. [Articles!Next]_(Articles!vars)
    BY DEF articleVars, Articles!vars, Articles!request
  <2>4. [Audience!Next]_(Audience!vars)
    BY DEF audienceVars, Audience!vars
  <2> QED BY <2>1, <2>2, <2>3, <2>4, CvNext, CardNext, LinksNext, AudienceNext
<1>3. Inv => TypesOK
  BY DEF CvInv, CardInv, LinksInv, AudienceInv, TypesOK
<1> QED BY <1>1, <1>2, <1>3, PTL DEF AllSpec

\* A behaviour of the instance is one of each component: the others' steps leave
\* it alone.
THEOREM ServicesPlay == AllSpec => Spec /\ Cards!Spec /\ Articles!Spec /\ Audience!Spec
<1>1. AllInit => Init /\ Cards!Init /\ Articles!Init /\ Audience!Init
  BY DEF AllInit
<1>2. ASSUME [AllNext]_allVars
      PROVE  /\ [Next]_vars /\ [Cards!Next]_(Cards!vars)
             /\ [Articles!Next]_(Articles!vars) /\ [Audience!Next]_(Audience!vars)
  <2> USE <1>2 DEF AllNext, PlayCv, PlayShareCard, PlayArticles, PlayAudience, allVars
  <2>1. [Next]_vars
    OBVIOUS
  <2>2. [Cards!Next]_(Cards!vars)
    BY DEF cardVars, Cards!vars
  <2>3. [Articles!Next]_(Articles!vars)
    BY DEF articleVars, Articles!vars, Articles!request
  <2>4. [Audience!Next]_(Audience!vars)
    BY DEF audienceVars, Audience!vars
  <2> QED BY <2>1, <2>2, <2>3, <2>4
<1> QED BY <1>1, <1>2, PTL DEF AllSpec, Spec, Cards!Spec, Articles!Spec, Audience!Spec

\* So every property holds of the behaviours of the instance too.
THEOREM ServicesHold ==
  AllSpec => [](CvIsWhole /\ StaleOnlyByOverlap /\ LinksHold /\ CountsAgree) /\ EngagementKept
BY ServicesPlay, CvAlwaysWhole, CardStaleOnlyByOverlap, LinksAlwaysHold, CountsAlwaysAgree,
   EngagementAlwaysKept, PTL
=============================================================================
