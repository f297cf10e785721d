------------------------------ MODULE BlogImages ------------------------------
(***************************************************************************)
(* The images of the bodies of the articles (BlogContentImagesService):    *)
(* no table lists them, an object lives as long as some article's markdown *)
(* cites its key.  The removal of an article (BlogService.remove) deletes  *)
(* the row, asks which of its images another article cites, and deletes    *)
(* the others from the bucket.                                             *)
(***************************************************************************)
EXTENDS FiniteSets

CONSTANTS
    Removals,   \* the removals that may run at the same time
    Posts,      \* articles; an id is never used again
    Images,     \* the keys that can be drawn
    NoPost      \* a removal that is not running has no article

BlogImagesAssumption == NoPost \notin Posts

VARIABLES
    existing,   \* the articles that have a row
    removed,    \* those that were removed
    cites,      \* the keys each article cites
    known,      \* the keys an upload has answered
    bucket,     \* the stored keys
    pc,         \* where each removal is
    post,       \* the article it removes, while its row is there
    keys,       \* the images it looks after
    abandoned,  \* keys without an article that nobody looks after
    late        \* citations written when a removal had decided otherwise

vars == <<existing, removed, cites, known, bucket, pc, post, keys, abandoned, late>>
articles == <<existing, removed, cites, late>>
removals == <<pc, post, keys>>

CitedIn(posts) == UNION {cites[p] : p \in posts}
Decided == UNION {keys[r] : r \in {s \in Removals : pc[s] = "drop"}}
LookedAfter == UNION {keys[r] : r \in {s \in Removals : pc[s] # "idle"}}

Init ==
    /\ existing = {}
    /\ removed = {}
    /\ cites = [p \in Posts |-> {}]
    /\ known = {}
    /\ bucket = {}
    /\ pc = [r \in Removals |-> "idle"]
    /\ post = [r \in Removals |-> NoPost]
    /\ keys = [r \in Removals |-> {}]
    /\ abandoned = {}
    /\ late = {}

Goto(r, phase) == pc' = [pc EXCEPT ![r] = phase]

Done(r) ==
    /\ Goto(r, "idle")
    /\ post' = [post EXCEPT ![r] = NoPost]
    /\ keys' = [keys EXCEPT ![r] = {}]

-----------------------------------------------------------------------------
\* upload: an object under a fresh key, before any article cites it.
Upload(k) ==
    /\ k \notin known \cup bucket
    /\ known' = known \cup {k}
    /\ bucket' = bucket \cup {k}
    /\ abandoned' = abandoned \cup {k}
    /\ UNCHANGED <<articles, removals>>

\* The put reports an error: the object may be there, nobody learns its key.
UploadFails(k) ==
    /\ k \notin known \cup bucket
    /\ bucket' = bucket \cup {k}
    /\ abandoned' = abandoned \cup {k}
    /\ UNCHANGED <<articles, known, removals>>

\* create or update: the markdown of the article, as a whole, cites keys the
\* author got from an upload, since deleted perhaps.
Save(p, cited) ==
    /\ p \notin removed
    /\ cited \subseteq known
    /\ existing' = existing \cup {p}
    /\ cites' = [cites EXCEPT ![p] = cited]
    /\ abandoned' = (abandoned \cup (CitedIn({p}) \ CitedIn(Posts \ {p}))) \ cited
    /\ late' = {c \in late : c[1] # p \/ c[2] \in cited}
                 \cup ({p} \X ((cited \ CitedIn({p})) \cap (Decided \cup (known \ bucket))))
    /\ UNCHANGED <<removed, known, bucket, removals>>

-----------------------------------------------------------------------------
\* remove: the article is read, with the keys it cites...
Find(r, p) ==
    /\ pc[r] = "idle"
    /\ p \in existing
    /\ post' = [post EXCEPT ![r] = p]
    /\ keys' = [keys EXCEPT ![r] = cites[p]]
    /\ Goto(r, "delete")
    /\ UNCHANGED <<articles, known, bucket, abandoned>>

\* ...its row is deleted, which another removal may have done already; an
\* image saved in between is not among the keys read...
DeleteRow(r) ==
    /\ pc[r] = "delete"
    /\ existing' = existing \ {post[r]}
    /\ cites' = [cites EXCEPT ![post[r]] = {}]
    /\ removed' = removed \cup {post[r]}
    /\ abandoned' = abandoned \cup ((CitedIn({post[r]}) \ keys[r]) \ CitedIn(Posts \ {post[r]}))
    /\ late' = {c \in late : c[1] # post[r]}
    /\ Goto(r, "query")
    /\ UNCHANGED <<known, bucket, post, keys>>

\* Mutant: every image of the article goes.
Unquestioned(r) == keys[r]

\* removeUnreferenced: the keys that no other article cites...
Unreferenced(r) == keys[r] \ CitedIn(Posts \ {post[r]})

AskOthers(r) ==
    /\ pc[r] = "query"
    /\ keys' = [keys EXCEPT ![r] = Unreferenced(r)]
    /\ Goto(r, "drop")
    /\ UNCHANGED <<articles, known, bucket, post, abandoned>>

\* ...are deleted side by side, one failure not stopping the others.
Drop(r, k) ==
    /\ pc[r] = "drop"
    /\ k \in keys[r]
    /\ bucket' = bucket \ {k}
    /\ keys' = [keys EXCEPT ![r] = @ \ {k}]
    /\ UNCHANGED <<articles, known, pc, post, abandoned>>

\* Mutant: the first failure ends the removal.
DropFailsAlone(r, k) ==
    /\ pc[r] = "drop"
    /\ k \in keys[r]
    /\ abandoned' = abandoned \cup {k}
    /\ Done(r)
    /\ UNCHANGED <<articles, known, bucket>>

DropFails(r, k) ==
    /\ pc[r] = "drop"
    /\ k \in keys[r]
    /\ abandoned' = abandoned \cup {k}
    /\ keys' = [keys EXCEPT ![r] = @ \ {k}]
    /\ UNCHANGED <<articles, known, bucket, pc, post>>

Answer(r) ==
    /\ pc[r] = "drop"
    /\ keys[r] = {}
    /\ Done(r)
    /\ UNCHANGED <<articles, known, bucket, abandoned>>

\* The query fails (logged), or the deletion of the row does (500).
RemovalFails(r) ==
    /\ pc[r] \in {"delete", "query"}
    /\ abandoned' = abandoned \cup (keys[r] \ CitedIn(Posts))
    /\ Done(r)
    /\ UNCHANGED <<articles, known, bucket>>

\* The process stops.
Crash ==
    /\ abandoned' = abandoned \cup (LookedAfter \ CitedIn(Posts))
    /\ pc' = [r \in Removals |-> "idle"]
    /\ post' = [r \in Removals |-> NoPost]
    /\ keys' = [r \in Removals |-> {}]
    /\ UNCHANGED <<articles, known, bucket>>

Next ==
    \/ \E k \in Images : Upload(k) \/ UploadFails(k)
    \/ \E p \in Posts, cited \in SUBSET Images : Save(p, cited)
    \/ \E r \in Removals, p \in Posts : Find(r, p)
    \/ \E r \in Removals : DeleteRow(r) \/ AskOthers(r) \/ Answer(r) \/ RemovalFails(r)
    \/ \E r \in Removals, k \in Images : Drop(r, k) \/ DropFails(r, k)
    \/ Crash

Spec == Init /\ [][Next]_vars

-----------------------------------------------------------------------------
TypeOK ==
    /\ existing \subseteq Posts /\ removed \subseteq Posts \ existing
    /\ cites \in [Posts -> SUBSET Images]
    /\ \A p \in Posts \ existing : cites[p] = {}
    /\ known \subseteq Images /\ bucket \subseteq Images /\ abandoned \subseteq Images
    /\ pc \in [Removals -> {"idle", "delete", "query", "drop"}]
    /\ post \in [Removals -> Posts \cup {NoPost}]
    /\ keys \in [Removals -> SUBSET Images]
    /\ late \subseteq {c \in Posts \X Images : c[2] \in cites[c[1]]}

\* An image an article cites is stored, whatever is removed around it, unless
\* the citation was written after a removal had decided to delete the image.
CitedImagesStored ==
    \A p \in existing : \A k \in cites[p] : k \in bucket \/ <<p, k>> \in late

\* No image is forgotten by the removals: without an article, it is being
\* looked after, or it never had one, an edit let go of it, or a failure did.
\* In particular two articles removed together leave no shared image behind.
ImagesAccounted ==
    bucket \subseteq CitedIn(Posts) \cup LookedAfter \cup abandoned
=============================================================================
