----------------------------- MODULE BlogArticles -----------------------------
(***************************************************************************)
(* The publication of the articles (BlogService): the status, the date of  *)
(* publication and the slug, which is the public URL.  An update reads the *)
(* article, decides from what it has read, and writes the columns of its   *)
(* patch in one UPDATE.  The images are in CoverImage and BlogImages.      *)
(***************************************************************************)
CONSTANTS
    Editors,   \* the updates that may run at the same time
    Posts,     \* ids of articles, each one given once
    Slugs,     \* what slugify makes of the titles; two titles may share one
    Same,      \* the field is not in the body of the PATCH
    NoPost     \* no row

VARIABLES
    posts,     \* the row of each article, or NoPost
    removed,   \* the articles that were removed
    subject,   \* the article an update works on, or NoPost
    body,      \* the fields of its PATCH
    current,   \* the row it has read
    links,     \* the slugs under which the public could read each article
    torn       \* articles first published between the read and the write of
               \* another update

vars == <<posts, removed, subject, body, current, links, torn>>
request == <<subject, body, current>>

Status == {"draft", "published"}
Post == [slug : Slugs, status : Status, dated : BOOLEAN]
Patch == [slug : Slugs \cup {Same}, status : Status \cup {Same}]
NoPatch == [slug |-> Same, status |-> Same]

BlogArticlesAssumption == NoPost \notin Posts \cup Post /\ Same \notin Slugs \cup Status

Init ==
    /\ posts = [p \in Posts |-> NoPost]
    /\ removed = {}
    /\ subject = [e \in Editors |-> NoPost]
    /\ body = [e \in Editors |-> NoPatch]
    /\ current = [e \in Editors |-> NoPost]
    /\ links = [p \in Posts |-> {}]
    /\ torn = {}

\* findBySlug answers a published article only.
Public(p) == posts[p] # NoPost /\ posts[p].status = "published"

\* The unique index on the slug.
Free(slug, p) == \A q \in Posts \ {p} : posts[q] # NoPost => posts[q].slug # slug

\* A row is written; whoever reads it then has its link.
Store(p, row) ==
    /\ posts' = [posts EXCEPT ![p] = row]
    /\ links' = [links EXCEPT ![p] =
                   IF row.status = "published" THEN @ \cup {row.slug} ELSE @]

-----------------------------------------------------------------------------
\* create; 409 when the slug is taken.
Create(p, slug, status) ==
    /\ posts[p] = NoPost /\ p \notin removed
    /\ Free(slug, p)
    /\ Store(p, [slug |-> slug, status |-> status, dated |-> status = "published"])
    /\ UNCHANGED <<removed, request, torn>>

\* update: findByIdRaw.
Find(e, p, patch) ==
    /\ subject[e] = NoPost
    /\ posts[p] # NoPost
    /\ subject' = [subject EXCEPT ![e] = p]
    /\ body' = [body EXCEPT ![e] = patch]
    /\ current' = [current EXCEPT ![e] = posts[p]]
    /\ UNCHANGED <<posts, removed, links, torn>>

Answer(e) ==
    /\ subject' = [subject EXCEPT ![e] = NoPost]
    /\ body' = [body EXCEPT ![e] = NoPatch]
    /\ current' = [current EXCEPT ![e] = NoPost]

FollowsTitleOfDraft(read) == read.status = "draft"   \* mutant

\* The slug follows the title until the article is published.
FollowsTitle(read) == ~read.dated

\* isPublishing.
Publishing(read, patch) == patch.status = "published" /\ read.status # "published"

\* publishedAt is set by a publication and never cleared.
Dated(row, read, patch) == row.dated \/ Publishing(read, patch)

Patched(row, read, patch) ==
    [slug |-> IF patch.slug # Same /\ FollowsTitle(read) THEN patch.slug ELSE row.slug,
     status |-> IF patch.status # Same THEN patch.status ELSE row.status,
     dated |-> Dated(row, read, patch)]

\* The UPDATE of the columns of the patch.
Update(e) ==
    LET p == subject[e] IN
    /\ p # NoPost
    /\ posts[p] # NoPost
    /\ LET row == Patched(posts[p], current[e], body[e]) IN
          /\ Free(row.slug, p)
          /\ Store(p, row)
    /\ torn' = IF posts[p].dated = current[e].dated THEN torn ELSE torn \cup {p}
    /\ Answer(e)
    /\ UNCHANGED removed

\* 409 (the slug is taken), 500 (the row is gone) or the end of the process.
UpdateFails(e) ==
    /\ subject[e] # NoPost
    /\ Answer(e)
    /\ UNCHANGED <<posts, removed, links, torn>>

\* remove: the row.
Remove(p) ==
    /\ posts[p] # NoPost
    /\ posts' = [posts EXCEPT ![p] = NoPost]
    /\ removed' = removed \cup {p}
    /\ links' = [links EXCEPT ![p] = {}]
    /\ torn' = torn \ {p}
    /\ UNCHANGED request

Next ==
    \/ \E p \in Posts, slug \in Slugs, status \in Status : Create(p, slug, status)
    \/ \E e \in Editors, p \in Posts, patch \in Patch : Find(e, p, patch)
    \/ \E e \in Editors : Update(e) \/ UpdateFails(e)
    \/ \E p \in Posts : Remove(p)

Spec == Init /\ [][Next]_vars

-----------------------------------------------------------------------------
TypeOK ==
    /\ posts \in [Posts -> Post \cup {NoPost}]
    /\ removed \subseteq {p \in Posts : posts[p] = NoPost}
    /\ subject \in [Editors -> Posts \cup {NoPost}]
    /\ body \in [Editors -> Patch]
    /\ current \in [Editors -> Post \cup {NoPost}]
    /\ \A e \in Editors : subject[e] = NoPost <=> current[e] = NoPost
    /\ links \in [Posts -> SUBSET Slugs]
    /\ torn \subseteq Posts

\* The links of an article that the public could ever read still lead to it
\* when it is public, although it was withdrawn, given another title and
\* published again; unless its first publication fell between the read and
\* the write of another update.
LinksHold == \A p \in Posts : Public(p) /\ p \notin torn => links[p] = {posts[p].slug}
=============================================================================
