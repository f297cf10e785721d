# Formal models of the portfolio backend

TLA+ models of the NestJS backend of the portfolio (`src/`): the services that
keep one thing in two places (a PostgreSQL row and an S3 object), the documents
edited by several windows, the sessions of the administrator, the messages of the
contact form and their mail, the audience statistics from the tracker to the
overview, and what is reported of the requests that fail. TLC checks the models on
small instances; TLAPS proves their safety for every size. Liveness is checked by
TLC alone.

Paths below are relative to the repository root, which the project maps as
`src/`; so `src/src/cv/cv.service.ts` is the repository's `src/cv/cv.service.ts`.

## 1. The system

One Node process serves a REST API under `/api` (`src/README.md:32-55` lists its
modules). It keeps rows in PostgreSQL through Drizzle and objects in an
S3-compatible bucket. Requests run concurrently in the process: every `await`
on a query, an S3 call or a password hash is a point where other requests
advance. The process may stop at any of these points. Three rules shape all the
code that follows, and the models are built around them:

- only the profile is *serialised*, by the lock of its one row
  (`inProfileTransaction`), which the portrait holds across its S3 calls and the
  text for one UPDATE; every other service reads, checks, calls S3 and
  writes in separate steps;
- an S3 call and a database write are never atomic together; the code chooses
  an order and a clean-up such that what a failure leaves behind is an *orphan
  object*, never a *row that cites a missing object* (`src/README.md:265`);
- nothing is retried after a restart: what a stopped request owed is lost. The
  midnight job alone catches up what it missed.

A fourth follows from them: what the code retries (a mail) or repeats (the clock,
a query of a page and the query of its count) it does without holding anything,
so the answers to one request may be of different moments.

### Inventory

| Component | State | Operations | Hard behaviour | What makes it correct | Model |
|---|---|---|---|---|---|
| Profile portrait | `profile_content.portrait_key`, `previous_portrait_key`; objects `profile/<hash>` | `replace`, `remove`, `discardIfUnreferenced`; the page reads the row | lock held across S3 calls, two transactions per request, client time-outs, lost connections, crashes, same file sent again | both cited keys stored; a served page keeps its image for one more change; no object forgotten; every request answers | `Portrait`, `PortraitPromise` |
| Workshop insert guide | one jsonb row with a version | `find`, `replace` | read in one statement and conditional write in another; two windows; a field a former client does not send | no lost update; an absent `decoderEnabled` keeps the stored one; nothing but a replacement makes a version | `WorkshopGuide`, `VersionedDocument` |
| Sessions and two-factor settings | the user row: hash, TOTP secret, backup codes, `token_version`; tokens live in cookies only | `login`, `verifyTwoFactor`, `logout`, change password, generate, enable, disable, regenerate; a script | every request works on a row read before a slow hash; single-column UPDATEs computed by the database or from that row | an accepted session belongs to the password and the factor in force; a consumed code stays consumed | `Session` |
| Project gallery | `project_images` rows with a rank; objects with a fresh uuid | `upload`, `remove`, `reorder`, `updateAlt`; cascade of the project | count, upload and insert are three steps; reorders lock rows one by one; cascade misses late insertions | rows stored; orphans accounted for; overshoot bounded; ranks distinct | `Gallery` |
| Project cover (and article cover) | `projects.image`; content-addressed objects | `uploadImage`, `update` with `image: null`, `remove` | unserialised; the clean-up uses the key read at the start | the row never cites a deleted object | `CoverImage` |
| Share cards | an object derived from another | `get` on demand; deletion after each upload or deletion | four S3 calls without a lock | a card shows its original | `ShareCard` |
| CV file | one object under a fixed key, one row | `upsert`, `remove`, `download` | the object is replaced in place before the row | the row describes the object; a download is whole | `CvFile` |
| Images of article bodies | objects; citations inside the markdown | `upload`, `create`/`update`/`remove` of articles, `removeUnreferenced` | no table of references; removals and edits at once; one deletion of many fails | cited images stored; no image forgotten by the removals | `BlogImages` |
| Audience aggregator | `page_view`, `analytics_event`, `daily_stat` | the midnight job: aggregate, catch up, two purges | missed and stopped jobs; an upgrade from a version that measured less; raw rows purged under the job's feet | totals whole and never rewritten; nothing purged uncounted; null means "before the first event" | `DailyTotals` |
| Audience tracker | `page_view`, `analytics_event` | `track` | check then insert; durations added; midnight between two statements | an engaged visit stays engaged; the chart, the overview and the list of sources count the same pages and visits | `Visit`; input of `DailyTotals` |
| Blog articles | `blog_posts`: slug, status, date of publication, likes | `create`, `update`, `remove`, `like` | the slug is frozen, and the publication dated, from a row read earlier | a link once public keeps leading to its article | `BlogArticles` |
| Contact and mail | `contact_messages`; the attempts in flight | `create`, `findAll`, `markRead`, `markAllRead`, `remove`; `sendMail` with three attempts | nobody awaits the mail; an answer of the SMTP server is lost, the message is removed or the process stops meanwhile; a page is two queries, counted by offset | no message unannounced in silence, one copy unless an answer was lost; a walk over the pages skips nothing unless a row goes | `Contact`, `ContactPages` |
| Profile document | `content` and `version` of the row of the portrait | `findCurrent`, `replace` | the row is read without the lock and updated behind it, while a portrait holds it across S3 calls | no lost update, neither half of the row takes the other back, every save answers | `ProfileDocument`, `VersionedDocument` |
| Statistics | none | `overview`, `chart`, the detail lists | several queries, between which visits arrive, midnight passes and the job aggregates and purges; null columns of days before this version | every visit of a range counted once, no gap after the announced first days, one point a day | `Statistics`; `Visit` for the counts within a day |
| Logging, error filter, Sentry | none | the serialisers of pino, `beforeSend` | typed values inside messages and stacks; errors that wrap or copy others; tokens in paths | the report explains the failure and holds nothing that was typed | `Redaction` |
| Optimiser, storage proxy, throttling, health, configuration, migrations and seeds | none that changes while the server runs, or a library's | - | - | - | not modelled |

### How they interact

- `ProfilePortraitService`, `ProjectsService`, `ProjectImagesService`,
  `BlogService`, `BlogContentImagesService` and `CvService` call
  `StorageService.upload` and `delete`. These calls are where every model lets
  S3 fail *with or without* having done the work.
- `StorageService.upload` and `delete` also delete the share card of the key.
  In the models of the callers that second call is part of the S3 step (its
  failure is the failure of the step, after the put); `ShareCard` models it on
  its own.
- `ProjectsService.remove` reads the keys of the gallery before the cascade:
  `Gallery` holds both services' actions.
- `BlogService.remove` hands its markdown to `removeUnreferenced`, which looks
  at the rows of all other articles: `BlogImages` holds both.
- `AuthController` runs the guards (which read the user row) before
  `AuthService` reads it for the operation: `Session!Begin`.
- `track` writes the raw rows the midnight job counts: `Visit` has the steps of
  one request, `DailyTotals!Track` takes their outcome as one step.
- `overview` and `chart` read the rows of both, `daily_stat` for the days that
  ended and the raw rows for the current one: `Statistics` extends `DailyTotals`,
  so that tracker, job and reader interleave in one specification.
- `PUT /profile` and the portrait share one row and its lock. Neither looks at the
  columns of the other: `ProfileDocument` extends `Portrait` and interleaves both.
- `ContactService.create` starts `MailerService.sendMail` and does not await it:
  `Contact` holds both.
- Every error of the server that reaches `HttpExceptionFilter` is logged through
  the serialisers of `log-redact.ts` and reported through `sentryBeforeSend`:
  `Redaction` follows one failed request through both.

## 2. The modules

Actions carry the names of the code's operations where these fit; `PROJECT.json`
("map") gives the lines of each definition. Operators whose comment starts with
"Mutant" are plausible bugs that the specifications never use: substituted for
the definition they follow, each makes some property fail, which shows that the
property depends on that code. `MC*` modules only add symmetry sets and
constants for TLC, or compose components for one run. The `*Proofs` modules hold the
theorems and the strengthenings they need; nothing else depends on them (section 4).

**`Portrait`** - `profile-portrait.service.ts`, `profile-lock.ts`,
`profile-document.ts`. A request is a process with a `pc`: `change` (waiting for
the row), `upload`, `write`, `cleanup` (waiting for the row again), `delete`.
The row lock is a variable because the properties depend on who holds it across
which call. Every S3 step has a success and a failure action, the failure with
its effect, without it, or with its effect to come: `late` holds the puts and the
deletions that a client has given up, or a crash has abandoned, and that the server
may still execute (`Land`). `LoseLock` is the loss of the database connection of a
transaction, in any of its phases. `WriteUnacknowledged` is a COMMIT whose answer is
lost. `page`, `journal`, `leaked` and `struck` are history: a page served earlier and
the number of changes since, keys that an "S3 orphan" line of the log names, keys the
code cannot see being lost, and keys removed by a deletion that its lock did not
protect any more, until they are stored again.

**`PortraitPromise`** - the abstract specification: a current and a previous
key that slide by one place onto an object already stored, and a store that
never loses a key a page may still show. `Portrait!KeepsPromise` is the
refinement (`current <- row.portrait`, `previous <- row.previous`,
`stored <- bucket \cup struck`): what is struck counts as stored, so that the promise
says of every other deletion that it removes nothing a page may show.

**`WorkshopGuide`** - `workshop-guide.service.ts`, `workshop-guide-document.ts`.
`Read` and the write that follows are separate actions; the write is one of
`Keep` (identical content, nothing written), `StoreFirst` (version 0, `ON CONFLICT DO
NOTHING`), `Update` (`WHERE version = ...`, `version + 1`) and `Conflict` (409).
An editor's `view` is the document it was last shown, however old, since an
answer may be lost. The comparison of `Keep` is that of the code: the row with its
default applied, so that a seeded row, which has no `decoderEnabled`, equals a body
that has it off.

**`Session`** - `auth.service.ts`, `users.service.ts`, `jwt.strategy.ts`, the
session operations of `auth.controller.ts`, `change-password.ts`. `read[c]` is
the row a request has loaded; all later decisions use it, as in the code, while
`array_remove` and `token_version + 1` use the row as it stands at the UPDATE.
Passwords, TOTP codes and signatures are abstracted to their outcome: a step
that demands a right one may happen, `Refuse` always may. `challenges` holds what was
verified for each sign-in that stopped before its second factor, the password and the
version of the row then; a real challenge carries neither, and is good until it
expires, so `BeginVerify` may use any of them. `sessions` keeps, for each token signed,
the password its request rests on, since when that had been verified, and whether there
was a second factor; that is history, since a real token holds only the version.
`spent`, `known` and `twice` are history of the backup codes: those consumed, those
that were when a request read the row, and those consumed once more.

**`Gallery`** - `project-images.service.ts`, `project-gallery.ts`, the gallery
part of `ProjectsService.remove`. Keys are fresh uuids, so an image and its
object have one name. A reorder is a transaction that locks the rows of its list
in its own order; two of them can wait for each other until PostgreSQL aborts
one (`AbortReorder`). An S3 call that is given up may be executed `late`, as for the
portrait. `crowded` is history: the images whose upload ran beside another one, or
began on a gallery where two images already shared a rank (`Tied`). `updateAlt` is left
out.

**`CoverImage`** - the cover in `projects.service.ts`. Any request may send any file,
also one whose key is in use; calls that are given up may land late. `contested` is
history: the keys that were sent while a clean-up or a late deletion was to delete them
(`Condemned`), until they are stored again undisturbed.

**`ShareCard`** - `share-card.service.ts` and the two S3 calls of each
`StorageService` operation.

**`ProfileDocument`** - `profile.service.ts`, on the row of `Portrait`, whose actions
are the steps of the other half. `Submit`, `Read` and `Update` or `Conflict` are the
request of a window: the comparison with the row is made without the lock, the
conditional UPDATE waits for it. A step of the portrait leaves the columns of the
text alone (`KeepDocument`) and a step of the text those of the portrait
(`KeepPortrait`); these are facts of the two SET clauses, and have mutants.
`Crash` stops the requests of both kinds.

**`VersionedDocument`** - the abstract specification of a document under a version:
whoever replaces it was shown the very document that is replaced, and nothing else
makes a version. Version 0 is a default that is not stored; storing it as it is makes
version 1. `ProfileDocument!KeepsDocument` and `WorkshopGuide!KeepsVersions` are the
refinements, the second with what is *shown* of the row, its defaults applied, as the
document.

**`CvFile`** - `cv.service.ts`. Name, size and bytes of a file are one value; row
ids are separate since `remove` deletes by the id it has read. `late` holds what a call
that was given up will still make of the object. `alone`, `overlapped` and `broken` are
history: whether changes overlapped, a late call landed or a change stopped half-way,
and whether one has since run alone to its end.

**`BlogImages`** - `blog-content-images.service.ts` and the removal in
`blog.service.ts`. The markdown is the set of keys it cites. `late` remembers the
citations written when a removal had already decided to delete the image.

**`BlogArticles`** - the publication in `blog.service.ts`. An update keeps the row
it has read (`current`) until it writes its patch over the row as it then stands.
Titles are represented by their slugs, dates by whether there is one: an article
published again keeps its slug because it has a date. `links` and
`torn` are history: the slugs under which the public could read the article, and
whether its first publication fell inside another update.

**`Visit`** - `analytics-tracker.service.ts`, `session-facts.ts`, the counting queries
of `analytics-aggregates.ts` and of `chart`. A request is a look-up and a write;
`Midnight` may fall between them, which gives a row of one day with the fingerprint of
another. A url is a page with or without an anchor; a source is a host, and that of the
site is none (`NormalizeReferrer`). Rows are numbered in the order of `created_at`,
which `SourceOf` needs. The list of sources is cut at `Limit`; which of two names with
the same count goes is settled by their spelling, which the model does not have, so that
`Lists` is the set of the lists there may be. Durations saturate at `MaxDuration`: the
code only compares them with a threshold. `doubled` is history: the days on which a page
has two rows of one visit.

**`DailyTotals`** - `analytics-aggregator.service.ts`, `analytics-aggregates.ts`.
Time is counted in UTC days, with a time of day for each visit: early (before the
time at which the purge runs), later, or in the last millisecond, which no day
counts (`BeforeEnd`). Whether a visit is early decides whether the purge of its
thirtieth day takes it. A visit dated before midnight may be committed after it,
while the job of the new day runs (`late`); the job counts a day in three queries that
run at the same time, each of which may or may not see such a visit, so that `Aggregates`
is a set. One visit a day at most tells a whole
total from a short one. The job is four steps (`yesterday`, `catch-up`, `purge
views`, `purge events`) and may not start, or stop after any of them. `Init` is the
state the former version leaves at an upgrade: totals missing or short, the
columns added since unmeasured, raw rows already purged.

**`Statistics`** - `analytics-stats.service.ts`, `analytics-overview.ts`, over the
actions of `DailyTotals`. A request takes the current day, reads the stored rows,
then counts the raw rows in its separate queries; any step of the tracker or the
job may fall in between. What it reads does not depend on the range, which only
filters it: `Overview`, `Chart` and the lists are operators of the range and of what
was read, and the properties quantify over all ranges. The rows of an answer are a
sequence; what the code filters and sums is given by the positions of the rows
(`SumOf`, `FirstDate`), which is what the proofs need. `RawRetention` and
`TimelineDays` are the days the statistics promise and list, constants of their own file
in the code (`analytics-stats.service.ts:42`) and here, not the `Retention` of the
purge. `certain` is history: the visits there were to be counted when the request was
made.

**`Contact`** - `contact.service.ts`, `mailer.service.ts`. A message and its mail: the
attempts, the waits between them, and a mail the server has taken without the
sender hearing of it (`AnswerLost`). `copies` and `unheard` are what the owner
receives and what the sender was told had failed.

**`ContactPages`** - `findAll` and `pagination.ts`. The two queries of a page are two
actions; the panel that asks for one page after the other is not in this
repository and is modelled as the plainest reader of the API (external in the map).

**`Redaction`** - `log-redact.ts`, `sentry-before-send.ts`, the error filter. A failed
request is one state (`failure`); what leaves the process is an operator of it. A
text is a short sequence of kinds of pieces (the SQL, the marker of the values,
what was typed, a frame of a stack, the reason of PostgreSQL), which is what the
regular expressions tell apart; what was typed may itself look like a frame or
like the marker. The three kinds of errors are the query error itself, one that
wraps it and one made anew from its strings. The masks are given by positions of the
text, not by a walk over it: `MaskToFrame` hides a piece if the marker comes before it
and no frame in between (`InParams`), `MaskExact` replaces the known values where they
stand whole after the marker (`ParamsAt`). `Values`, `Urls` and `Paths` are
constants, given in `MCContact`.

**`MCServices`**, **`MCImages`**, **`MCContact`** and **`MCRows`** play several components
that share no state in one run: a variable says which one moves, so that the state space is
the sum of theirs. The first has `CvFile`, `ShareCard`, `BlogArticles` and `Visit`; the
second `CoverImage` and `BlogImages`; the third `Contact`, `ContactPages` and `Redaction`;
the last those of `MCContact`, `WorkshopGuide` and `DailyTotals`. `MCRows` extends modules
that are written to be extended alone as well, which is why some of them have longer names
for their parts (`GuideSpec`, `MailSpec`). **`MCGallery`** plays one of two galleries: a
small one whose project may be removed and whose S3 calls may land late, and one with
room for a longer order (`Roomy`, the same module with another maximum) that is
reordered.

## 3. What is checked

Twelve runs, four of which are counterexamples to what the repository says of itself
(section 6). Every property of a passing run is accompanied by a mutant that violates it
under the same bounds.

| Run | Instance | Distinct question |
|---|---|---|
| `portrait` | 2 requests, 2 images, 2 calls waiting to land; a lock lost anywhere; crashes | Do the keys of the row stay stored, does a served page keep its image, is every orphan accounted for, and does the service implement `PortraitPromise`, if not for the deletions that have outlived their lock? |
| `portrait_late` | the same, 1 call waiting to land | Expected violation: such a deletion removes a cited object |
| `profile` | 2 windows, 2 texts, versions to 3, with 1 portrait request, 1 image; a lock lost anywhere; weak fairness | Does either half of the row disturb the other, does the text implement `VersionedDocument`, does everyone answer who waits for the common lock? |
| `session` | 2 requests, 2 passwords, 2 secrets, 3 backup codes in 2 batches, versions to 2 | Can a token outlive what it was signed for, can a consumed code come back, can the enrolment be torn without an overlap? |
| `session_challenge` | as `session` | Expected violation: a session accepted after the password it was opened with has changed |
| `session_codes` | as `session` | Expected violation: one backup code signs in twice |
| `gallery` | 2 uploaders and 1 remover, with 1 project removal, 4 images, maximum 2, 2 calls waiting to land; or with 2 reorders of 3 images, maximum 3 | Rows and objects, by how much concurrent uploads exceed the maximum; can two images share a rank when reorders deadlock, abort and interleave? |
| `images` | *cover*: 3 requests, 2 keys, sent as often as one likes; *articles*: 2 removals, 3 articles, 2 images | Does a row ever cite a deleted object, does a removal delete an image another article cites, and is anything left behind unaccounted for? |
| `cover_resend` | 2 requests, 2 keys | Expected violation: a clean-up deletes what was cited again |
| `services` | *CV*: 2 changes, 1 download, 2 files, 3 ids, 1 call waiting to land; *share card*: 2 readers, 2 writers, 2 contents; *articles*: 2 updates, 2 articles, 2 slugs; *visits*: 2 requests, 1 device, 2 pages, 2 hosts, 2 rows, 2 days, a list of 1 source | Which failures and overlaps separate the CV row from its object, and what repairs them? What are the causes of a stale card? Can a public link die? Can an engaged visit become a bounce, and when do the chart, the sources and the overview differ? |
| `rows` | *mail*: 2 messages, 3 attempts; *list*: pages of 2, 5 messages; *reports*: 6 typed values, 8 URLs, bodies with any of 4 fields; *guide*: 2 windows, 2 bodies, versions to 3; *totals*: upgrade on day 3, days to 7, retention 3, catch-up of day -2, 2 visits at three times of day, 1 day missed by the former version | Can a message stay unannounced or be mailed twice without cause, can a walk skip a message, what is reported of a failed request? Can an update of the guide be lost, is the decoder kept? Are totals whole and stable, is nothing purged uncounted, what does null mean? |
| `statistics` | upgrade on day 3, days to 5, retention 3, 2 visits, requests of day 4 for every range | Does an overview or a chart tell the truth when midnight, the job and its purge fall between its queries? |

### The properties

*Portrait.* `CitedStored`: both keys of the row name stored objects, whatever
runs concurrently, fails or crashes, but for an object that a deletion struck after its
lock was lost or its client had given up, and that was not stored again.
`ServedPageShows`: the image of a page already served outlives one more change, with the
same exception. `NoCitedImageMissing` is what the comment of the service says, without
any exception; it does not hold. `OrphansAccounted`: an uncited object is
in a request's hands, named by the log, or lost in one of three named ways
(crash, unacknowledged COMMIT, late put). `KeepsPromise`: refinement of
`PortraitPromise`.

*ProfileDocument.* `ProfileInv`: the inductive invariant of the portrait holds on
the row it shares, whatever the windows write to it, and a window that holds the
current version was shown the current text. `KeepsDocument`: refinement of
`VersionedDocument`; a change of portrait makes no version, which would make an
open draft stale. `EveryoneAnswered` (liveness): every save and every change of
portrait answers.

*WorkshopGuide.* `NoLostUpdate`: whoever changes the row was shown the very
document it replaces, and the version grows by one. `DecoderKept`: a body without
`decoderEnabled` leaves the value of the document *replaced*, not only of the one
read. `KeepsVersions`: refinement of `VersionedDocument`; an identical body, a refusal
or a request that dies makes no version, and the answer to an identical body, which
may be a row replaced since, shows its window nothing but what it was shown.

*Session.* `AcceptedSessionsAreCurrent`: an accepted session was opened, while the second
factor is on, with a second factor, and otherwise with none; and by the password in
force, unless it was verified under an earlier version, which only a session with a
second factor can come from. `PasswordInForce` is the same without the exception, as the
documentation has it; a challenge breaks it. `SpentCodesStaySpent`: a consumed backup code
never returns to the row, although other requests hold the array read before, and a
request that reads the row from then on cannot use it. `CodesUsedOnce`, the claim of the
documentation, fails for two requests that had both read it. `EnrolmentIntact`: the
secret in force is the one whose code was checked, and no code survives the
factor, unless a setting was written from a row that had changed since it was
read; an enrolment or removal that nothing overlaps repairs it.

*Gallery.* `IInv`: every row has its object (`RowsStored`), the image a request is
about to insert is stored, no two requests hold the same one (`ObjectsHeld`), and no call
that was given up is about an image that has a row or will have one (`LateApart`).
`ObjectsAccounted`, `BoundedOvershoot` (the maximum plus one per other concurrent
uploader). `RanksDistinct`: two images share a rank only if one of them is `crowded`,
unless a reorder committed a list that had stopped being the gallery.

*CoverImage.* `CoverStored`: the row never names a deleted object, but for a file that was
sent while a clean-up was to delete the object it had before. `NoCoverMissing` is the
claim without the exception; `cover_resend` refutes it. `CoversAccounted`: a stored object
that is not the cover is in the hands of a request or was left by a failure, by a crash
or by a write over an image its request had not read.

*ShareCard.* `StaleOnlyByOverlap`: a reader in progress across the change or a
failed deletion of the card are the only causes of a card that is not of its
original.

*CvFile.* `CvIsWhole`, in three parts. `RowStored`: sequential changes, even failing
ones, never leave a row without its object. `RowDescribesObject`: after a change
that ran alone to its end the row is right, whatever came before.
`DownloadIsWhole`: a download announces the length of what it streams unless a
change ran during it or was left half-way. A call executed late counts as an overlap.

*BlogImages.* `CitedImagesStored` and `ImagesAccounted`.

*BlogArticles.* `LinksHold`: the links under which an article could be read lead
to it whenever it is public, through withdrawals and new titles, unless its first
publication fell inside another update.

*Visit.* `EngagementKept` (an action property): a visit that is no real bounce
never becomes one again, whatever beacons arrive together. `CountsAgree`: the rows
counted by the chart are the pages counted by the overview, unless a page view was
inserted twice; the list of sources of a range counts its visits as the overview does,
unless a visit has rows on two days, as long as the list holds all the sources, and fewer
as soon as it is cut.

*DailyTotals.* `TotalsAreWhole`: a total this version has measured counts its whole
day, except a visit of the last millisecond or one committed after midnight.
`TotalsAreKept` (an action property): a total never changes once stored.
`PurgedOnceCounted` names the only exception, no complete catch-up during all the days
that left one a chance. `NullUntilFirstEvent` needs none but the visits of the last
millisecond or committed after midnight: an event that is purged has left its mark in
a total older than any day still to be written.

*Statistics.* `OverviewIsTrue`: every visit of the range is counted once, no day lacks
its conversions from `convertedSince` on nor its engagement from `measuredSince` on (but
for the events of a visit that was committed after midnight), and the lists hold what
there was from `detailSince` on, up to midnight, although the purge of the day has run.
`ChartIsTrue`: one point a day, and it is that of the day, unless midnight fell between
its queries.

*Contact.* `MailedOnce`: the owner receives one copy, and one more for each lost
answer at most. `Announced` (liveness): the mail of a message is sent, or the log says
it was not, unless the process stops. *ContactPages.* `NoMessageSkipped`: a walk shows
every message that was there when it began and still is, unless one was removed
during it or written between the two queries of one page.

*Redaction.* `ReportsAreRight`: nothing that was typed and no token is left, whatever
it looks like; the query, the reason and the frames that explain the failure are.

`TypesOK` gathers the type invariants of the modules of one run.

### Why the bounds are enough

- *Two requests* contain every pairwise race. `images` uses three for the cover,
  because the clean-up of one request, the write of a second and the read of a third
  can meet. A third portrait request adds no step under the lock: only one request
  holds it. One portrait request is enough for the windows of `profile`, which only
  see that the row is held.
- *Keys*: two images for the portrait, of which the absence of a portrait is a third
  state: current, previous, and the one that falls off; one in `profile`.
- *Images* in the gallery: the maximum plus the two concurrent uploads, so that
  an overshoot by two would show if one were possible; three where they are reordered
  (`RoomyMax`), so that two reorders can meet on some rows and not on others.
- *Versions to 3* (guide, profile): a read, a change and a second change, so
  that a stale read can be one or two versions old; *to 2* in `session`, where one change
  is the enrolment that makes challenges and codes, and the other makes them old. The
  proofs remove this bound.
- *Calls waiting to land* (`MaxLate`): two in `portrait` and in the gallery that may be
  removed, so that a put and a deletion, or two deletions, can be late together; one for
  the CV, whose calls all replace the same object. None in `profile`, whose question is
  the shared row, and where images are reordered, which S3 has no part in; the theorems
  hold for any number.
- *Rows* (visits): two, since the properties relate at most two rows of a page or two
  pages of a visit; two days, so that a row, its visit and the present can be of
  different days; `Limit` is 1, so that two sources are one too many. *Hosts*: the site
  and another. *Slugs* (articles): two, one that collides and one that is free.
- *Days* (totals, in `rows`): the code's constants keep their relations
  (`1 <= NewestBackfill <= OldestBackfill < Retention`, the oldest day of the
  catch-up one day younger than the retention) with small values: a window of one
  day, and four days after the upgrade for a day of this version to be purged.
  Missed jobs leave several days to one catch-up all the same.
- *Requests on one day* (`AskedOn`, `statistics`): the day before the last, on which the
  job may already have purged the first day of the calendar, and which has unmeasured and
  stored days behind it and a midnight and another purge before it. `statistics` has
  visits at one time of day; those around midnight are the subject of the totals in
  `rows`. A request lasts less than a day.
- *Pages* (`rows`): five messages on pages of two are three pages, the last one
  not full. `Values`, `Urls` and `Paths` hold one of each case the expressions tell
  apart: nothing typed, a value that looks like a frame, like the marker, or has one
  inside; a token alone, in the path of the feed, before a query.
- `MaxRank`, `MaxVersion`, `LastVersion`, `LastDay`, `MaxVisits`, `MaxMissed`,
  `MaxWritten` and `MaxDuration` only stop the exploration; no property mentions them
  except through the set of days.

`CHECK_DEADLOCK FALSE` is used in `session` and its two counterexamples (at the last
version a request can only be refused), `services` (an article id is drawn once, and the
last article may be removed), `rows` and `statistics` (the last day ends).

### Fairness

`FairProfileSpec` assumes weak fairness of `Progress(p)` for each portrait request and
of `Save(e)` for each window: a request that can go on does. Node runs every pending
callback, the wait for the row is bounded by `lock_timeout` (5 s,
`profile-lock.ts:9`) and every S3 call by `S3_TIMEOUTS` (5 s to connect, 30 s for the
answer, `s3-client.ts:23`). No fairness is assumed of new requests, of crashes, or
of which of several waiting requests gets the lock: `GiveUpChange`, `GiveUpCleanup`
and `GiveUp`, the lock time-out, are what makes `EveryoneAnswered` hold under weak
fairness (the mutant of that property removes the time-out).

`Contact` assumes weak fairness of `Send(m)`, the next step of the mail of a message:
an attempt ends, by the time-outs of the SMTP client if by nothing else, and a timer
fires. None is assumed of the SMTP server, which may refuse every attempt, nor of
the owner.

The runs with liveness (`profile`, `rows`) use no symmetry.

## 4. What is proved

TLAPS checks every leaf. The properties are those of the runs above; the theorems hold
for any number of requests, clients, keys, files, rows, days and versions, under the
named assumptions on the constants that stand in the modules (`ConstantsAssumption`,
`TotalsAssumption` ...), which TLC evaluates on every run. A hypothesis beyond these is
part of the theorem and is explained below. A property is seldom inductive; what had to
be added is what follows. The strengthenings are proved, so that no run repeats
them, apart from the invariants of the portrait (inside `ProfileInv`) and of the gallery
(`IInv`).

The theorems about a component that shares a run with others (`images`, `services`,
`rows`) are about its own specification (`Articles!Spec`, `List!Spec` ...), whose
steps are those of the component alone; `ServicesPlay`, `ImagesPlay` and `ContactPlays`
show that a behaviour of the run is one of each of its components, so that all of these
properties hold of it too (`ServicesHold`, `ImagesHold`, `ContactHolds`). The theorems
about `TypesOK` are about the specifications of the runs.

### Profile: `PortraitProofs`

`Invariance`, `TypeCorrect`, `CitedAlwaysStored`, `ServedPageAlwaysShows`,
`OrphansAlwaysAccounted`, `PortraitKeepsPromise` (the portrait implements
`PortraitPromise`); for any number of requests, keys and late calls, puts and deletions,
and with a lock that may be lost in any phase.
`CitedStored` is not inductive: a deletion in flight could remove a key that a
write cites. The strengthening `IInv` adds `LockDiscipline` (a deletion that holds the
lock is of an uncited key; a write that holds it started from the committed row, and its
object is stored or struck) and `PageCited` (a page served before at most one change
shows a key the row still cites). A deletion that holds the lock no more, or lands late,
is no part of the invariant: whatever it removes is `struck`, and the theorems say that
nothing else is ever missing.
`OrphansAccounted` is inductive with it: each way a request ends hands its key to the
row, to the log or to a named loss (`OrphansStayAccounted`).

The text of the same row (`ProfileDocument`): `ProfileAlwaysSound` (`ProfileInv`),
`OrphansAccountedOnSharedRow`, and `TextKeepsDocument` (the text implements
`VersionedDocument`). One lemma carries all three (`ProfileStep`): a step of the shared
row is either a step of the portrait that leaves the text alone, or a step of the text
that leaves the portrait alone and replaces what its window was shown. The strengthening
`DocumentInv` says that a window holding the current version was shown the current text
(`ViewsAreCurrent`) and that a request which waits for its UPDATE still brings another
text, if nobody was faster (`SavesAreChanges`: the comparison was made before the wait).

### Workshop guide and sessions: `WorkshopGuideProofs`, `SessionProofs`

`NoUpdateIsLost`, `DecoderIsKept`, `GuideKeepsVersions` (the guide implements
`VersionedDocument`). The invariant says that a version names one content for ever
(`VersionNamesContent`, `ReadNamesContent`, `ReadIsShown`), including version 0 for the
absent row. The last part is what the refinement needs: a request
whose version is that of the row it has read was made from that very row, even if both
are out of date by now, so its answer is no news to its window.

`SessionsAlwaysCurrent`, `SpentCodesNeverReturn`,
`EnrolmentAlwaysIntact`. The invariant: rows read, challenges and tokens signed are never
ahead of the row's version, and agree with it on password and factor when the
version is the same (`ReadsAreVersioned`, `ChallengesAreVersioned`,
`TokensAreVersioned`); what a session says of the password it rests on is thus compared
with the version under which that was verified, not with the one it was signed with.
Codes are assumed to be salted hashes that are not drawn twice, and those in any row were
drawn (`CodesWereDrawn`), so that a new batch holds none that was spent.

### Gallery: `GalleryProofs`

- `GalleryRowsStored` (`IInv`), `GalleryObjectsAccounted`. `IInv` alone is not inductive: a
  removal of the project could hold the key of an image that another request is about
  to insert, and delete it. `CascadesApart` excludes it: what a cascade has read had
  a row at that time, and what an upload holds has none yet. The same holds of the calls
  that land late, `LateApart`: a put or a deletion is given up only with an image that no
  row names, and a uuid is drawn once.
- `GalleryOvershootBounded`, for a finite set of uploaders. The invariant counts the
  promises: images and uploads under way together never exceed the maximum by as many
  as there are uploaders (`RoomIsShared`).
- `GalleryRanksDistinct`, for any number of clients that add, reorder and remove images.
  Uploads that run at once compute the same next rank, and `crowded` names their images.
  The invariant: a reorder lists an image once and has locked what it has numbered
  (`ReordersHold`), an upload that is not crowded is the only one under way
  (`UploadsAlone`), and the rank it carries is above all others, also after a reorder has
  renumbered the gallery (`NextRankIsAbove`).
- The lemmas about `Max`, about the orders of a finite set and about the number of distinct
  ranks below a bound come from the library's theorems on finite sets.

### Covers and article images: `ImagesProofs`

- `CoverAlwaysStored`, `CoverObjectsAccounted`, for any number of requests and files, sent
  again or not, and of late calls. The invariant `FilesAreApart`: a key that is sent and
  `Condemned` at the same time is contested, the object of any other key is stored before
  its row is written (`HeldKeys`), and an old cover that is to be deleted is the cover no
  more. `cover_resend` shows that the exception cannot be dropped.
- `CitedAlwaysStored`, `ArticleImagesAccounted`. The invariant `DecidedIsLate`: a citation
  of an image whose deletion is decided was written after the decision.

### CV, cards, links, visits: `ServicesProofs`

- `CvAlwaysWhole`. The invariant `Solitude` and `SeesItsWork`: what a request that is
  alone has stored or read is still so at its next step; a late call ends the solitude of
  all.
- `CardStaleOnlyByOverlap` is inductive with the types.
- `LinksAlwaysHold`. A date of publication is never taken back, not even by an update that
  read the row before it had one (`ReadsAreDated`), so an article with a link
  keeps its slug (`LinksAreSlugs`).
- `EngagementAlwaysKept`, an action property. A duration is a sum over the rows of a
  page in a visit; the proof counts it as a set of cells, one per row and second
  (`DurationCounted`), so that a sum that lost no cell is no smaller (`LongerDuration`).
  Then no step takes a row or an event away, changes the visit, the page or the day of a
  row, or shortens it (`AudienceNextGrows`), and engagement only needs more of each
  (`EngagedStays`).
- `CountsAlwaysAgree`. The rows of a page in one visit are one, unless `doubled` names
  their day (`DoublesAreKnown`); the rows the chart counts are then in one-to-one
  correspondence with the pages the overview counts, and the sources with the visits: a list
  that holds all names counts every visit, and one that leaves a name out misses at least
  one, since a name is there for a visit.

### Totals: `DailyTotalsProofs`

`TotalsInvariant`, and from it `TotalsAlwaysWhole`, `NullOnlyUntilFirstEvent`,
`TotalsAlwaysKept`, `AlwaysPurgedOnceCounted`; for any retention, any window of the
catch-up and any horizon with `1 <= NewestBackfill <= OldestBackfill < Retention`
(the code: 2, 29, 30). The argument: the job writes a day only while it is younger than
the oldest day of the window, and raw rows go only at the retention (`PurgedIsOld`), so
what it counts is whole, whichever of its three queries sees a visit that was committed
meanwhile; a purge comes only after a completed catch-up (`CatchesUp`), so
the oldest day of the window has a total, and if an event is purged that total knows
of it (`PurgedIsRemembered`). This is what answers, for a day caught up later, whether
an event came before it. With `OldestBackfill = Retention` the proof fails, as it should.
`AlwaysPurgedOnceCounted` has the hypothesis `NewestBackfill <= 2`: with a larger one no
step of the job would look at the days between yesterday and the window.

Looking for this invariant showed that an exception written into `NullUntilFirstEvent`
(no complete catch-up) could not occur; the property is now stated without it.

`StatisticsTyped`, `AnswersInvariant`, and from it `OverviewAlwaysTrue` and
`ChartAlwaysTrue`, for every range of days. The invariant follows a request between its
queries: what it has read of `daily_stat` still stands, but for a total of the former
version that was measured since and keeps its visits (`StoredIsKept`); a day that was
certain when the request was made is in what it reads, however late (`CertainIsKept`);
and what it counts of the current day lies between the visits that were certain and
those there are (`LiveIsTrue`). The rows of an answer are then in the order of their
dates, one a day (`InOrder`), and each is that of its day (`OverviewRows`): a sum of
zeros and ones over them is the number of the ones (`SumOfNumbers`), which is the number
of their dates (`DatesCounted`), and sets of dates are compared with the visits of the
range. Days without a total of their conversions come first (`NullUntilFirstEvent`),
which is why nothing is missing from `convertedSince` on.

### Mail and pages: `ContactProofs`

`AlwaysMailedOnce`: the number of copies is bounded by that of the attempts
(`AttemptsBoundCopies`). `NeverMessageSkipped`: whatever was shown or is on the page is
all that lies before the end of the page (`ShownSoFar`, `PageIsRead`), new messages only
push the others down, and a page is the last one only by a count that was fresh when its
rows were read (`CountIsFresh`, `LastPageHasRest`).

`ReportsAlwaysRight`, for any typed value, URL and body. It is no matter of steps but of
what the masks do to a text. The lemma `LaidFacts` describes a text by what lies where:
the query, one marker, the values, the reason, the frames. The mask of the known
values finds them in one place only, since a second place would need one more marker
than the text has (`ValuesAreOnce`); the mask without them keeps the frames that a typed
value may look like, and no more (`FrameMaskHides`, `FrameMaskKeeps`). A URL is cut at its
query and, in the feed, at its token; what is cut once is cut for good (`RedactedIsClean`,
`CleanStays`).

### Only model-checked

- The liveness properties `EveryoneAnswered` and `Announced`: fairness rests on ENABLED,
  of which the provers know nothing.
- `portrait_late`, `session_challenge`, `session_codes` and `cover_resend`, which are
  counterexamples.

Sums and masks are not defined by recursion, since what a recursive definition computes
for every input needs an induction over data that the provers cannot instantiate: they
are sets of positions, cardinalities and the sums of the community modules. What these
sums are for any finite set is proved without the induction theorems, by taking a
smallest set for which it fails (`SumOfOnes`, `SumOfCells`).

## 5. What is not modelled

- Parsing and validation of requests, image processing, password hashing, TOTP,
  JWT signatures, SQL text, HTTP headers: a step that depends on them has one
  action for each outcome.
- Health and configuration: no state. The migrations, the seeds and the object
  storage controller: run once, or one read.
- `active` (the visitors of the last five minutes, one count over the raw rows) and the
  limits of the lists of the statistics other than that of the sources.
- `manualRun` of the aggregator, which only the tests call.
- `like` (one atomic increment), `updateAlt` and the texts of articles and projects.
- The templates of the mails; the status codes of the error filter; the set-up of the
  logger and of Sentry.
- Rate limits: the counters are the library's.
- Several API processes: the deployment runs one. The models do not depend on
  it (all shared state is in the database or the bucket) except that a crash
  stops all requests at once.
- Deleting rows or objects by hand.

## 6. Findings and limits met

Four runs are counterexamples to a statement of the repository. Each has a passing
counterpart that says how far the statement holds.

`cover_resend`: `ProjectsService` deletes, after its own write, the key it read at the
start (`projects.service.ts:166`). Keys are hashes of the content. Request 1 replaces file
*a* by *b*; before its clean-up, request 2 sends *a* again, stores it and writes it; the
clean-up of request 1 then deletes *a*, and the row cites a missing object. A comment of
the same method (`projects.service.ts:151-152`) and `src/README.md:265` say that the
reverse, an orphan, is what may be left. The covers of articles follow the same code.
`CoverStored` shows that this is the only way.

`portrait_late`: the portrait avoids this by reading the row again under its lock
(`discardIfUnreferenced`), and `profile-portrait.service.ts:33-34` concludes that a
deletion decided under the lock can never remove a cited object. But S3 may execute the
deletion after the client has given it up (`S3_TIMEOUTS`), or the connection of the
transaction may drop meanwhile; either frees the row, the same file is sent and
cited again, and the deletion removes it. The time-outs of the code make this unlikely, its
protocol does not exclude it. `CitedStored` and `KeepsPromise` show that no other deletion
does it.

`session_challenge`: the challenge of a sign-in in two steps carries no `tokenVersion`
(`auth.service.ts:59-64`), and `verifyTwoFactor` signs the token with the version of the
row as it then is. A challenge obtained with the former password is good for a session
after the password has changed, as long as the challenge lives and with a second factor;
`src/README.md:168` and `users.ts:15-16` say that a change of the password revokes all
tokens issued before. `AcceptedSessionsAreCurrent` shows that it does revoke the sessions.

`session_codes`: a backup code is matched against the hashes of the row read at the start
of the request (`auth.service.ts:97`), and the statement that removes it does not say
whether it was still there. Two verifications that have both read the row sign in with
one code, which `src/README.md:160` and `auth.controller.ts:147` call one-time.
`SpentCodesStaySpent` shows that no request that begins later can.

Other limits that the properties state as exceptions:

- the gallery can exceed its maximum by one image for each concurrent upload
  (`BoundedOvershoot`);
- a reorder can commit a list that is no longer the gallery, and an image
  inserted meanwhile then shares a rank (`missed` in `RanksDistinct`), as do two whose
  uploads ran at once (`crowded`);
- an image inserted between the reading of the keys and the cascade of its
  project leaves its object behind (`orphans` in `Cascade`);
- a share card can be stored after its original was replaced or deleted
  (`overlap`), and stays until the next upload;
- overlapping changes of the CV, or an S3 call executed late, can leave a row without its
  object until the next change (`overlapped`);
- a citation saved while a removal deletes the image is left dangling (`late`);
- an update of an article that began before its first publication can still change
  its slug (`torn` in `BlogArticles`);
- two simultaneous views of one page are both inserted, and the chart of the day
  then counts one page more than the overview (`doubled`);
- a visit whose beacons fall on both sides of midnight is one visit in the list of
  sources of both days and two sessions in their overview (`SourcesAgree`);
- a visit of the last millisecond of a day, and one whose insertion ends after the job
  has counted its day, are in no total (`Uncounted`);
- when midnight falls between the queries of the chart, its last point bears the date
  of one day and the count of the next (`ChartIsTrue`);
- a message is skipped by a walk over the pages when another one is removed during it,
  or arrives between the two queries of a page (`shifted`);
- a mail is sent again when its answer was lost (`unheard`);
- a typed value that looks like a line of a stack stays in the stack of an error whose
  values are not known: one that wraps or copies a query error (`NothingTypedIsLeft`);
- two two-factor settings decided on the same row can leave a secret that was
  never checked, or codes without a factor (`torn`).

## 7. What is left

The components whose state changes while the server runs are modelled, and every safety
property of every passing run is a theorem. What could be added:

1. An abstract specification of the stores, one object for each row, with the portrait,
   the gallery and the cover as its refinements. The three differ in what may be left
   over after a failure, so that it would say little more than `OrphansAccounted`,
   `ObjectsAccounted` and `CoversAccounted`.
2. `updateAlt`, the likes and the texts of articles and projects: single statements that
   share no column with what is modelled.
