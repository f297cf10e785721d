------------------------------ MODULE Portrait ------------------------------
(***************************************************************************)
(* The portrait of the profile page: ProfilePortraitService, the row lock  *)
(* of inProfileTransaction and the S3 calls of StorageService.             *)
(*                                                                         *)
(* A request replaces the portrait by an image (named by the hash of its   *)
(* content, so the same file is the same key) or removes it.  It takes the *)
(* lock of the one profile row, uploads, writes the row and commits; then, *)
(* in a second locked transaction, it deletes the key that fell off the    *)
(* row.  Every S3 and database call may fail, the process may crash, the   *)
(* database connection may drop while an S3 call is in flight.             *)
(***************************************************************************)
EXTENDS Naturals, FiniteSets

CONSTANTS
    Requests,     \* the requests that may run at the same time
    Keys,         \* content-addressed object keys
    NoKey,        \* NULL in the row; also "no object" in a request
    Nobody,       \* the row is not locked
    MaxLate       \* bound on the abandoned S3 calls not yet executed

ASSUME ConstantsAssumption ==
    /\ NoKey \notin Keys
    /\ Nobody \notin Requests
    /\ MaxLate \in Nat

VARIABLES
    row,      \* the committed profile row: [portrait, previous]
    bucket,   \* the keys stored in S3
    lock,     \* the transaction holding the row, or Nobody
    pc,       \* where each request is
    key,      \* the object a request works on: uploads, writes, then discards
    seen,     \* the row a request read under the lock (current in the source)
    late,     \* S3 calls abandoned by their client and not yet executed
    page,     \* a page served earlier: the key it shows, changes made since
    journal,  \* keys an "S3 orphan" line of the log names, since last cited
    leaked,   \* keys dropped without a line, since last cited: crash, lost
              \* COMMIT answer, late put
    struck    \* keys removed, since last stored, by a deletion whose lock was
              \* lost or whose client had given up

vars == <<row, bucket, lock, pc, key, seen, late, page, journal, leaked, struck>>
requestVars == <<pc, key, seen>>
storeVars == <<bucket, late, journal, leaked, struck>>

Key == Keys \cup {NoKey}
Row == [portrait : Key, previous : Key]
EmptyRow == [portrait |-> NoKey, previous |-> NoKey]
Cited == {row.portrait, row.previous} \ {NoKey}
NoPage == [key |-> NoKey, age |-> 1]

Phases == {"idle", "change", "upload", "write", "cleanup", "delete"}

\* The phases in which a request owes the bucket something: it has uploaded
\* key, or it has to look at key and discard it.
Responsible == {"upload", "write", "cleanup", "delete"}

Init ==
    /\ row = EmptyRow
    /\ bucket = {}
    /\ lock = Nobody
    /\ pc = [p \in Requests |-> "idle"]
    /\ key = [p \in Requests |-> NoKey]
    /\ seen = [p \in Requests |-> EmptyRow]
    /\ late = {}
    /\ page = NoPage
    /\ journal = {}
    /\ leaked = {}
    /\ struck = {}

-----------------------------------------------------------------------------
\* The end of a transaction, committed or rolled back.
Release(p) == lock' = IF lock = p THEN Nobody ELSE lock

\* The request answers, whatever the answer, and forgets what it held.
Answer(p) ==
    /\ pc' = [pc EXCEPT ![p] = "idle"]
    /\ key' = [key EXCEPT ![p] = NoKey]
    /\ seen' = [seen EXCEPT ![p] = EmptyRow]

\* Also the mutant of Discard that does not look at the key first.
ToCleanup(p, k) ==
    /\ pc' = [pc EXCEPT ![p] = "cleanup"]
    /\ key' = [key EXCEPT ![p] = k]
    /\ seen' = [seen EXCEPT ![p] = EmptyRow]

\* discardIfUnreferenced(k): nothing to do for no key, else a transaction of
\* its own, which starts by waiting for the lock.
Discard(p, k) ==
    IF k = NoKey THEN Answer(p) ELSE ToCleanup(p, k)

\* An S3 call that reports an error did its work, or did not, or will do it
\* later (the client timed out, the server did not).
Postponed(calls) ==
    \E still \in SUBSET calls :
        /\ late' = late \cup still
        /\ Cardinality(late') <= MaxLate

Abandon(op, k) == Postponed({<<op, k>>})

\* The objects put into the bucket and those deleted from it; deletions that no
\* lock protects are remembered.
Store(keys) ==
    /\ bucket' = bucket \cup keys
    /\ struck' = struck \ keys

Remove(keys, protected) ==
    /\ bucket' = bucket \ keys
    /\ struck' = IF protected THEN struck ELSE struck \cup (keys \cap bucket)

-----------------------------------------------------------------------------
\* replace(file) once the image is cropped and hashed, or remove() (NoKey).
Request(p, k) ==
    /\ pc[p] = "idle"
    /\ pc' = [pc EXCEPT ![p] = "change"]
    /\ key' = [key EXCEPT ![p] = k]
    /\ UNCHANGED <<row, lock, seen, page, storeVars>>

\* SELECT ... FOR UPDATE waits until nobody holds the row.
LockProfileRow == lock = Nobody

\* The row is locked and read.  The same file again, or nothing to remove:
\* the transaction ends without a write.
BeginChange(p) ==
    /\ pc[p] = "change"
    /\ LockProfileRow
    /\ IF key[p] = row.portrait
       THEN Answer(p) /\ UNCHANGED lock
       ELSE /\ lock' = p
            /\ seen' = [seen EXCEPT ![p] = row]
            /\ pc' = [pc EXCEPT ![p] = IF key[p] = NoKey THEN "write" ELSE "upload"]
            /\ UNCHANGED key
    /\ UNCHANGED <<row, page, storeVars>>

\* lock_timeout (503), or the database failed before the row was read.
GiveUpChange(p) ==
    /\ pc[p] = "change"
    /\ Answer(p)
    /\ UNCHANGED <<row, lock, page, storeVars>>

Upload(p) ==
    /\ pc[p] = "upload"
    /\ Store({key[p]})
    /\ pc' = [pc EXCEPT ![p] = "write"]
    /\ UNCHANGED <<row, lock, key, seen, late, page, journal, leaked>>

\* storage.upload throws (the put, or the removal of the share card after
\* it): rollback, then the compensation.
UploadFails(p) ==
    /\ pc[p] = "upload"
    /\ \E put \in SUBSET {key[p]} : Store(put)
    /\ Abandon("put", key[p])
    /\ Release(p)
    /\ Discard(p, key[p])
    /\ UNCHANGED <<row, page, journal, leaked>>

\* Mutant: the previous key stays where it was.
NextRowKeepsOldest(p) == [portrait |-> key[p], previous |-> seen[p].previous]

\* write() computes the keys from the row read under the lock.
NextRow(p) == [portrait |-> key[p], previous |-> seen[p].portrait]

Slide(p) ==
    /\ row' = NextRow(p)
    /\ page' = IF page.age = 0 THEN [page EXCEPT !.age = 1] ELSE NoPage
    /\ journal' = journal \ {key[p]}
    /\ UNCHANGED <<bucket, late, struck>>

Write(p) ==
    /\ pc[p] = "write"
    /\ lock = p
    /\ Slide(p)
    /\ Release(p)
    /\ Discard(p, seen[p].previous)
    /\ leaked' = leaked \ {key[p]}

\* Mutant: no compensation in the catch block.
WriteFailsSilently(p) ==
    /\ pc[p] = "write"
    /\ Release(p)
    /\ Answer(p)
    /\ UNCHANGED <<row, page, storeVars>>

\* UPDATE or COMMIT reports an error; the row is unchanged.
WriteFails(p) ==
    /\ pc[p] = "write"
    /\ Release(p)
    /\ Discard(p, key[p])
    /\ UNCHANGED <<row, page, storeVars>>

\* COMMIT took effect and its answer was lost: the catch block looks at the
\* uploaded key only, and nothing looks at the key that fell off the row.
WriteUnacknowledged(p) ==
    /\ pc[p] = "write"
    /\ lock = p
    /\ Slide(p)
    /\ Release(p)
    /\ Discard(p, key[p])
    /\ leaked' = (leaked \cup {seen[p].previous}) \ {NoKey, key[p]}

KeepsCurrentOnly(k) == k = row.portrait   \* mutant: previous forgotten
KeepsNothing(k) == FALSE                  \* mutant: the row is not read again

\* What the row, locked again, says of the key to discard.
Keeps(k) == k \in {row.portrait, row.previous}

\* A cited key is kept; another is deleted while the lock is held.
BeginCleanup(p) ==
    /\ pc[p] = "cleanup"
    /\ LockProfileRow
    /\ IF Keeps(key[p])
       THEN Answer(p) /\ UNCHANGED lock
       ELSE /\ lock' = p
            /\ pc' = [pc EXCEPT ![p] = "delete"]
            /\ UNCHANGED <<key, seen>>
    /\ UNCHANGED <<row, page, storeVars>>

GiveUpCleanup(p) ==
    /\ pc[p] = "cleanup"
    /\ journal' = journal \cup {key[p]}
    /\ Answer(p)
    /\ UNCHANGED <<row, bucket, lock, late, page, leaked, struck>>

Delete(p) ==
    /\ pc[p] = "delete"
    /\ Remove({key[p]}, lock = p)
    /\ Release(p)
    /\ Answer(p)
    /\ UNCHANGED <<row, late, page, journal, leaked>>

DeleteFails(p) ==
    /\ pc[p] = "delete"
    /\ \E gone \in SUBSET {key[p]} : Remove(gone, lock = p)
    /\ Abandon("delete", key[p])
    /\ journal' = journal \cup {key[p]}
    /\ Release(p)
    /\ Answer(p)
    /\ UNCHANGED <<row, page, leaked>>

-----------------------------------------------------------------------------
\* GET /profile reads the committed row without waiting for the lock.
ServePage ==
    /\ page' = [key |-> row.portrait, age |-> 0]
    /\ UNCHANGED <<row, lock, requestVars, storeVars>>

\* The connection of a transaction drops: Postgres rolls it back and frees
\* the row while the S3 call of the request is still in flight.
LoseLock(p) ==
    /\ lock = p
    /\ lock' = Nobody
    /\ UNCHANGED <<row, page, requestVars, storeVars>>

\* A call its client had abandoned reaches the store.
Land(op, k) ==
    /\ <<op, k>> \in late
    /\ late' = late \ {<<op, k>>}
    /\ IF op = "put" THEN Store({k}) ELSE Remove({k}, FALSE)
    /\ leaked' = IF op = "put" THEN leaked \cup {k} ELSE leaked
    /\ UNCHANGED <<row, lock, page, journal, requestVars>>

\* The API process stops: its transactions roll back, what its requests
\* owed the bucket is forgotten, the S3 calls in flight land now, later or not.
Crash ==
    LET InFlight(phase) == {key[p] : p \in {q \in Requests : pc[q] = phase}}
        owed == {key[p] : p \in {q \in Requests : pc[q] \in Responsible}} \ {NoKey}
    IN
    /\ \E put \in SUBSET InFlight("upload"), gone \in SUBSET InFlight("delete") :
          /\ bucket' = (bucket \cup put) \ gone
          /\ struck' = (struck \ put) \cup (gone \cap (bucket \cup put))
    /\ Postponed(({"put"} \X InFlight("upload")) \cup ({"delete"} \X InFlight("delete")))
    /\ leaked' = leaked \cup owed
    /\ lock' = Nobody
    /\ pc' = [p \in Requests |-> "idle"]
    /\ key' = [p \in Requests |-> NoKey]
    /\ seen' = [p \in Requests |-> EmptyRow]
    /\ UNCHANGED <<row, page, journal>>

-----------------------------------------------------------------------------
\* What a request that has begun does until it answers.
Progress(p) ==
    \/ BeginChange(p) \/ GiveUpChange(p)
    \/ Upload(p) \/ UploadFails(p)
    \/ Write(p) \/ WriteFails(p) \/ WriteUnacknowledged(p)
    \/ BeginCleanup(p) \/ GiveUpCleanup(p)
    \/ Delete(p) \/ DeleteFails(p)

Next ==
    \/ \E p \in Requests, k \in Key : Request(p, k)
    \/ \E p \in Requests : Progress(p) \/ LoseLock(p)
    \/ \E op \in {"put", "delete"}, k \in Keys : Land(op, k)
    \/ ServePage
    \/ Crash

Spec == Init /\ [][Next]_vars

\* Node runs every request to its answer: the wait for the lock is bounded by
\* lock_timeout and every S3 call by S3_TIMEOUTS.
FairSpec == Spec /\ \A p \in Requests : WF_vars(Progress(p))

-----------------------------------------------------------------------------
TypeOK ==
    /\ row \in Row
    /\ bucket \in SUBSET Keys
    /\ lock \in Requests \cup {Nobody}
    /\ pc \in [Requests -> Phases]
    /\ key \in [Requests -> Key]
    /\ seen \in [Requests -> Row]
    /\ late \in SUBSET ({"put", "delete"} \X Keys)
    /\ page \in [key : Key, age : {0, 1}]
    /\ journal \in SUBSET Keys
    /\ leaked \in SUBSET Keys
    /\ struck \in SUBSET Keys

\* Both keys of the row name stored objects, whatever runs concurrently, fails
\* or crashes: a deletion under the lock never removes a cited object.  One that
\* has outlived its lock or its client may (NoCitedImageMissing).
CitedStored == Cited \subseteq bucket \cup struck

\* profile-portrait.service.ts: a deletion that was decided under the lock never
\* removes a cited object.  The exception is a counterexample.
NoCitedImageMissing == Cited \subseteq bucket

\* The image of a page already served stays available until the portrait has
\* changed twice since, with the same exception: that is why the row keeps the
\* previous key.
ServedPageShows == page.key # NoKey => page.key \in bucket \cup struck

\* What makes CitedStored inductive.  A deletion that holds the lock has an
\* uncited key; a write that holds it starts from the committed row and its
\* object is stored.
LockDiscipline ==
    /\ \A p \in Requests : lock = p => pc[p] \in {"upload", "write", "delete"}
    /\ \A p \in Requests : pc[p] \in {"upload", "cleanup", "delete"} => key[p] # NoKey
    /\ \A p \in Requests : lock = p /\ pc[p] = "delete" => key[p] \notin Cited
    /\ \A p \in Requests : lock = p /\ pc[p] \in {"upload", "write"} =>
          seen[p] = row /\ key[p] # row.portrait
    /\ \A p \in Requests : lock = p /\ pc[p] = "write" =>
          key[p] \in bucket \cup struck \cup {NoKey}

\* A page served before at most one change shows a key the row still cites.
PageCited ==
    /\ page.age = 0 => page.key = row.portrait
    /\ page.age = 1 => page.key \in {NoKey, row.previous}

IInv == TypeOK /\ LockDiscipline /\ CitedStored /\ PageCited

\* No object is forgotten: a stored key that the row does not cite is still
\* somebody's to discard, or the log names it, or it was lost in one of the
\* three ways the code does not see.
OrphansAccounted ==
    \A k \in bucket \ Cited :
        \/ k \in journal \cup leaked
        \/ \E p \in Requests : pc[p] \in Responsible /\ key[p] = k

\* Every request answers: nobody waits for the lock for ever, even if other
\* requests keep taking it.
Answered == \A p \in Requests : pc[p] # "idle" ~> pc[p] = "idle"

\* The service implements the promise: one slide at a time onto stored keys,
\* and no deletion of a key a page may show but those that "struck" names.
Promise == INSTANCE PortraitPromise
    WITH current <- row.portrait, previous <- row.previous, stored <- bucket \cup struck
KeepsPromise == Promise!Spec
=============================================================================
