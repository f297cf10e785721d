----------------------------- MODULE CoverImage -----------------------------
(***************************************************************************)
(* The cover of a project (ProjectsService; the cover of a blog article    *)
(* follows the same code).  The key is the hash of the file, so a file     *)
(* sent again has the key it had.  Nothing serialises the requests: each   *)
(* reads the row, and after its own write deletes the key it had read.     *)
(***************************************************************************)
EXTENDS FiniteSets

CONSTANTS
    Requests,   \* the requests that may run at the same time
    Keys,       \* content-addressed keys
    NoKey,      \* the empty image column
    Gone        \* the project row is deleted

ASSUME CoverAssumption ==
    /\ NoKey \notin Keys
    /\ Gone \notin Keys \cup {NoKey}

VARIABLES
    image,     \* the image column: a key, NoKey, or Gone with its row
    bucket,    \* the stored keys
    pc,        \* where each request is
    new,       \* what it will write: a key (uploadImage), NoKey (image: null)
               \* or Gone (remove)
    current,   \* the image it has read
    late,      \* S3 calls given up by their client, which S3 may still execute
    orphans,   \* keys a failure, a crash or an overlapping write left behind,
               \* since last cited
    contested  \* keys sent while a clean-up was to delete them, and not stored
               \* again since

vars == <<image, bucket, pc, new, current, late, orphans, contested>>

Key == Keys \cup {NoKey}
Phases == {"idle", "put", "write", "cleanup"}

Init ==
    /\ image = NoKey
    /\ bucket = {}
    /\ pc = [p \in Requests |-> "idle"]
    /\ new = [p \in Requests |-> NoKey]
    /\ current = [p \in Requests |-> NoKey]
    /\ late = {}
    /\ orphans = {}
    /\ contested = {}

Goto(p, phase) == pc' = [pc EXCEPT ![p] = phase]

Answer(p) ==
    /\ Goto(p, "idle")
    /\ new' = [new EXCEPT ![p] = NoKey]
    /\ current' = [current EXCEPT ![p] = NoKey]

SupersededOrNone(p) == current[p] # new[p]  \* mutant: no test of the empty key
NeverSuperseded(p) == FALSE                 \* mutant: no cleanup

\* The key read at the start names an object the write has replaced.
Superseded(p) == current[p] \notin {NoKey, new[p]}

\* The keys that some clean-up will or may delete.
Condemned ==
    {current[p] : p \in {q \in Requests : Superseded(q)}}
        \cup {k \in Keys : <<"delete", k>> \in late}

\* Those that some request is to write.
Sent == {new[p] : p \in Requests} \cap Keys

\* Mutant: the old object is deleted before the row is written.
FindAndDelete(p, k) ==
    /\ pc[p] = "idle"
    /\ image # Gone
    /\ current' = [current EXCEPT ![p] = image]
    /\ new' = [new EXCEPT ![p] = k]
    /\ bucket' = bucket \ {image}
    /\ Goto(p, IF k \in Keys THEN "put" ELSE "write")
    /\ UNCHANGED <<image, late, orphans>>
    /\ contested' = contested \cup (Condemned' \cap Sent')

\* findByIdRaw: the row is read, once.
Find(p, k) ==
    /\ pc[p] = "idle"
    /\ image # Gone
    /\ current' = [current EXCEPT ![p] = image]
    /\ new' = [new EXCEPT ![p] = k]
    /\ Goto(p, IF k \in Keys THEN "put" ELSE "write")
    /\ UNCHANGED <<image, bucket, late, orphans>>
    /\ contested' = contested \cup (Condemned' \cap Sent')

Put(p) ==
    /\ pc[p] = "put"
    /\ bucket' = bucket \cup {new[p]}
    /\ contested' = contested \ ({new[p]} \ Condemned)
    /\ Goto(p, "write")
    /\ UNCHANGED <<image, new, current, late, orphans>>

\* An S3 call of that kind on k which the client gives up: it had its effect,
\* or has none, or may have it later.
Abandon(kind, k) ==
    \/ bucket' = (IF kind = "put" THEN bucket \cup {k} ELSE bucket \ {k}) /\ late' = late
    \/ bucket' = bucket /\ late' \in {late, late \cup {<<kind, k>>}}

\* Nobody cleans up a put that reports an error.
PutFails(p) ==
    /\ pc[p] = "put"
    /\ Abandon("put", new[p])
    /\ orphans' = orphans \cup ({new[p]} \ {image})
    /\ Answer(p)
    /\ UNCHANGED <<image, contested>>

\* The UPDATE or the DELETE.  It replaces the image of the row, which is not
\* the one read when another request has written since: nobody will delete
\* that one.  On a row that is gone it touches nothing, and the request goes on.
Write(p) ==
    /\ pc[p] = "write"
    /\ image' = IF image = Gone THEN Gone ELSE new[p]
    /\ orphans' = (IF image = Gone THEN orphans \cup {new[p]}
                   ELSE orphans \cup ({image} \ {current[p]})) \ {image', NoKey, Gone}
    /\ IF Superseded(p)
       THEN Goto(p, "cleanup") /\ UNCHANGED <<new, current>>
       ELSE Answer(p)
    /\ UNCHANGED <<bucket, late, contested>>

WriteFails(p) ==
    /\ pc[p] = "write"
    /\ orphans' = (orphans \cup {new[p]}) \ {image, NoKey, Gone}
    /\ Answer(p)
    /\ UNCHANGED <<image, bucket, late, contested>>

\* deleteS3IfExists of the key read at the start.
Cleanup(p) ==
    /\ pc[p] = "cleanup"
    /\ bucket' = bucket \ {current[p]}
    /\ Answer(p)
    /\ UNCHANGED <<image, late, orphans, contested>>

CleanupFails(p) ==
    /\ pc[p] = "cleanup"
    /\ Abandon("delete", current[p])
    /\ orphans' = orphans \cup {current[p]}
    /\ Answer(p)
    /\ UNCHANGED <<image, contested>>

\* S3 executes a call that nobody waits for any more.
Land ==
    \E kind \in {"put", "delete"}, k \in Keys :
       /\ <<kind, k>> \in late
       /\ late' = late \ {<<kind, k>>}
       /\ IF kind = "put"
          THEN bucket' = bucket \cup {k} /\ orphans' = orphans \cup ({k} \ {image})
          ELSE bucket' = bucket \ {k} /\ UNCHANGED orphans
       /\ UNCHANGED <<image, pc, new, current, contested>>

\* The process stops in the middle of its requests.
Crash ==
    LET at(phase, held) == {held[p] : p \in {q \in Requests : pc[q] = phase}} IN
    /\ \E put \in SUBSET at("put", new), gone \in SUBSET at("cleanup", current) :
          /\ bucket' = (bucket \cup put) \ gone
          /\ \E still \in SUBSET (({"put"} \X (at("put", new) \ put))
                                  \cup ({"delete"} \X (at("cleanup", current) \ gone))) :
                late' = late \cup still
    /\ orphans' = (orphans \cup at("put", new) \cup at("write", new)
                           \cup at("cleanup", current)) \ {image, NoKey, Gone}
    /\ pc' = [p \in Requests |-> "idle"]
    /\ new' = [p \in Requests |-> NoKey]
    /\ current' = [p \in Requests |-> NoKey]
    /\ UNCHANGED <<image, contested>>

Next ==
    \/ \E p \in Requests, k \in Key \cup {Gone} : Find(p, k)
    \/ \E p \in Requests :
          \/ Put(p) \/ PutFails(p)
          \/ Write(p) \/ WriteFails(p)
          \/ Cleanup(p) \/ CleanupFails(p)
    \/ Land
    \/ Crash

Spec == Init /\ [][Next]_vars

-----------------------------------------------------------------------------
TypeOK ==
    /\ image \in Key \cup {Gone}
    /\ bucket \subseteq Keys
    /\ pc \in [Requests -> Phases]
    /\ new \in [Requests -> Key \cup {Gone}]
    /\ current \in [Requests -> Key]
    /\ late \subseteq {"put", "delete"} \X Keys
    /\ orphans \subseteq Keys
    /\ contested \subseteq Keys

\* Upload, then write, then clean up: the row names a stored object, whatever
\* overlaps, fails, stops or takes effect late.  The one exception is a file that
\* was sent while a clean-up was to delete the object it had before.
CoverStored == image \in Keys \ contested => image \in bucket

\* src/README.md, projects.service.ts: an orphan rather than a row that names a
\* deleted object.  The exception is a counterexample.
NoCoverMissing == image \in Keys => image \in bucket

\* A stored object that is not the cover was left by a failure, by a crash or
\* by a write over an image its request had not read; or a request in progress
\* still holds it.
CoversAccounted ==
    \A k \in bucket \ {image} :
        \/ k \in orphans
        \/ \E p \in Requests : \/ pc[p] = "cleanup" /\ current[p] = k
                               \/ pc[p] = "write" /\ new[p] = k
                               \/ pc[p] = "put" /\ new[p] = k
=============================================================================
