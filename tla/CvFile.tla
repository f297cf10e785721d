------------------------------- MODULE CvFile -------------------------------
(***************************************************************************)
(* The downloadable CV (CvService): one object under a fixed key and one   *)
(* row that describes it.  An upload stores the object and then upserts    *)
(* the row; a removal deletes the row by the id it has read and then the   *)
(* object; a download reads the row and then the object.  Nothing          *)
(* serialises them.                                                        *)
(***************************************************************************)
EXTENDS Naturals, FiniteSets

CONSTANTS
    Admins,     \* requests that upload or remove the CV
    Visitors,   \* requests that download it
    Files,      \* the files uploaded: name, size and bytes as one value
    Ids,        \* row ids, each one unused when it is drawn
    Nothing,    \* no row, no object, nothing held
    MaxLate     \* bound on the abandoned S3 calls not yet executed

ASSUME CvAssumption ==
    /\ Nothing \notin Files \cup [id : Ids, file : Files]
    /\ Admins \cap Visitors = {}
    /\ MaxLate \in Nat

VARIABLES
    row,         \* the only row: [id, file], or Nothing
    object,      \* the file stored under cv/cv.pdf, or Nothing
    late,        \* what S3 calls abandoned by their client will still make of it
    pc,          \* where each request is
    file,        \* the file an upload carries
    found,       \* the row a removal or a download has read
    alone,       \* no other change has run since the request began
    overlapped,  \* changes have run at the same time, or a late call has been
                 \* executed, and no change has run alone since
    broken       \* a change stopped half-way, and none ran alone to its end since

vars == <<row, object, late, pc, file, found, alone, overlapped, broken>>
requestVars == <<pc, file, found>>
history == <<alone, overlapped, broken>>

Requests == Admins \cup Visitors
Row == [id : Ids, file : Files]

Init ==
    /\ row = Nothing
    /\ object = Nothing
    /\ late = {}
    /\ pc = [p \in Requests |-> "idle"]
    /\ file = [p \in Requests |-> Nothing]
    /\ found = [p \in Requests |-> Nothing]
    /\ alone = [p \in Requests |-> FALSE]
    /\ overlapped = FALSE
    /\ broken = FALSE

Goto(p, phase) == pc' = [pc EXCEPT ![p] = phase]

Answer(p) ==
    /\ Goto(p, "idle")
    /\ file' = [file EXCEPT ![p] = Nothing]
    /\ found' = [found EXCEPT ![p] = Nothing]

Changing(p) == pc[p] \in {"put", "upsert", "delete", "drop"}
Quiet == \A p \in Admins : ~Changing(p)

\* History: a change begins and ends the solitude of every other request...
BeginChange(p) ==
    /\ alone' = [q \in Requests |-> q = p /\ Quiet]
    /\ overlapped' = (overlapped \/ ~Quiet)
    /\ UNCHANGED broken

\* ...one that ends alone has put everything right; one that fails has not.
EndChange(p) ==
    /\ overlapped' = (overlapped /\ ~alone[p])
    /\ broken' = (broken /\ ~alone[p])
    /\ UNCHANGED alone

-----------------------------------------------------------------------------
\* upsert(f), once the file is received.
Upload(p, f) ==
    /\ pc[p] = "idle"
    /\ BeginChange(p)
    /\ file' = [file EXCEPT ![p] = f]
    /\ Goto(p, "put")
    /\ UNCHANGED <<row, object, late, found>>

Put(p) ==
    /\ pc[p] = "put"
    /\ object' = file[p]
    /\ Goto(p, "upsert")
    /\ UNCHANGED <<row, late, file, found, history>>

\* A new row has an id nobody has seen.
IdsHeld == {found[p].id : p \in {q \in Requests : found[q] # Nothing}}
NewRow(p) == \E id \in Ids \ IdsHeld : row' = [id |-> id, file |-> file[p]]

\* INSERT ... ON CONFLICT (fileKey) DO UPDATE: the row there is keeps its id.
Upsert(p) ==
    /\ pc[p] = "upsert"
    /\ IF row = Nothing THEN NewRow(p) ELSE row' = [row EXCEPT !.file = file[p]]
    /\ EndChange(p)
    /\ Answer(p)
    /\ UNCHANGED <<object, late>>

-----------------------------------------------------------------------------
\* Mutant: the object goes before the row.
FindRowAndDrop(p) ==
    /\ pc[p] = "idle"
    /\ row # Nothing
    /\ BeginChange(p)
    /\ found' = [found EXCEPT ![p] = row]
    /\ object' = Nothing
    /\ Goto(p, "delete")
    /\ UNCHANGED <<row, late, file>>

\* remove: the row is read, 404 without one...
FindRow(p) ==
    /\ pc[p] = "idle"
    /\ row # Nothing
    /\ BeginChange(p)
    /\ found' = [found EXCEPT ![p] = row]
    /\ Goto(p, "delete")
    /\ UNCHANGED <<row, object, late, file>>

\* ...deleted by its id, which another removal may have done...
DeleteRow(p) ==
    /\ pc[p] = "delete"
    /\ row' = IF row # Nothing /\ row.id = found[p].id THEN Nothing ELSE row
    /\ Goto(p, "drop")
    /\ UNCHANGED <<object, late, file, found, history>>

\* ...and then the object, under the fixed key, is deleted.
DropObject(p) ==
    /\ pc[p] = "drop"
    /\ object' = Nothing
    /\ EndChange(p)
    /\ Answer(p)
    /\ UNCHANGED <<row, late>>

\* What the S3 call of a request is about to make of the object.
Calling(p) ==
    CASE pc[p] = "put" -> {file[p]}
      [] pc[p] = "drop" -> {Nothing}
      [] OTHER -> {}

\* An S3 or database call fails, with its effect, without it or with its effect
\* to come, or the process stops: what was done stays done.
ChangeFails(p) ==
    /\ Changing(p)
    /\ object' \in {object} \cup Calling(p)
    /\ \E still \in SUBSET Calling(p) : late' = late \cup still
    /\ Cardinality(late') <= MaxLate
    /\ broken' = TRUE
    /\ Answer(p)
    /\ UNCHANGED <<row, alone, overlapped>>

\* A call its client had abandoned reaches the store, beside whatever runs.
Land(f) ==
    /\ f \in late
    /\ late' = late \ {f}
    /\ object' = f
    /\ alone' = [q \in Requests |-> FALSE]
    /\ overlapped' = TRUE
    /\ UNCHANGED <<row, requestVars, broken>>

-----------------------------------------------------------------------------
\* download: the row is read, 404 without one...
FindMetadata(p) ==
    /\ pc[p] = "idle"
    /\ row # Nothing
    /\ found' = [found EXCEPT ![p] = row]
    /\ alone' = [alone EXCEPT ![p] = Quiet]
    /\ Goto(p, "get")
    /\ UNCHANGED <<row, object, late, file, overlapped, broken>>

\* ...and the object is streamed under the length and the name of the row, or
\* the request fails.
GetObject(p) ==
    /\ pc[p] = "get"
    /\ Answer(p)
    /\ UNCHANGED <<row, object, late, history>>

Next ==
    \/ \E p \in Admins, f \in Files : Upload(p, f)
    \/ \E p \in Admins :
          \/ Put(p) \/ Upsert(p)
          \/ FindRow(p) \/ DeleteRow(p) \/ DropObject(p)
          \/ ChangeFails(p)
    \/ \E f \in Files \cup {Nothing} : Land(f)
    \/ \E p \in Visitors : FindMetadata(p) \/ GetObject(p)

Spec == Init /\ [][Next]_vars

-----------------------------------------------------------------------------
TypeOK ==
    /\ row \in Row \cup {Nothing}
    /\ object \in Files \cup {Nothing} /\ late \subseteq Files \cup {Nothing}
    /\ pc \in [Requests -> {"idle", "put", "upsert", "delete", "drop", "get"}]
    /\ file \in [Requests -> Files \cup {Nothing}]
    /\ found \in [Requests -> Row \cup {Nothing}]
    /\ \A p \in Requests : found[p] # Nothing <=> pc[p] \in {"delete", "drop", "get"}
    /\ \A p \in Requests : file[p] # Nothing <=> pc[p] \in {"put", "upsert"}
    /\ alone \in [Requests -> BOOLEAN]
    /\ overlapped \in BOOLEAN /\ broken \in BOOLEAN

\* The order of the two calls (object then row, row then object): a row never
\* describes a missing object, failures and crashes included.  Only changes
\* that overlap and calls executed late may break it, and the next change that
\* runs alone repairs it.
RowStored == ~overlapped /\ row # Nothing => object # Nothing

\* Once a change has run alone to its end, the object is the file the row
\* describes, or there is neither, whatever had failed or overlapped before.
RowDescribesObject ==
    Quiet /\ ~overlapped /\ ~broken =>
        object = IF row = Nothing THEN Nothing ELSE row.file

\* A download announces the length and the name of the very file it streams,
\* unless a change runs during it or an earlier one was left half-way.
DownloadIsWhole ==
    \A p \in Visitors :
        pc[p] = "get" /\ alone[p] /\ ~overlapped /\ ~broken => object = found[p].file

\* The row, the object and what is downloaded agree whenever they can.
CvIsWhole == RowStored /\ RowDescribesObject /\ DownloadIsWhole
=============================================================================
