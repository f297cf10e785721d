--------------------------- MODULE ProfileDocument ---------------------------
(***************************************************************************)
(* The text of the profile page (ProfileService) on the row it shares with *)
(* the portrait.  A window replaces the whole text under the version it    *)
(* was shown: the row is read without the lock, then updated if its        *)
(* version is still that one.  The update waits for the lock, which a      *)
(* request of the portrait holds across its S3 call.                       *)
(*                                                                         *)
(* Portrait gives the other half of the row, the lock and the requests     *)
(* that hold it; every step is a step of one half and leaves the columns   *)
(* of the other alone.                                                     *)
(***************************************************************************)
EXTENDS Portrait, Naturals

CONSTANTS
    Editors,      \* the windows open on the text
    Contents,     \* what a text may be
    MaxVersion    \* bound on the versions explored

ASSUME DocumentAssumption == MaxVersion \in Nat \ {0}

VARIABLES
    content,   \* the column "content" of the row
    version,   \* the column "version"
    view,      \* the document each window was last shown
    step,      \* where its request is
    body       \* the text its request carries, under the version of its view

documentVars == <<content, version, view, step, body>>
profileVars == <<vars, documentVars>>

Steps == {"idle", "read", "update"}
CurrentDocument == [content |-> content, version |-> version]

ProfileInit ==
    /\ Init
    /\ content \in Contents
    /\ version = 1
    /\ view = [e \in Editors |-> CurrentDocument]
    /\ step = [e \in Editors |-> "idle"]
    /\ body = [e \in Editors |-> content]

-----------------------------------------------------------------------------
\* The request ends; the answer reaches the window or is lost.  What it sent
\* is of no use any more.
Shown(e, document) ==
    /\ view' \in {view, [view EXCEPT ![e] = document]}
    /\ step' = [step EXCEPT ![e] = "idle"]
    /\ body' = [body EXCEPT ![e] = view'[e].content]

\* 409, 503, 500: the window keeps what it was shown.
Refused(e) == Shown(e, view[e])

\* findCurrent, in a window that is not saving.
FindCurrent(e) ==
    /\ step[e] = "idle"
    /\ Shown(e, CurrentDocument)
    /\ UNCHANGED <<vars, content, version>>

\* PUT /profile with the version the window was shown.
Submit(e, text) ==
    /\ step[e] = "idle"
    /\ view[e].version < MaxVersion
    /\ body' = [body EXCEPT ![e] = text]
    /\ step' = [step EXCEPT ![e] = "read"]
    /\ UNCHANGED <<vars, content, version, view>>

\* The same text under the current version: nothing to write.
Unchanged(e) == view[e].version = version /\ body[e] = content

\* replace: the row is read, the lock is not waited for.
Read(e) ==
    /\ step[e] = "read"
    /\ IF Unchanged(e)
       THEN Shown(e, CurrentDocument)
       ELSE step' = [step EXCEPT ![e] = "update"] /\ UNCHANGED <<view, body>>
    /\ UNCHANGED <<vars, content, version>>

\* WHERE version = dto.version, on the row as the lock gives it.
Matches(e) == view[e].version = version

\* Mutant: the update writes every column, the keys it was not given as NULL.
ResetPortrait == row' = EmptyRow /\ UNCHANGED <<bucket, lock, pc, key, seen, late, page, journal, leaked, struck>>

\* The columns of the portrait are not in the SET.
KeepPortrait == UNCHANGED vars

\* UPDATE in a transaction of its own, once nobody holds the row.
Update(e) ==
    /\ step[e] = "update"
    /\ LockProfileRow
    /\ Matches(e)
    /\ content' = body[e]
    /\ version' = version + 1
    /\ Shown(e, [content |-> content', version |-> version'])
    /\ KeepPortrait

\* No row under that version: 409.
Conflict(e) ==
    /\ step[e] = "update"
    /\ LockProfileRow
    /\ ~Matches(e)
    /\ Refused(e)
    /\ UNCHANGED <<vars, content, version>>

WaitWithoutBound(e) == FALSE   \* mutant: no lock_timeout

\* lock_timeout (503), or a query that fails (500).
GiveUp(e) ==
    /\ step[e] \in {"read", "update"}
    /\ Refused(e)
    /\ UNCHANGED <<vars, content, version>>

Save(e) == Read(e) \/ Update(e) \/ Conflict(e) \/ GiveUp(e)

-----------------------------------------------------------------------------
\* Mutant: any write of the row makes a version.
CountEveryWrite ==
    /\ version' = IF row' = row THEN version ELSE version + 1
    /\ UNCHANGED <<content, view, step, body>>

\* A step of the portrait leaves the text alone: a change of portrait does not
\* make an open draft stale.
KeepDocument == UNCHANGED documentVars

\* The process stops, with the requests of both kinds.
StopSaving ==
    /\ step' = [e \in Editors |-> "idle"]
    /\ body' = [e \in Editors |-> view[e].content]
    /\ UNCHANGED <<content, version, view>>

PortraitStep ==
    \/ \E p \in Requests, k \in Key : Request(p, k)
    \/ \E p \in Requests : Progress(p) \/ LoseLock(p)
    \/ \E op \in {"put", "delete"}, k \in Keys : Land(op, k)
    \/ ServePage

ProfileNext ==
    \/ PortraitStep /\ KeepDocument
    \/ Crash /\ StopSaving
    \/ \E e \in Editors : FindCurrent(e) \/ Save(e) \/ \E text \in Contents : Submit(e, text)

ProfileSpec == ProfileInit /\ [][ProfileNext]_profileVars

\* As for the portrait: every callback runs, waits are bounded.
FairProfileSpec ==
    /\ ProfileSpec
    /\ \A p \in Requests : WF_profileVars(Progress(p) /\ KeepDocument)
    /\ \A e \in Editors : WF_profileVars(Save(e))

-----------------------------------------------------------------------------
DocumentTypeOK ==
    /\ content \in Contents
    /\ version \in 1..MaxVersion
    /\ view \in [Editors -> [content : Contents, version : 1..version]]
    /\ step \in [Editors -> Steps]
    /\ body \in [Editors -> Contents]

\* The invariant of the portrait, with its stored keys and its locks, holds on
\* the shared row whatever the windows write to it; a window is never ahead of
\* the row and, under the current version, was shown the current text.
ProfileInv ==
    /\ IInv
    /\ DocumentTypeOK
    /\ \A e \in Editors : view[e].version = version => view[e].content = content

\* The text implements the versioned document: a window replaces what it was
\* shown and nothing else, and neither a change of portrait nor a refusal nor
\* an identical text makes a version, which would make an open draft stale.
Document == INSTANCE VersionedDocument
KeepsDocument == Document!Spec

\* Every save and every change of portrait answers, although they wait for one
\* lock that is held across S3 calls and nothing orders those who wait.
EveryoneAnswered ==
    /\ Answered
    /\ \A e \in Editors : step[e] # "idle" ~> step[e] = "idle"
=============================================================================
