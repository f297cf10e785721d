---------------------------- MODULE WorkshopGuide ----------------------------
(***************************************************************************)
(* The insert guide: one jsonb document, replaced as a whole under a       *)
(* version (WorkshopGuideService).  A replacement reads the row, builds    *)
(* the content to store from the body and from that row, and then writes   *)
(* on condition that the row still has the version the editor sent.        *)
(***************************************************************************)
EXTENDS Naturals

CONSTANTS
    Editors,      \* admin windows editing the guide
    Bodies,       \* enabled flag and entries, as one value
    EmptyBody,    \* the seed: disabled, no entry
    NoRow,        \* the table is empty
    Absent,       \* decoderEnabled is not in the body, or not in the row
    LastVersion    \* bound on the versions explored

ASSUME GuideAssumption ==
    /\ EmptyBody \in Bodies
    /\ Absent \notin BOOLEAN
    /\ NoRow \notin [version : Nat, body : Bodies, decoder : BOOLEAN \cup {Absent}]
    /\ LastVersion \in Nat

VARIABLES
    row,      \* the committed row, or NoRow
    step,       \* "edit": no request; "read": PUT received; "write": row read
    view,     \* the document an editor was last shown
    draft,    \* the body of its PUT (the version sent is the one of view)
    current   \* the row its PUT has read

guideVars == <<row, step, view, draft, current>>

Row == [version : Nat \ {0}, body : Bodies, decoder : BOOLEAN \cup {Absent}]
Document == [version : Nat, body : Bodies, decoder : BOOLEAN]
Draft == [body : Bodies, decoder : BOOLEAN \cup {Absent}]

\* decoderEnabled ?? otherwise
Or(decoder, otherwise) == IF decoder = Absent THEN otherwise ELSE decoder

\* What is shown of a row; without a row, the default document at version 0.
Shown(r) ==
    IF r = NoRow
    THEN [version |-> 0, body |-> EmptyBody, decoder |-> FALSE]
    ELSE [version |-> r.version, body |-> r.body, decoder |-> Or(r.decoder, FALSE)]

\* Mutant: an absent decoderEnabled is FALSE.
ContentResets(d, r) == [body |-> d.body, decoder |-> Or(d.decoder, FALSE)]

\* The content a body stands for, the row read completing it.
Content(d, r) == [body |-> d.body, decoder |-> Or(d.decoder, Shown(r).decoder)]

Stored(version, content) ==
    [version |-> version, body |-> content.body, decoder |-> content.decoder]

\* The seed migration inserts the row without decoderEnabled, which came later.
GuideInit ==
    /\ row \in {NoRow, [version |-> 1, body |-> EmptyBody, decoder |-> Absent]}
    /\ step = [e \in Editors |-> "edit"]
    /\ view = [e \in Editors |-> Shown(row)]
    /\ draft = [e \in Editors |-> [body |-> EmptyBody, decoder |-> Absent]]
    /\ current = [e \in Editors |-> NoRow]

-----------------------------------------------------------------------------
\* GET: the editor reloads.
Load(e) ==
    /\ step[e] = "edit"
    /\ view' = [view EXCEPT ![e] = Shown(row)]
    /\ UNCHANGED <<row, step, draft, current>>

\* PUT: a body against the version shown, again perhaps, an older window too.
Submit(e, d) ==
    /\ step[e] = "edit"
    /\ Shown(row).version < LastVersion
    /\ draft' = [draft EXCEPT ![e] = d]
    /\ step' = [step EXCEPT ![e] = "read"]
    /\ UNCHANGED <<row, view, current>>

\* findRow, outside any transaction.
Read(e) ==
    /\ step[e] = "read"
    /\ current' = [current EXCEPT ![e] = row]
    /\ step' = [step EXCEPT ![e] = "write"]
    /\ UNCHANGED <<row, view, draft>>

\* The answer of a PUT: the document it carries, or the one shown before when
\* the answer is an error or is lost.
Reply(e, document) ==
    /\ view' \in {view, [view EXCEPT ![e] = document]}
    /\ step' = [step EXCEPT ![e] = "edit"]
    /\ current' = [current EXCEPT ![e] = NoRow]
    /\ UNCHANGED draft

\* Mutant: the row is compared as it is stored, without its default.
IdenticalAsStored(e) ==
    /\ current[e] # NoRow
    /\ view[e].version = current[e].version
    /\ Content(draft[e], current[e]) =
          [body |-> current[e].body, decoder |-> current[e].decoder]

\* The content of the row read, at the version sent: nothing is written.
Identical(e) ==
    /\ current[e] # NoRow
    /\ view[e].version = current[e].version
    /\ Content(draft[e], current[e]) =
          [body |-> current[e].body, decoder |-> Shown(current[e]).decoder]

Keep(e) ==
    /\ step[e] = "write"
    /\ Identical(e)
    /\ Reply(e, Shown(current[e]))
    /\ UNCHANGED row

\* Version 0: INSERT ... ON CONFLICT DO NOTHING, the row starts at version 1.
StoreFirst(e) ==
    /\ step[e] = "write"
    /\ ~Identical(e)
    /\ view[e].version = 0
    /\ row = NoRow
    /\ row' = Stored(1, Content(draft[e], current[e]))
    /\ Reply(e, Shown(row'))

AnyVersion(e) == view[e].version # 0 /\ row # NoRow   \* mutant: WHERE id only

\* UPDATE ... WHERE version = the version sent...
Matches(e) ==
    /\ view[e].version # 0
    /\ row # NoRow
    /\ row.version = view[e].version

\* ...SET version = version + 1.
Bump(version) == version + 1

Update(e) ==
    /\ step[e] = "write"
    /\ ~Identical(e)
    /\ Matches(e)
    /\ row' = Stored(Bump(row.version), Content(draft[e], current[e]))
    /\ Reply(e, Shown(row'))

\* Neither wrote a row: 409.
Conflict(e) ==
    /\ step[e] = "write"
    /\ ~Identical(e)
    /\ IF view[e].version = 0 THEN row # NoRow ELSE ~Matches(e)
    /\ Reply(e, view[e])
    /\ UNCHANGED row

\* The request dies before its write: a lost connection or a restart.
Fail(e) ==
    /\ step[e] \in {"read", "write"}
    /\ Reply(e, view[e])
    /\ UNCHANGED row

Put(e) == Read(e) \/ Keep(e) \/ StoreFirst(e) \/ Update(e) \/ Conflict(e)

GuideNext == \E e \in Editors :
    \/ Load(e)
    \/ \E d \in Draft : Submit(e, d)
    \/ Put(e)
    \/ Fail(e)

GuideSpec == GuideInit /\ [][GuideNext]_guideVars

-----------------------------------------------------------------------------
GuideTypeOK ==
    /\ row \in Row \cup {NoRow}
    /\ step \in [Editors -> {"edit", "read", "write"}]
    /\ view \in [Editors -> Document]
    /\ draft \in [Editors -> Draft]
    /\ current \in [Editors -> Row \cup {NoRow}]

\* A version names one content for ever: an editor whose version is the
\* current one was shown the current document, however old its window is.
VersionNamesContent ==
    \A e \in Editors :
        view[e].version = Shown(row).version => view[e] = Shown(row)

\* The row a request acts on, at its version, is the row as it stands or
\* older: a read that is not stale is exact.
ReadNamesContent ==
    \A e \in Editors : step[e] = "write" =>
        /\ view[e].version <= Shown(current[e]).version
        /\ Shown(current[e]).version <= Shown(row).version
        /\ Shown(current[e]).version = Shown(row).version => current[e] = row

\* A request whose version is that of the row it has read was made from that
\* very row, although both may be out of date by now.
ReadIsShown ==
    \A e \in Editors :
        step[e] = "write" /\ current[e] # NoRow /\ view[e].version = current[e].version
            => view[e] = Shown(current[e])

GuideInv ==
    /\ GuideTypeOK
    /\ VersionNamesContent
    /\ ReadNamesContent
    /\ ReadIsShown
    /\ \A e \in Editors : view[e].version <= Shown(row).version

\* e's request writes the row in this step.
Writes(e) == step[e] = "write" /\ step'[e] = "edit" /\ row' # row

\* No lost update: whoever replaces the document was shown the very document
\* that is replaced, and the version grows by exactly one.
NoLostUpdate ==
    [][row' # row =>
          /\ row' # NoRow /\ row'.version = Shown(row).version + 1
          /\ \E e \in Editors : Writes(e) /\ view[e] = Shown(row)]_guideVars

\* A body without decoderEnabled leaves the decoder of the document it
\* replaces, although it was read in another statement than the write.
DecoderKept ==
    [][\A e \in Editors :
          Writes(e) /\ draft[e].decoder = Absent
              => Shown(row').decoder = Shown(row).decoder]_guideVars

\* The content of a document, without its version.
ContentOf(document) == [body |-> document.body, decoder |-> document.decoder]
AsShown(document) == [content |-> ContentOf(document), version |-> document.version]

\* The guide implements the versioned document, the default document being its
\* version 0: an identical body, a refusal or a request that dies makes no
\* version, and the answer to an identical body, which may be that of a row
\* replaced since, shows its window nothing else than before.
Versioned ==
    INSTANCE VersionedDocument
    WITH Contents <- [body : Bodies, decoder : BOOLEAN],
         content <- ContentOf(Shown(row)),
         version <- Shown(row).version,
         view <- [e \in Editors |-> AsShown(view[e])]
KeepsVersions == Versioned!Spec
=============================================================================
