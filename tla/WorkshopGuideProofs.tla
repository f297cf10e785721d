------------------------- MODULE WorkshopGuideProofs -------------------------
(***************************************************************************)
(* Theorems of WorkshopGuide, for any editors, bodies and versions.        *)
(***************************************************************************)
EXTENDS WorkshopGuide, TLAPS

\* No row shows version 0; a row shows its own version, never 0.
LEMMA ShownTypes ==
  ASSUME NEW r \in Row \cup {NoRow}
  PROVE  /\ Shown(r) \in Document
         /\ r = NoRow => Shown(r).version = 0
         /\ r # NoRow => Shown(r).version = r.version /\ r.version \in Nat \ {0} /\ r \in Row
BY GuideAssumption DEF Shown, Row, Document, Or

\* What a replacement makes of a body is a content.
LEMMA ContentTypes ==
  ASSUME NEW d \in Draft, NEW r \in Row \cup {NoRow}, NEW n \in Nat \ {0}
  PROVE  Stored(n, Content(d, r)) \in Row
         /\ Stored(n, Content(d, r)).version = n
         /\ Stored(n, Content(d, r)) # NoRow
<1>1. Content(d, r).body \in Bodies /\ Content(d, r).decoder \in BOOLEAN \cup {Absent}
  BY ShownTypes DEF Content, Or, Draft, Document
<1>2. Row \subseteq [version : Nat, body : Bodies, decoder : BOOLEAN \cup {Absent}]
  BY DEF Row
<1> QED BY <1>1, <1>2, GuideAssumption DEF Stored, Row

\* Only the editor that answers changes, and it shows the document answered
\* or the one it showed before.
LEMMA ReplyTypes ==
  ASSUME GuideTypeOK, NEW e \in Editors, NEW doc \in Document, Reply(e, doc)
  PROVE  /\ step' \in [Editors -> {"edit", "read", "write"}]
         /\ view' \in [Editors -> Document]
         /\ draft' = draft
         /\ current' \in [Editors -> Row \cup {NoRow}]
         /\ view'[e] \in {view[e], doc} /\ step'[e] = "edit"
         /\ \A f \in Editors \ {e} :
               view'[f] = view[f] /\ step'[f] = step[f] /\ current'[f] = current[f]
BY DEF GuideTypeOK, Reply

\* The current version only grows, and the row that carries it is new.
LEMMA WriteGrows ==
  ASSUME GuideTypeOK, NEW e \in Editors, StoreFirst(e) \/ Update(e)
  PROVE  /\ row' \in Row /\ row' # NoRow
         /\ row'.version = Shown(row).version + 1
         /\ Shown(row').version = Shown(row).version + 1
         /\ Shown(row') \in Document
         /\ Reply(e, Shown(row'))
         /\ view[e].version = Shown(row).version
<1> DEFINE c == Content(draft[e], current[e])
<1>1. draft[e] \in Draft /\ current[e] \in Row \cup {NoRow}
  BY DEF GuideTypeOK
<1>2. CASE StoreFirst(e)
  <2>1. row = NoRow /\ row' = Stored(1, c) /\ Shown(row).version = 0 /\ view[e].version = 0
    BY <1>2 DEF StoreFirst, Shown
  <2>2. row' \in Row /\ row'.version = 1 /\ row' # NoRow
    BY <1>1, <2>1, ContentTypes
  <2> QED BY <1>2, <2>1, <2>2, ShownTypes DEF StoreFirst
<1>3. CASE Update(e)
  <2>1. /\ row # NoRow /\ row' = Stored(row.version + 1, c)
        /\ view[e].version = row.version
    BY <1>3 DEF Update, Matches, Bump
  <2>2. row.version \in Nat \ {0} /\ Shown(row).version = row.version
    BY <2>1, ShownTypes DEF GuideTypeOK
  <2>3. row' \in Row /\ row'.version = row.version + 1 /\ row' # NoRow
    BY <1>1, <2>1, <2>2, ContentTypes
  <2> QED BY <1>3, <2>1, <2>2, <2>3, ShownTypes DEF Update
<1> QED BY <1>2, <1>3

-----------------------------------------------------------------------------
\* No row yet: version 0.
LEMMA InitInv == GuideInit => GuideInv
<1> SUFFICES ASSUME GuideInit PROVE GuideInv
  OBVIOUS
<1>1. row \in Row \cup {NoRow}
  BY GuideAssumption DEF GuideInit, Row
<1>2. Shown(row) \in Document
  BY <1>1, ShownTypes
<1> QED
  BY <1>1, <1>2, GuideAssumption
  DEF GuideInit, GuideInv, GuideTypeOK, Draft, VersionNamesContent, ReadNamesContent, ReadIsShown, Document

\* A request keeps its version, the row it has read and what its window shows.
LEMMA ReadStaysShown ==
  ASSUME GuideInv, [GuideNext]_guideVars PROVE ReadIsShown'
<1> SUFFICES ASSUME NEW f \in Editors, step'[f] = "write", current'[f] # NoRow,
                    view'[f].version = current'[f].version
             PROVE  view'[f] = Shown(current'[f])
  BY DEF ReadIsShown, Shown
<1>i. /\ GuideTypeOK /\ VersionNamesContent /\ ReadIsShown
      /\ Shown(row) \in Document
      /\ row # NoRow => Shown(row).version = row.version
  BY ShownTypes DEF GuideInv, GuideTypeOK
<1>1. CASE UNCHANGED <<step, view, current>>
  BY <1>1, <1>i DEF ReadIsShown
<1>2. ASSUME NEW e \in Editors, Read(e) PROVE view'[f] = Shown(current'[f])
  <2>1. CASE f = e
    <3>1. current'[f] = row /\ view'[f] = view[f]
      BY <1>i, <1>2, <2>1 DEF Read, GuideTypeOK
    <3> QED BY <1>i, <3>1 DEF VersionNamesContent
  <2>2. CASE f # e
    <3>1. step[f] = "write" /\ current'[f] = current[f] /\ view'[f] = view[f]
      BY <1>i, <1>2, <2>2 DEF Read, GuideTypeOK
    <3> QED BY <1>i, <3>1 DEF ReadIsShown
  <2> QED BY <2>1, <2>2
<1>3. ASSUME NEW e \in Editors, Load(e) \/ \E d \in Draft : Submit(e, d)
      PROVE  view'[f] = Shown(current'[f])
  <2>1. step[f] = "write" /\ current'[f] = current[f] /\ view'[f] = view[f]
    BY <1>i, <1>3 DEF Load, Submit, GuideTypeOK
  <2> QED BY <1>i, <2>1 DEF ReadIsShown
<1>4. ASSUME NEW e \in Editors, NEW doc, Reply(e, doc) PROVE view'[f] = Shown(current'[f])
  <2>1. f # e /\ step[f] = "write" /\ current'[f] = current[f] /\ view'[f] = view[f]
    BY <1>i, <1>4 DEF Reply, GuideTypeOK
  <2> QED BY <1>i, <2>1 DEF ReadIsShown
<1>5. ASSUME NEW e \in Editors, Keep(e) \/ StoreFirst(e) \/ Update(e) \/ Conflict(e) \/ Fail(e)
      PROVE  \E doc : Reply(e, doc)
  BY <1>5 DEF Keep, StoreFirst, Update, Conflict, Fail
<1> QED BY <1>1, <1>2, <1>3, <1>4, <1>5 DEF GuideNext, Put, guideVars

\* Every step of a window and of a replacement.
LEMMA NextInv == GuideInv /\ [GuideNext]_guideVars => GuideInv'
<1> SUFFICES ASSUME GuideInv, [GuideNext]_guideVars PROVE GuideInv'
  OBVIOUS
<1>i. /\ GuideTypeOK /\ VersionNamesContent /\ ReadNamesContent
      /\ \A e \in Editors : view[e].version <= Shown(row).version
      /\ Shown(row) \in Document
  BY ShownTypes DEF GuideInv, GuideTypeOK
<1> DEFINE Bounded == \A e \in Editors : view[e].version <= Shown(row).version
<1> DEFINE Goal == GuideTypeOK' /\ VersionNamesContent' /\ ReadNamesContent' /\ Bounded'
<1>1. ASSUME NEW e \in Editors, Load(e) PROVE Goal
  <2>1. Shown(row)' = Shown(row) /\ UNCHANGED <<row, step, draft, current>>
    BY <1>1 DEF Load, Shown
  <2>2. \A f \in Editors : view'[f] = view[f] \/ view'[f] = Shown(row)
    BY <1>i, <1>1 DEF Load, GuideTypeOK
  <2>3. GuideTypeOK'
    BY <1>i, <1>1, <2>1 DEF Load, GuideTypeOK
  <2>4. VersionNamesContent' /\ Bounded'
    BY <1>i, <2>1, <2>2 DEF VersionNamesContent, Document
  <2>5. step[e] # "write" /\ \A f \in Editors \ {e} : view'[f] = view[f]
    BY <1>i, <1>1 DEF Load, GuideTypeOK
  <2>6. \A f \in Editors : Shown(current[f])' = Shown(current[f])
    BY <2>1 DEF Shown
  <2>7. ReadNamesContent'
    BY <1>i, <2>1, <2>5, <2>6 DEF ReadNamesContent
  <2> QED BY <2>3, <2>4, <2>7
<1>2. ASSUME NEW e \in Editors, NEW d \in Draft, Submit(e, d) PROVE Goal
  BY <1>i, <1>2
  DEF Submit, GuideTypeOK, VersionNamesContent, ReadNamesContent, Shown
<1>3. ASSUME NEW e \in Editors, Read(e) PROVE Goal
  <2>1. GuideTypeOK'
    BY <1>i, <1>3 DEF Read, GuideTypeOK
  <2>2. current'[e] = row /\ \A f \in Editors \ {e} : current'[f] = current[f] /\ step'[f] = step[f]
    BY <1>i, <1>3 DEF Read, GuideTypeOK
  <2>3. Shown(row)' = Shown(row) /\ row' = row /\ view' = view
    BY <1>3 DEF Read, Shown
  <2>4. VersionNamesContent' /\ Bounded'
    BY <1>i, <2>3 DEF VersionNamesContent
  <2>5. ASSUME NEW f \in Editors, f # e PROVE Shown(current[f])' = Shown(current[f])
    BY <2>2, <2>5 DEF Shown
  <2>6. Shown(current[e])' = Shown(row) /\ view[e] \in Document
    BY <1>i, <2>2, <2>3 DEF GuideTypeOK, Shown
  <2>7. ASSUME NEW f \in Editors, step'[f] = "write"
        PROVE  /\ view'[f].version <= Shown(current[f])'.version
               /\ Shown(current[f])'.version <= Shown(row)'.version
               /\ Shown(current[f])'.version = Shown(row)'.version => current'[f] = row'
    <3>1. CASE f = e
      BY <1>i, <2>2, <2>3, <2>6, <3>1 DEF Document
    <3>2. CASE f # e
      BY <1>i, <2>2, <2>3, <2>5, <2>7, <3>2 DEF ReadNamesContent
    <3> QED BY <3>1, <3>2
  <2>8. ReadNamesContent'
    BY <2>7 DEF ReadNamesContent
  <2> QED BY <2>1, <2>4, <2>8
<1>4. ASSUME NEW e \in Editors, NEW doc \in Document, Reply(e, doc), UNCHANGED row,
             doc.version <= Shown(row).version,
             doc.version = Shown(row).version => doc = Shown(row)
      PROVE  Goal
  <2>1. Shown(row)' = Shown(row)
    BY <1>4 DEF Shown
  <2>2. GuideTypeOK'
    BY <1>i, <1>4, ReplyTypes DEF GuideTypeOK
  <2>3. VersionNamesContent' /\ Bounded'
    BY <1>i, <1>4, <2>1, ReplyTypes DEF VersionNamesContent
  <2>4. ReadNamesContent'
    BY <1>i, <1>4, <2>1, ReplyTypes DEF ReadNamesContent, Shown
  <2> QED BY <2>2, <2>3, <2>4
<1>5. ASSUME NEW e \in Editors, Conflict(e) \/ Fail(e) PROVE Goal
  <2>1. view[e] \in Document
    BY <1>i DEF GuideTypeOK
  <2> QED BY <1>i, <1>4, <1>5, <2>1 DEF Conflict, Fail, VersionNamesContent
<1>6. ASSUME NEW e \in Editors, Keep(e) PROVE Goal
  <2>1. Shown(current[e]) \in Document
    BY <1>i, ShownTypes DEF GuideTypeOK
  <2>2. /\ Shown(current[e]).version <= Shown(row).version
        /\ Shown(current[e]).version = Shown(row).version => current[e] = row
    BY <1>i, <1>6 DEF Keep, ReadNamesContent
  <2> QED BY <1>4, <1>6, <2>1, <2>2 DEF Keep
<1>7. ASSUME NEW e \in Editors, StoreFirst(e) \/ Update(e) PROVE Goal
  <2>1. /\ row' \in Row /\ Shown(row').version = Shown(row).version + 1
        /\ Shown(row') \in Document /\ Reply(e, Shown(row'))
    BY <1>i, <1>7, WriteGrows
  <2>2. GuideTypeOK'
    BY <1>i, <2>1, ReplyTypes DEF GuideTypeOK
  <2>3. \A f \in Editors : view[f].version \in Nat /\ view[f].version < Shown(row').version
    BY <1>i, <2>1 DEF GuideTypeOK, Document
  <2>4. VersionNamesContent' /\ Bounded'
    <3>1. \A f \in Editors : view'[f] = view[f] \/ view'[f] = Shown(row')
      BY <1>i, <2>1, ReplyTypes
    <3> QED BY <2>1, <2>3, <3>1 DEF VersionNamesContent, Document
  <2>5. ReadNamesContent'
    <3>1. \A f \in Editors \ {e} : step[f] = "write" =>
             /\ current[f] \in Row \cup {NoRow} /\ Shown(current[f]) \in Document
             /\ Shown(current[f]).version < Shown(row').version
      BY <1>i, <2>1, ShownTypes DEF ReadNamesContent, GuideTypeOK, Document
    <3>2. \A f \in Editors : step'[f] = "write" => f # e /\ step[f] = "write"
             /\ current'[f] = current[f] /\ view'[f] = view[f]
      BY <1>i, <2>1, ReplyTypes
    <3> QED BY <1>i, <2>1, <3>1, <3>2 DEF ReadNamesContent, Document
  <2> QED BY <2>2, <2>4, <2>5
<1>8. ASSUME UNCHANGED guideVars PROVE Goal
  BY <1>i, <1>8 DEF guideVars, GuideTypeOK, VersionNamesContent, ReadNamesContent, Shown
<1>9. Goal
  BY <1>1, <1>2, <1>3, <1>5, <1>6, <1>7, <1>8 DEF GuideNext, Put
<1> QED BY <1>9, ReadStaysShown DEF GuideInv

\* A version names one content, in the row, in every open window and in
\* every row read by a request.
THEOREM Invariance == GuideSpec => []GuideInv
BY InitInv, NextInv, PTL DEF GuideSpec

\* A replacement always replaces the document its editor was shown.
THEOREM NoUpdateIsLost == GuideSpec => NoLostUpdate
<1>1. ASSUME GuideInv, [GuideNext]_guideVars, row' # row
      PROVE  /\ row' # NoRow /\ row'.version = Shown(row).version + 1
             /\ \E e \in Editors : Writes(e) /\ view[e] = Shown(row)
  <2>1. PICK e \in Editors : StoreFirst(e) \/ Update(e)
    BY <1>1 DEF GuideNext, guideVars, Load, Submit, Put, Read, Keep, Conflict, Fail
  <2>2. /\ row' # NoRow /\ row'.version = Shown(row).version + 1
        /\ view[e].version = Shown(row).version
        /\ Reply(e, Shown(row')) /\ Shown(row') \in Document
    BY <1>1, <2>1, WriteGrows DEF GuideInv
  <2>3. view[e] = Shown(row)
    BY <1>1, <2>2 DEF GuideInv, VersionNamesContent
  <2>4. Writes(e)
    BY <1>1, <2>1, <2>2, ReplyTypes DEF Writes, StoreFirst, Update, GuideInv
  <2> QED BY <2>2, <2>3, <2>4
<1>2. GuideInv /\ [GuideNext]_guideVars =>
        [row' # row =>
          /\ row' # NoRow /\ row'.version = Shown(row).version + 1
          /\ \E e \in Editors : Writes(e) /\ view[e] = Shown(row)]_guideVars
  BY <1>1
<1> QED BY Invariance, <1>2, PTL DEF GuideSpec, NoLostUpdate

\* A write without decoderEnabled keeps the decoder of what it replaces.
THEOREM DecoderIsKept == GuideSpec => DecoderKept
<1>1. ASSUME GuideInv, [GuideNext]_guideVars, NEW e \in Editors, Writes(e), draft[e].decoder = Absent
      PROVE  Shown(row').decoder = Shown(row).decoder
  <2>1. StoreFirst(e) \/ Update(e)
    <3>1. PICK f \in Editors : StoreFirst(f) \/ Update(f)
      BY <1>1 DEF GuideNext, guideVars, Load, Submit, Put, Read, Keep, Conflict, Fail, Writes
    <3>2. Shown(row') \in Document /\ Reply(f, Shown(row'))
      BY <1>1, <3>1, WriteGrows DEF GuideInv
    <3>3. f = e
      BY <1>1, <3>2, ReplyTypes DEF Writes, GuideInv
    <3> QED BY <3>1, <3>3
  <2>2. /\ view[e].version = Shown(row).version
        /\ Shown(row) \in Document /\ Shown(current[e]) \in Document
        /\ row \in Row \cup {NoRow} /\ current[e] \in Row \cup {NoRow}
    BY <1>1, <2>1, WriteGrows, ShownTypes DEF GuideInv, GuideTypeOK
  <2>3. current[e] = row
    BY <1>1, <2>2 DEF GuideInv, ReadNamesContent, Writes, Document
  <2>4. \E n \in Nat \ {0} : row' = Stored(n, Content(draft[e], row))
    BY <2>1, <2>2, <2>3, ShownTypes DEF StoreFirst, Update, Matches, Bump
  <2>5. Shown(row).decoder \in BOOLEAN
    BY <2>2 DEF Document
  <2>6. row' # NoRow
    BY <1>1, <2>1, WriteGrows DEF GuideInv
  <2>7. Content(draft[e], row).decoder = Shown(row).decoder
    BY <1>1 DEF Content, Or
  <2>8. Shown(row').decoder = Or(Shown(row).decoder, FALSE)
    <3>1. row'.decoder = Shown(row).decoder
      BY <2>4, <2>7 DEF Stored
    <3> QED BY <2>6, <3>1 DEF Shown
  <2> QED BY <2>5, <2>8, GuideAssumption DEF Or
<1>2. GuideInv /\ [GuideNext]_guideVars =>
        [\A e \in Editors : Writes(e) /\ draft[e].decoder = Absent
             => Shown(row').decoder = Shown(row).decoder]_guideVars
  BY <1>1
<1> QED BY Invariance, <1>2, PTL DEF GuideSpec, DecoderKept

-----------------------------------------------------------------------------
\* An answer that carries the document its window shows, or one it replaces,
\* changes nothing else of the versioned document.
LEMMA ReplySeen ==
  ASSUME GuideTypeOK, NEW e \in Editors, NEW doc \in Document, Reply(e, doc)
  PROVE  LET seen == [f \in Editors |-> AsShown(view[f])]
         IN  [f \in Editors |-> AsShown(view'[f])] \in {seen, [seen EXCEPT ![e] = AsShown(doc)]}
<1> DEFINE seen == [f \in Editors |-> AsShown(view[f])]
           new == [f \in Editors |-> AsShown(view'[f])]
<1>1. CASE view' = view
  BY <1>1
<1>2. CASE view' = [view EXCEPT ![e] = doc]
  <2>1. \A f \in Editors : view'[f] = IF f = e THEN doc ELSE view[f]
    BY <1>2 DEF GuideTypeOK
  <2>2. new = [f \in Editors |-> IF f = e THEN AsShown(doc) ELSE AsShown(view[f])]
    BY <2>1
  <2> QED BY <2>2
<1> QED BY <1>1, <1>2 DEF Reply

\* A replacement is one of the versioned document: it was made from the row it
\* replaces, and it changes it or stores the default for the first time.
LEMMA WriteReplaces ==
  ASSUME GuideInv, NEW e \in Editors, StoreFirst(e) \/ Update(e)
  PROVE  \E c \in [body : Bodies, decoder : BOOLEAN] : Versioned!Replace(e, c)
<1> DEFINE c == Content(draft[e], current[e])
<1>1. /\ GuideTypeOK /\ row' \in Row /\ row' # NoRow
      /\ Shown(row').version = Shown(row).version + 1
      /\ Shown(row') \in Document /\ Reply(e, Shown(row'))
      /\ view[e].version = Shown(row).version
  BY WriteGrows DEF GuideInv
<1>2. /\ draft[e] \in Draft /\ current[e] \in Row \cup {NoRow} /\ row \in Row \cup {NoRow}
      /\ view[e] = Shown(row)
  BY <1>1 DEF GuideInv, GuideTypeOK, VersionNamesContent
<1>3. c \in [body : Bodies, decoder : BOOLEAN]
  <2>1. Shown(current[e]).decoder \in BOOLEAN
    BY <1>2, ShownTypes DEF Document
  <2> QED BY <1>2, <2>1 DEF Content, Or, Draft
<1>4. ContentOf(Shown(row')) = c
  <2>1. row'.body = c.body /\ row'.decoder = c.decoder
    BY DEF StoreFirst, Update, Stored
  <2>2. Or(row'.decoder, FALSE) = c.decoder
    BY <1>3, <2>1, GuideAssumption DEF Or
  <2> QED BY <1>1, <1>3, <2>1, <2>2 DEF ContentOf, Shown
<1>5. c # ContentOf(Shown(row)) \/ Shown(row).version = 0
  <2>1. CASE StoreFirst(e)
    BY <1>2, <2>1, ShownTypes DEF StoreFirst
  <2>2. CASE Update(e)
    <3>1. row # NoRow /\ row.version = view[e].version /\ ~Identical(e) /\ step[e] = "write"
      BY <2>2 DEF Update, Matches
    <3>2. current[e] = row
      <4>1. /\ Shown(current[e]) \in Document /\ Shown(row) \in Document
            /\ view[e].version <= Shown(current[e]).version
            /\ Shown(current[e]).version <= Shown(row).version
            /\ Shown(current[e]).version = Shown(row).version => current[e] = row
        BY <1>2, <3>1, ShownTypes DEF GuideInv, ReadNamesContent
      <4> QED BY <1>1, <4>1 DEF Document
    <3>3. c # [body |-> row.body, decoder |-> Shown(row).decoder]
      BY <3>1, <3>2 DEF Identical
    <3>4. ContentOf(Shown(row)) = [body |-> row.body, decoder |-> Shown(row).decoder]
      BY <3>1 DEF ContentOf, Shown
    <3> QED BY <3>3, <3>4
  <2> QED BY <2>1, <2>2
<1>6. AsShown(view[e]) = [content |-> ContentOf(Shown(row)), version |-> Shown(row).version]
  BY <1>2 DEF AsShown
<1>7. AsShown(Shown(row')) = [content |-> ContentOf(Shown(row')), version |-> Shown(row').version]
  BY DEF AsShown
<1>8. [f \in Editors |-> AsShown(view'[f])] \in
         {[f \in Editors |-> AsShown(view[f])],
          [[f \in Editors |-> AsShown(view[f])] EXCEPT ![e] = AsShown(Shown(row'))]}
  BY <1>1, ReplySeen
<1> HIDE DEF c
<1>9. Versioned!Replace(e, c)
  BY <1>1, <1>4, <1>5, <1>6, <1>7, <1>8 DEF Versioned!Replace, Versioned!Current
<1> QED BY <1>3, <1>9

\* An answer that shows nothing new leaves the versioned document as it is.
LEMMA OldReplySeen ==
  ASSUME GuideTypeOK, NEW e \in Editors, Reply(e, view[e]), UNCHANGED row
  PROVE  UNCHANGED Versioned!documentVars
<1>1. view' = view
  BY DEF Reply, GuideTypeOK
<1> QED BY <1>1 DEF Versioned!documentVars, Shown

\* The guide implements the versioned document, whatever was read late, refused
\* or lost: its windows replace what they were shown, and nothing else makes a
\* version.
THEOREM GuideKeepsVersions == GuideSpec => KeepsVersions
<1>1. GuideInit => Versioned!Init
  <2> SUFFICES ASSUME GuideInit PROVE Versioned!Init
    OBVIOUS
  <2>1. row \in Row \cup {NoRow} /\ Shown(row).version \in {0, 1}
    BY GuideAssumption DEF GuideInit, Row, Shown
  <2>2. ContentOf(Shown(row)) \in [body : Bodies, decoder : BOOLEAN]
    BY <2>1, ShownTypes DEF ContentOf, Document
  <2>3. [e \in Editors |-> AsShown(view[e])]
          = [e \in Editors |-> [content |-> ContentOf(Shown(row)), version |-> Shown(row).version]]
    BY DEF GuideInit, AsShown
  <2> QED BY <2>1, <2>2, <2>3 DEF Versioned!Init, Versioned!Current
<1>2. ASSUME GuideInv, [GuideNext]_guideVars PROVE [Versioned!Next]_(Versioned!documentVars)
  <2>t. GuideTypeOK /\ VersionNamesContent /\ ReadIsShown
    BY <1>2 DEF GuideInv
  <2>1. ASSUME NEW e \in Editors, Load(e) PROVE Versioned!Show(e)
    <3>1. row' = row /\ view' = [view EXCEPT ![e] = Shown(row)]
      BY <2>1 DEF Load
    <3>2. \A f \in Editors : view'[f] = IF f = e THEN Shown(row) ELSE view[f]
      BY <2>t, <3>1 DEF GuideTypeOK
    <3>3. [f \in Editors |-> AsShown(view'[f])]
            = [[f \in Editors |-> AsShown(view[f])] EXCEPT ![e] = AsShown(Shown(row))]
      BY <3>2
    <3> QED BY <3>1, <3>3 DEF Versioned!Show, Versioned!Current, AsShown, Shown
  <2>2. ASSUME NEW e \in Editors, Read(e) \/ \E d \in Draft : Submit(e, d)
        PROVE  UNCHANGED Versioned!documentVars
    BY <2>2 DEF Read, Submit, Versioned!documentVars, Shown
  <2>3. ASSUME NEW e \in Editors, Keep(e) PROVE UNCHANGED Versioned!documentVars
    <3>1. view[e] = Shown(current[e])
      BY <2>t, <2>3 DEF Keep, Identical, ReadIsShown
    <3> QED BY <2>t, <2>3, <3>1, OldReplySeen DEF Keep
  <2>4. ASSUME NEW e \in Editors, Conflict(e) \/ Fail(e) PROVE UNCHANGED Versioned!documentVars
    BY <2>t, <2>4, OldReplySeen DEF Conflict, Fail
  <2>5. ASSUME NEW e \in Editors, StoreFirst(e) \/ Update(e)
        PROVE  \E c \in [body : Bodies, decoder : BOOLEAN] : Versioned!Replace(e, c)
    BY <1>2, <2>5, WriteReplaces
  <2>6. ASSUME UNCHANGED guideVars PROVE UNCHANGED Versioned!documentVars
    BY <2>6 DEF guideVars, Versioned!documentVars, Shown
  <2> QED BY <1>2, <2>1, <2>2, <2>3, <2>4, <2>5, <2>6 DEF GuideNext, Put, Versioned!Next
<1> QED BY Invariance, <1>1, <1>2, PTL DEF GuideSpec, KeepsVersions, Versioned!Spec
=============================================================================
