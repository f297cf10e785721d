-------------------------- MODULE VersionedDocument --------------------------
(***************************************************************************)
(* What a document under version control promises to the windows that edit *)
(* it, without locks, requests or failures: whoever replaces it was shown  *)
(* the very document that is replaced, and nothing but a replacement makes *)
(* a version.  ProfileDocument.tla and WorkshopGuide.tla are shown to      *)
(* implement it.                                                           *)
(***************************************************************************)
EXTENDS Naturals

CONSTANTS Editors, Contents

VARIABLES
    content, version,   \* the document
    view                \* what each window was last shown of it

documentVars == <<content, version, view>>

Current == [content |-> content, version |-> version]

\* Version 0 is that of a default document, which is not stored.
Init ==
    /\ content \in Contents
    /\ version \in {0, 1}
    /\ view = [e \in Editors |-> Current]

Show(e) ==
    /\ view' = [view EXCEPT ![e] = Current]
    /\ UNCHANGED <<content, version>>

\* The answer may be lost on its way to the window.  Another content makes a
\* version; so does the default document when it is first stored.
Replace(e, c) ==
    /\ view[e] = Current
    /\ c # content \/ version = 0
    /\ content' = c
    /\ version' = version + 1
    /\ view' \in {view, [view EXCEPT ![e] = Current']}

Next == \E e \in Editors : Show(e) \/ \E c \in Contents : Replace(e, c)

Spec == Init /\ [][Next]_documentVars
=============================================================================
