------------------------------ MODULE MCContact ------------------------------
(* TLC instance of the contact messages: their mail, the pages of their list *)
(* or what is reported of the requests that fail.  A behaviour is one of any *)
(* of them, the others staying at their initial state.                       *)
EXTENDS Contact

CONSTANTS Limit, MaxWritten
VARIABLES written, table, page, total, data, wanted, shown, shifted
List == INSTANCE ContactPages

ASSUME ListAssumption == List!PagesAssumption

VARIABLE failure
CONSTANTS Values, Urls, Paths, Nothing
Reports == INSTANCE Redaction

ASSUME ReportsAssumption == Reports!RedactionAssumption

VARIABLE scene
listVars == <<written, table, page, total, data, wanted, shown, shifted>>

ContactInit ==
    MailInit /\ List!Init /\ Reports!Init /\ scene \in {"mail", "list", "reports"}

PlayMail ==
    /\ scene = "mail"
    /\ MailNext
    /\ UNCHANGED <<scene, listVars, failure>>

PlayList ==
    /\ scene = "list"
    /\ List!Next
    /\ UNCHANGED <<scene, mailVars, failure>>

PlayReports ==
    /\ scene = "reports"
    /\ Reports!Next
    /\ UNCHANGED <<scene, mailVars, listVars>>

ContactNext == PlayMail \/ PlayList \/ PlayReports

ContactSpec ==
    ContactInit /\ [][ContactNext]_<<scene, mailVars, listVars, failure>> /\ Fairness

\* The types of the three parts.
TypesOK == MailTypeOK /\ List!TypeOK /\ Reports!TypeOK

\* The properties of the instances, under their names.
NoMessageSkipped == List!NoMessageSkipped
ReportsAreRight == Reports!ReportsAreRight

\* What may be typed, requested and sent in the instance.
TypedValues == {<<>>, <<"typed">>, <<"typed", "frame", "typed">>, <<"frame">>,
                <<"typed", "params:", "typed">>, <<"params:">>}
SentUrls == {<<"path">>, <<"path", "query">>, <<"path", "query", "token">>,
             <<"path", "token">>, <<"path", "token", "query">>,
             <<"feed", "token">>, <<"feed", "other">>, <<"feed", "token", "query">>}
BodyPaths == {<<"email">>, <<"form">>, <<"form", "email">>, <<"email", "form">>}
=============================================================================
